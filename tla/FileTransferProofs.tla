------------------------ MODULE FileTransferProofs ------------------------
(***************************************************************************)
(* Theorems about FileTransfer for every set of concurrent transfers, on   *)
(* every transport; what a saved file holds, on those that lose no frame.  *)
(***************************************************************************)
EXTENDS FileTransfer, SequenceTheorems, TLAPS

USE SendsAssumption, TransportAssumption, NamesAssumption

---------------------------------------------------------------------------
(* Type correctness. A descriptor that is still linked has a file at its   *)
(* path; without it the type of disk is not inductive.                     *)
LinkedHasFile ==
  \A c \in Streams : linked[c] => Reading(c) /\ disk[PathOf(c)] # Absent

TypeInv == TypeOK /\ LinkedHasFile

LEMMA ContentType == ASSUME NEW s \in Files PROVE Content(s) \in Seq(Data)
  BY DEF Content, Data

LEMMA FrameType ==
  ASSUME NEW s \in Sends, NEW n \in 1..FrameCount(s)
  PROVE  NthFrame(s, n) \in Frame
<1>1. CASE s \in Texts
  BY <1>1 DEF NthFrame, Text, Frame
<1>2. CASE s \in Files
  <2>1. Chunks[s] \in Nat /\ FrameCount(s) = Chunks[s] + 2
    BY <1>2 DEF FrameCount
  <2>2. CASE n = 1
    BY <1>2, <2>2 DEF NthFrame, Start, Frame
  <2>3. CASE n # 1 /\ n = FrameCount(s)
    BY <1>2, <2>3, ContentType DEF NthFrame, End, Frame
  <2>4. CASE n # 1 /\ n # FrameCount(s)
    <3>1. n - 1 \in Nat \ {0}
      BY <2>1, <2>4
    <3>2. Chunk(s, n - 1) \in Frame
      BY <1>2, <3>1 DEF Chunk, Frame, Data
    <3>. QED BY <1>2, <2>4, <3>2 DEF NthFrame
  <2>. QED BY <2>2, <2>3, <2>4
<1>. QED BY <1>1, <1>2 DEF Sends

LEMMA WriteAtType ==
  ASSUME NEW S, NEW d \in Seq(S \cup {Hole}), NEW o \in Nat, NEW x \in S
  PROVE  WriteAt(d, o, x) \in Seq(S \cup {Hole})
  BY DEF WriteAt

(* The head of a stream has the fields of its type.                        *)
LEMMA HeadType ==
  ASSUME TypeOK, NEW c \in Streams, NEW types, Read(c, types)
  PROVE  /\ wire' \in [Streams -> Seq(Frame)]
         /\ Head(wire[c]) \in Frame
         /\ Head(wire[c]).type = "FILE_START" => Head(wire[c]).id \in Files
         /\ Head(wire[c]).type = "TEXT" => Head(wire[c]).id \in Texts
         /\ Head(wire[c]).type = "FILE_CHUNK" => Head(wire[c]).data \in Data
<1>1. wire[c] \in Seq(Frame) /\ wire[c] # <<>>
  BY DEF TypeOK, Read
<1>2. Head(wire[c]) \in Frame /\ Tail(wire[c]) \in Seq(Frame)
  BY <1>1
<1>3. wire' \in [Streams -> Seq(Frame)]
  BY <1>2 DEF TypeOK, Read
<1>. QED BY <1>2, <1>3 DEF Frame

LEMMA ErrorType ==
  ASSUME TypeOK, NEW c \in Streams, ReadError(c)
  PROVE  wire' \in [Streams -> Seq(Frame)]
<1>1. wire \in [Streams -> Seq(Frame)]
  BY DEF TypeOK
<1>2. wire[c] # <<>> => Tail(wire[c]) \in Seq(Frame)
  BY <1>1
<1>. QED BY <1>1, <1>2 DEF ReadError

LEMMA InitType == Init => TypeInv
  BY DEF Init, TypeInv, TypeOK, LinkedHasFile, Ack, Streams, Returned

LEMMA SenderType ==
  ASSUME TypeInv, NEW s \in Sends, Sender(s)
  PROVE  TypeInv'
<1>1. CASE Open(s)
  BY <1>1 DEF Open, TypeInv, TypeOK, LinkedHasFile, receiverVars, fileVars, Reading, PathOf
<1>2. CASE Refuse(s)
  BY <1>2 DEF Refuse, TypeInv, TypeOK, LinkedHasFile, receiverVars, fileVars, Reading, PathOf, Returned
<1>3. CASE Write(s)
  <2>1. pos[s] \in Nat /\ pos[s] + 1 \in 1..FrameCount(s)
    BY <1>3 DEF Write, TypeInv, TypeOK, FrameCount, Sends
  <2>2. NthFrame(s, pos[s] + 1) \in Frame
    BY <2>1, FrameType
  <2>3. StreamOf(s) \in Streams
    BY DEF Streams
  <2>4. wire' \in [Streams -> Seq(Frame)] /\ pos' \in [Sends -> Nat]
    BY <1>3, <2>1, <2>2, <2>3 DEF Write, TypeInv, TypeOK
  <2>. QED BY <1>3, <2>4
         DEF Write, TypeInv, TypeOK, LinkedHasFile, receiverVars, fileVars, Reading, PathOf
<1>4. CASE Abort(s)
  BY <1>4 DEF Abort, TypeInv, TypeOK, LinkedHasFile, receiverVars, fileVars, Reading, PathOf, Returned
<1>5. CASE CloseStream(s)
  BY <1>5 DEF CloseStream, TypeInv, TypeOK, LinkedHasFile, receiverVars, fileVars, Reading, PathOf, Returned
<1>. QED BY <1>1, <1>2, <1>3, <1>4, <1>5 DEF Sender

LEMMA FileSenderType ==
  ASSUME TypeInv, NEW s \in Files, FileSender(s)
  PROVE  TypeInv'
<1>1. CASE HearAck(s)
  BY <1>1 DEF HearAck, TypeInv, TypeOK, LinkedHasFile, receiverVars, fileVars, Reading, PathOf, Returned
<1>2. CASE GiveUp(s)
  BY <1>2 DEF GiveUp, TypeInv, TypeOK, LinkedHasFile, receiverVars, fileVars, Reading, PathOf, Returned
<1>. QED BY <1>1, <1>2 DEF FileSender

LEMMA AckType ==
  ASSUME TypeInv, NEW a \in Ack, TakeAck(a) \/ PutAck(a) \/ LoseAck(a)
  PROVE  TypeInv'
<1>0. a.id \in Files
  BY DEF Ack
<1>1. CASE TakeAck(a)
  BY <1>0, <1>1 DEF TakeAck, TypeInv, TypeOK, LinkedHasFile, fileVars, Reading, PathOf
<1>2. CASE PutAck(a)
  BY <1>0, <1>2 DEF PutAck, TypeInv, TypeOK, LinkedHasFile, receiverVars, fileVars, Reading, PathOf
<1>3. CASE LoseAck(a)
  BY <1>3 DEF LoseAck, TypeInv, TypeOK, LinkedHasFile, senderVars, fileVars, Reading, PathOf
<1>. QED BY <1>1, <1>2, <1>3

(* FailFile keeps every type; the file system is the caller's.             *)
LEMMA FailFileType ==
  ASSUME TypeInv, NEW c \in Streams, NEW t \in Files, FailFile(c, t),
         wire' \in [Streams -> Seq(Frame)],
         linked' \in [Streams -> BOOLEAN],
         disk' \in [Paths -> Seq(Data \cup {Hole}) \cup {Absent}]
  PROVE  TypeOK'
<1>1. [id |-> t, ok |-> FALSE] \in Ack
  BY DEF Ack
<1>2. ackFlight' \subseteq Ack
  BY <1>1 DEF FailFile, TypeInv, TypeOK
<1>3. reader' \in [Streams -> {"idle", "closed"} \cup Files]
  BY DEF FailFile, TypeInv, TypeOK
<1>4. got' \in [Streams -> Seq(Data)]
  BY DEF FailFile, TypeInv, TypeOK
<1>. QED BY <1>2, <1>3, <1>4 DEF FailFile, TypeInv, TypeOK, senderVars

(* A step that ends the ReadFile of stream c and removes no file.          *)
LEMMA LinkedAfterEnd ==
  ASSUME TypeInv, NEW c \in Streams, NEW r \in {"idle", "closed"},
         reader' = [reader EXCEPT ![c] = r],
         linked' = [linked EXCEPT ![c] = FALSE],
         disk' = disk
  PROVE  LinkedHasFile' /\ linked' \in [Streams -> BOOLEAN]
  BY DEF TypeInv, TypeOK, LinkedHasFile, Reading, PathOf

LEMMA ReceiverType ==
  ASSUME TypeInv, NEW c \in Streams, Receiver(c)
  PROVE  TypeInv'
<1>0. TypeOK
  BY DEF TypeInv
<1>closed. "closed" \notin Files
  BY DEF Sends
<1>1. CASE RecvText(c)
  <2>1. wire' \in [Streams -> Seq(Frame)] /\ Head(wire[c]).id \in Texts
    BY <1>0, <1>1, HeadType DEF RecvText, Read
  <2>. QED BY <1>1, <2>1
         DEF RecvText, TypeInv, TypeOK, LinkedHasFile, senderVars, fileVars, Reading, PathOf
<1>2. CASE RecvStart(c)
  <2> DEFINE t == Head(wire[c]).id
  <2>1. wire' \in [Streams -> Seq(Frame)] /\ t \in Files
    BY <1>0, <1>2, HeadType DEF RecvStart, Read
  <2>2. <<>> \in Seq(Data) /\ <<>> \in Seq(Data \cup {Hole}) /\ <<>> # Absent
    <3>1. <<>> \in Seq(Data) /\ <<>> \in Seq(Data \cup {Hole})
      OBVIOUS
    <3>. QED BY <3>1, AbsentAssumption
  <2>3. /\ reader' = [reader EXCEPT ![c] = t]
        /\ linked' = [linked EXCEPT ![c] = TRUE]
        /\ disk' = [disk EXCEPT ![Name[t]] = <<>>]
    BY <1>2 DEF RecvStart
  <2>4. /\ reader' \in [Streams -> {"idle", "closed"} \cup Files]
        /\ linked' \in [Streams -> BOOLEAN]
        /\ disk' \in [Paths -> Seq(Data \cup {Hole}) \cup {Absent}]
    BY <2>1, <2>2, <2>3 DEF TypeInv, TypeOK
  <2>5. got' \in [Streams -> Seq(Data)]
    BY <1>2, <2>2 DEF RecvStart, TypeInv, TypeOK
  <2>6. TypeOK'
    BY <1>2, <2>1, <2>4, <2>5 DEF RecvStart, TypeInv, TypeOK, senderVars
  <2>7. LinkedHasFile'
    BY <2>1, <2>2, <2>3 DEF TypeInv, TypeOK, LinkedHasFile, Reading, PathOf
  <2>. QED BY <2>6, <2>7 DEF TypeInv
<1>3. CASE CannotCreate(c)
  <2>1. wire' \in [Streams -> Seq(Frame)] /\ Head(wire[c]).id \in Files
    BY <1>0, <1>3, HeadType DEF CannotCreate, Read
  <2>2. linked' = linked /\ disk' = disk /\ FailFile(c, Head(wire[c]).id)
    BY <1>3 DEF CannotCreate
  <2>3. TypeOK'
    BY <2>1, <2>2, FailFileType DEF TypeInv, TypeOK
  <2>4. LinkedHasFile'
    BY <1>3, <2>2 DEF CannotCreate, FailFile, TypeInv, TypeOK, LinkedHasFile, Reading, PathOf, Sends
  <2>. QED BY <2>3, <2>4 DEF TypeInv
<1>4. CASE SkipFrame(c)
  <2>1. wire' \in [Streams -> Seq(Frame)]
    BY <1>0, <1>4, HeadType DEF SkipFrame
  <2>. QED BY <1>4, <2>1
         DEF SkipFrame, TypeInv, TypeOK, LinkedHasFile, senderVars, receiverVars, fileVars, Reading, PathOf
<1>5. CASE RecvChunk(c)
  <2> DEFINE x == Head(wire[c]).data
  <2>1. wire' \in [Streams -> Seq(Frame)] /\ x \in Data
    BY <1>0, <1>5, HeadType DEF RecvChunk, Read
  <2>2. reader[c] \in Files /\ PathOf(c) \in Paths
    BY <1>5 DEF RecvChunk, Reading, PathOf
  <2>3. got' \in [Streams -> Seq(Data)]
    BY <1>5, <2>1 DEF RecvChunk, TypeInv, TypeOK
  <2>4. CASE linked[c]
    <3>1. disk[PathOf(c)] \in Seq(Data \cup {Hole}) /\ Len(got[c]) \in Nat
      BY <2>2, <2>4 DEF TypeInv, TypeOK, LinkedHasFile
    <3>2. WriteAt(disk[PathOf(c)], Len(got[c]), x) \in Seq(Data \cup {Hole})
      BY <2>1, <3>1, WriteAtType
    <3>3. disk' = [disk EXCEPT ![PathOf(c)] = WriteAt(@, Len(got[c]), x)]
      BY <1>5, <2>4 DEF RecvChunk
    <3>4. disk' \in [Paths -> Seq(Data \cup {Hole}) \cup {Absent}]
      BY <2>2, <3>2, <3>3 DEF TypeInv, TypeOK
    <3>5. TypeOK'
      BY <1>5, <2>1, <2>3, <3>4 DEF RecvChunk, TypeInv, TypeOK, senderVars
    <3>6. WriteAt(disk[PathOf(c)], Len(got[c]), x) # Absent
      BY <3>2, AbsentAssumption
    <3>. QED BY <1>5, <2>2, <3>3, <3>5, <3>6
           DEF RecvChunk, TypeInv, TypeOK, LinkedHasFile, Reading, PathOf
  <2>5. CASE ~linked[c]
    BY <1>5, <2>1, <2>3, <2>5
      DEF RecvChunk, TypeInv, TypeOK, LinkedHasFile, senderVars, Reading, PathOf
  <2>. QED BY <2>4, <2>5
<1>6. CASE RecvEnd(c)
  <2>1. wire' \in [Streams -> Seq(Frame)]
    BY <1>0, <1>6, HeadType DEF RecvEnd
  <2>2. [id |-> reader[c], ok |-> TRUE] \in Ack /\ reader[c] \in Files
    BY <1>6 DEF RecvEnd, Reading, Ack
  <2>3. LinkedHasFile' /\ linked' \in [Streams -> BOOLEAN]
    BY <1>6, LinkedAfterEnd DEF RecvEnd
  <2>4. ackFlight' \subseteq Ack
    BY <1>6, <2>2 DEF RecvEnd, TypeInv, TypeOK
  <2>5. got' \in [Streams -> Seq(Data)]
    BY <1>6 DEF RecvEnd, TypeInv, TypeOK
  <2>6. TypeOK'
    BY <1>6, <2>1, <2>2, <2>3, <2>4, <2>5 DEF RecvEnd, TypeInv, TypeOK, senderVars
  <2>. QED BY <2>3, <2>6 DEF TypeInv
<1>7. CASE ChecksumMismatch(c)
  <2>1. wire' \in [Streams -> Seq(Frame)]
    BY <1>0, <1>7, HeadType DEF ChecksumMismatch
  <2>2. reader[c] \in Files /\ PathOf(c) \in Paths
    BY <1>7 DEF ChecksumMismatch, Reading, PathOf
  <2>3. FailFile(c, reader[c]) /\ reader' = [reader EXCEPT ![c] = "closed"]
    BY <1>7 DEF ChecksumMismatch, FailFile
  <2>4. CASE /\ disk' = [disk EXCEPT ![PathOf(c)] = Absent]
             /\ linked' = [k \in Streams |->
                  linked[k] /\ k # c /\ (Reading(k) => PathOf(k) # PathOf(c))]
    <3>1. /\ disk' \in [Paths -> Seq(Data \cup {Hole}) \cup {Absent}]
          /\ linked' \in [Streams -> BOOLEAN]
      BY <2>2, <2>4 DEF TypeInv, TypeOK
    <3>2. LinkedHasFile'
      <4> SUFFICES ASSUME NEW k \in Streams, linked'[k]
                   PROVE  Reading(k)' /\ disk'[PathOf(k)'] # Absent
        BY DEF LinkedHasFile
      <4>1. linked[k] /\ k # c /\ (Reading(k) => PathOf(k) # PathOf(c))
        BY <2>4
      <4>2. reader'[k] = reader[k]
        BY <2>3, <4>1 DEF TypeInv, TypeOK
      <4>3. Reading(k) /\ disk[PathOf(k)] # Absent /\ PathOf(k) # PathOf(c)
        BY <4>1 DEF TypeInv, LinkedHasFile
      <4>4. PathOf(k) \in Paths
        BY <4>3 DEF Reading, PathOf
      <4>. QED BY <2>2, <2>4, <4>2, <4>3, <4>4 DEF TypeInv, TypeOK, Reading, PathOf
    <3>. QED BY <2>1, <2>2, <2>3, <3>1, <3>2, FailFileType DEF TypeInv
  <2>5. CASE linked' = [linked EXCEPT ![c] = FALSE] /\ UNCHANGED disk
    <3>1. LinkedHasFile' /\ linked' \in [Streams -> BOOLEAN]
      BY <2>3, <2>5, LinkedAfterEnd
    <3>. QED BY <2>1, <2>2, <2>3, <2>5, <3>1, FailFileType DEF TypeInv, TypeOK
  <2>. QED BY <1>7, <2>4, <2>5 DEF ChecksumMismatch
<1>8. CASE UnexpectedFrame(c) \/ CannotWrite(c) \/ EndInsideFile(c)
  <2>1. wire' \in [Streams -> Seq(Frame)]
    BY <1>0, <1>8, HeadType, ErrorType DEF UnexpectedFrame, CannotWrite, EndInsideFile
  <2>2. /\ reader[c] \in Files /\ FailFile(c, reader[c]) /\ disk' = disk
        /\ reader' = [reader EXCEPT ![c] = "closed"]
        /\ linked' = [linked EXCEPT ![c] = FALSE]
    BY <1>8 DEF UnexpectedFrame, CannotWrite, EndInsideFile, Reading, FailFile
  <2>3. LinkedHasFile' /\ linked' \in [Streams -> BOOLEAN]
    BY <2>2, LinkedAfterEnd
  <2>. QED BY <2>1, <2>2, <2>3, FailFileType DEF TypeInv, TypeOK
<1>9. CASE EndBetweenFrames(c)
  <2>1. wire' \in [Streams -> Seq(Frame)]
    BY <1>0, <1>9, ErrorType DEF EndBetweenFrames
  <2>. QED BY <1>9, <1>closed, <2>1
    DEF EndBetweenFrames, TypeInv, TypeOK, LinkedHasFile, senderVars, fileVars, Reading, PathOf, Sends
<1>10. CASE Discard(c)
  BY <1>10 DEF Discard, TypeInv, TypeOK, LinkedHasFile, senderVars, receiverVars, fileVars, Reading, PathOf
<1>. QED BY <1>1, <1>2, <1>3, <1>4, <1>5, <1>6, <1>7, <1>8, <1>9, <1>10
       DEF Receiver

LEMMA NetworkType ==
  ASSUME TypeInv, LinkDown \/ \E c \in Streams : LoseFrame(c)
  PROVE  TypeInv'
<1>1. CASE LinkDown
  <2>1. wire' \in [Streams -> Seq(Frame)]
    BY <1>1 DEF LinkDown, TypeInv, TypeOK
  <2>. QED BY <1>1, <2>1 DEF LinkDown, TypeInv, TypeOK, LinkedHasFile, senderVars, receiverVars, fileVars, Reading, PathOf
<1>2. ASSUME NEW c \in Streams, LoseFrame(c) PROVE TypeInv'
  BY <1>2 DEF LoseFrame, TypeInv, TypeOK, LinkedHasFile, senderVars, receiverVars, fileVars, Reading, PathOf
<1>. QED BY <1>1, <1>2

LEMMA NextType == TypeInv /\ [Next]_vars => TypeInv'
<1> SUFFICES ASSUME TypeInv, [Next]_vars PROVE TypeInv'
  OBVIOUS
<1>1. CASE UNCHANGED vars
  BY <1>1 DEF vars, senderVars, receiverVars, fileVars, TypeInv, TypeOK, LinkedHasFile, Reading, PathOf
<1>. QED BY <1>1, SenderType, FileSenderType, AckType, ReceiverType, NetworkType DEF Next

(* In every behaviour, of any set of transfers on any transport, all state *)
(* keeps its type.                                                         *)
THEOREM TypeCorrect == Spec => []TypeOK
<1>1. Spec => []TypeInv
  BY InitType, NextType, PTL DEF Spec
<1>. QED BY <1>1, PTL DEF TypeInv

---------------------------------------------------------------------------
(* The inductive invariant behind the safety properties.                   *)

(* Every verdict on its way to the sender's user is the receiver's.        *)
VerdictBacked ==
  /\ \A a \in ackFlight \cup taking : a.id \in (IF a.ok THEN saved ELSE failed)
  /\ \A s \in Files :
       /\ (ackCh[s] = "ok" \/ pc[s] = "done") => s \in saved
       /\ (ackCh[s] = "err" \/ pc[s] = "nacked") => s \in failed

(* Each FILE_START is on its stream at most once, and before its verdict:  *)
(* a transfer is not written, then queued, then read, then decided.        *)
StartAt(c, i) == wire[c][i].type = "FILE_START"
Begun(s) == pos[s] > 0
Untouched(s) == s \notin saved \cup failed /\ \A k \in Streams : reader[k] # s

QueuedOnce ==
  \A c \in Streams : \A i \in 1..Len(wire[c]) : StartAt(c, i) =>
    /\ c = StreamOf(wire[c][i].id)
    /\ Begun(wire[c][i].id)
    /\ Untouched(wire[c][i].id)
    /\ \A j \in 1..Len(wire[c]) :
         StartAt(c, j) /\ wire[c][j].id = wire[c][i].id => j = i
ReadOnce ==
  \A c \in Streams : Reading(c) =>
    /\ c = StreamOf(reader[c])
    /\ Begun(reader[c])
    /\ reader[c] \notin saved \cup failed
DecidedOnce ==
  /\ saved \cap failed = {}
  /\ \A s \in saved \cup failed : Begun(s)
  /\ \A s \in Files : pc[s] = "new" => ~Begun(s)
Once == QueuedOnce /\ ReadOnce /\ DecidedOnce

(* A pending Send waits for the one ack of its transfer, or has it.        *)
Registered(s) == s \in acks /\ ackCh[s] = "empty" /\ \A a \in taking : a.id # s
Answered(s) ==
  /\ s \notin acks
  /\ ackCh[s] # "empty" \/ \E a \in taking : a.id = s
  /\ \A a \in ackFlight : a.id # s
OneAck ==
  \A s \in Files :
    /\ pc[s] \in {"streaming", "waiting"} => Registered(s) \/ Answered(s)
    /\ pc[s] \notin {"streaming", "waiting"} => s \notin acks

IInv == TypeInv /\ VerdictBacked /\ Once /\ OneAck

LEMMA InitIInv == Init => IInv
<1> SUFFICES ASSUME Init PROVE IInv
  OBVIOUS
<1>1. VerdictBacked
  BY DEF Init, VerdictBacked, Sends
<1>2. Once
  BY DEF Init, Once, QueuedOnce, ReadOnce, DecidedOnce, Reading, Begun, Sends
<1>3. OneAck
  BY DEF Init, OneAck, Sends
<1>. QED BY <1>1, <1>2, <1>3, InitType DEF IInv

---------------------------------------------------------------------------
(* Once. Every step but Write leaves each stream a suffix of what it was.  *)
Suffix ==
  \A k \in Streams : \E d \in Nat :
    /\ Len(wire[k]) = Len(wire'[k]) + d
    /\ \A i \in 1..Len(wire'[k]) : wire'[k][i] = wire[k][i + d]

LEMMA TailShift ==
  ASSUME NEW S, NEW s \in Seq(S), s # <<>>
  PROVE  /\ Len(s) = Len(Tail(s)) + 1
         /\ \A i \in 1..Len(Tail(s)) : Tail(s)[i] = s[i + 1]
<1>1. Len(s) \in Nat /\ Len(Tail(s)) = Len(s) - 1
  BY HeadTailProperties
<1>2. \A i \in 1..Len(Tail(s)) : Tail(s)[i] = s[i + 1]
  BY HeadTailProperties
<1>. QED BY <1>1, <1>2

LEMMA NoShift ==
  ASSUME NEW S, NEW s \in Seq(S)
  PROVE  Len(s) = Len(s) + 0 /\ \A i \in 1..Len(s) : s[i] = s[i + 0]
<1>1. Len(s) \in Nat
  OBVIOUS
<1>2. ASSUME NEW i \in 1..Len(s) PROVE s[i] = s[i + 0]
  <2>1. i + 0 = i
    BY <1>1
  <2>. QED BY <2>1
<1>. QED BY <1>1, <1>2

LEMMA SameIsSuffix == ASSUME TypeOK, wire' = wire PROVE Suffix
<1> SUFFICES ASSUME NEW k \in Streams
             PROVE  \E d \in Nat :
                      /\ Len(wire[k]) = Len(wire'[k]) + d
                      /\ \A i \in 1..Len(wire'[k]) : wire'[k][i] = wire[k][i + d]
  BY DEF Suffix
<1>1. wire[k] \in Seq(Frame) /\ wire'[k] = wire[k]
  BY DEF TypeOK
<1>2. /\ Len(wire[k]) = Len(wire'[k]) + 0
      /\ \A i \in 1..Len(wire'[k]) : wire'[k][i] = wire[k][i + 0]
  BY <1>1, NoShift
<1>. QED BY <1>2

LEMMA TailIsSuffix ==
  ASSUME TypeOK, NEW c \in Streams, wire[c] # <<>>,
         wire' = [wire EXCEPT ![c] = Tail(@)]
  PROVE  Suffix
<1> SUFFICES ASSUME NEW k \in Streams
             PROVE  \E d \in Nat :
                      /\ Len(wire[k]) = Len(wire'[k]) + d
                      /\ \A i \in 1..Len(wire'[k]) : wire'[k][i] = wire[k][i + d]
  BY DEF Suffix
<1>1. wire[k] \in Seq(Frame) /\ Len(wire[k]) \in Nat
  BY DEF TypeOK
<1>2. CASE k = c
  <2>1. wire'[k] = Tail(wire[k]) /\ wire[k] # <<>>
    BY <1>2 DEF TypeOK
  <2>2. /\ Len(wire[k]) = Len(wire'[k]) + 1
        /\ \A i \in 1..Len(wire'[k]) : wire'[k][i] = wire[k][i + 1]
    BY <1>1, <2>1, TailShift
  <2>. QED BY <2>2
<1>3. CASE k # c
  <2>1. wire'[k] = wire[k]
    BY <1>3 DEF TypeOK
  <2>2. /\ Len(wire[k]) = Len(wire'[k]) + 0
        /\ \A i \in 1..Len(wire'[k]) : wire'[k][i] = wire[k][i + 0]
    BY <1>1, <2>1, NoShift
  <2>. QED BY <2>2
<1>. QED BY <1>2, <1>3

LEMMA ErrorIsSuffix == ASSUME TypeOK, NEW c \in Streams, ReadError(c) PROVE Suffix
  BY SameIsSuffix, TailIsSuffix DEF ReadError

(* What is queued after such a step was queued before it.                  *)
LEMMA SuffixQueued ==
  ASSUME TypeOK, TypeOK', Suffix, NEW k \in Streams, NEW i \in 1..Len(wire'[k])
  PROVE  \E d \in Nat : /\ i + d \in 1..Len(wire[k])
                        /\ wire'[k][i] = wire[k][i + d]
                        /\ \A j \in 1..Len(wire'[k]) :
                             /\ j + d \in 1..Len(wire[k])
                             /\ wire'[k][j] = wire[k][j + d]
<1>1. PICK d \in Nat :
        /\ Len(wire[k]) = Len(wire'[k]) + d
        /\ \A j \in 1..Len(wire'[k]) : wire'[k][j] = wire[k][j + d]
  BY DEF Suffix
<1>2. Len(wire[k]) \in Nat /\ Len(wire'[k]) \in Nat
  BY DEF TypeOK
<1>3. \A j \in 1..Len(wire'[k]) : j + d \in 1..Len(wire[k])
  BY <1>1, <1>2
<1>. QED BY <1>1, <1>3

LEMMA QueuedOnceSuffix ==
  ASSUME TypeOK, TypeOK', QueuedOnce, Suffix, pos' = pos,
         \A t \in Files : Untouched(t) => Untouched(t)' \/
           \A k \in Streams : \A i \in 1..Len(wire'[k]) :
             wire'[k][i].type = "FILE_START" => wire'[k][i].id # t
  PROVE  QueuedOnce'
<1> SUFFICES ASSUME NEW k \in Streams, NEW i \in 1..Len(wire'[k]),
                    wire'[k][i].type = "FILE_START"
             PROVE  \E t \in Files :
                    /\ t = wire'[k][i].id
                    /\ k = StreamOf(t)
                    /\ pos'[t] > 0
                    /\ Untouched(t)'
                    /\ \A j \in 1..Len(wire'[k]) :
                         wire'[k][j].type = "FILE_START" /\ wire'[k][j].id = t => j = i
  BY DEF QueuedOnce, StartAt, Begun, Untouched
<1>0. Len(wire[k]) \in Nat /\ Len(wire'[k]) \in Nat
  BY DEF TypeOK
<1>1. PICK d \in Nat :
        /\ i + d \in 1..Len(wire[k])
        /\ wire'[k][i] = wire[k][i + d]
        /\ \A j \in 1..Len(wire'[k]) :
             j + d \in 1..Len(wire[k]) /\ wire'[k][j] = wire[k][j + d]
  BY SuffixQueued
<1>2. wire'[k][i] \in Frame
  BY ElementOfSeq DEF TypeOK
<1>3. PICK t \in Files : t = wire'[k][i].id
  BY <1>2 DEF Frame
<1>4. /\ k = StreamOf(t)
      /\ Begun(t)
      /\ Untouched(t)
      /\ \A j \in 1..Len(wire[k]) :
           wire[k][j].type = "FILE_START" /\ wire[k][j].id = t => j = i + d
  BY <1>1, <1>3 DEF QueuedOnce, StartAt
<1>5. ASSUME NEW j \in 1..Len(wire'[k]),
             wire'[k][j].type = "FILE_START", wire'[k][j].id = t
      PROVE  j = i
  <2>1. j + d = i + d
    BY <1>1, <1>4, <1>5
  <2>. QED BY <2>1, <1>0
<1>6. Untouched(t)'
  BY <1>3, <1>4
<1>. QED BY <1>3, <1>4, <1>5, <1>6 DEF Begun

(* A step that starts, decides and begins nothing.                         *)
LEMMA OnceQuiet ==
  ASSUME TypeOK, TypeOK', Once, Suffix, pos' = pos,
         \A s \in Sends : pc'[s] = "new" => pc[s] = "new",
         saved' = saved, failed' = failed,
         \A k \in Streams : reader'[k] = reader[k] \/ reader'[k] \notin Files
  PROVE  Once'
<1>1. \A t \in Files : Untouched(t) => Untouched(t)'
  BY DEF Untouched
<1>2. QueuedOnce'
  BY <1>1, QueuedOnceSuffix DEF Once
<1>3. ReadOnce'
  BY DEF Once, ReadOnce, Reading, Begun
<1>4. DecidedOnce'
  BY DEF Once, DecidedOnce, Begun, Sends
<1>. QED BY <1>2, <1>3, <1>4 DEF Once

(* A step of stream c that starts or decides transfer t, and no other.     *)
LEMMA OnceTouch ==
  ASSUME TypeOK, TypeOK', Once, Suffix, pos' = pos, pc' = pc,
         NEW c \in Streams, NEW t \in Files, NEW r \in {"idle", "closed", t},
         reader' = [reader EXCEPT ![c] = r],
         c = StreamOf(t), Begun(t), t \notin saved \cup failed,
         \A k \in Streams : reader[k] = t => k = c,
         \/ /\ r = t
            /\ saved' = saved /\ failed' = failed
         \/ /\ r # t
            /\ \/ saved' = saved \cup {t} /\ failed' = failed
               \/ saved' = saved /\ failed' = failed \cup {t},
         \A k \in Streams : \A i \in 1..Len(wire'[k]) :
           wire'[k][i].type = "FILE_START" => wire'[k][i].id # t
  PROVE  Once'
<1>0. /\ \A k \in Streams : k # c => reader'[k] = reader[k]
      /\ reader'[c] = r
  BY DEF TypeOK
<1>1. ASSUME NEW u \in Files, u # t, Untouched(u)
      PROVE  Untouched(u)'
  <2>1. u \notin saved' \cup failed'
    BY <1>1 DEF Untouched
  <2>2. r # u
    BY <1>1 DEF Sends
  <2>. QED BY <1>0, <1>1, <2>1, <2>2 DEF Untouched
<1>2. QueuedOnce'
  BY <1>1, QueuedOnceSuffix DEF Once
<1>3. ReadOnce'
  <2> SUFFICES ASSUME NEW k \in Streams, reader'[k] \in Files
               PROVE  /\ k = StreamOf(reader'[k])
                      /\ pos'[reader'[k]] > 0
                      /\ reader'[k] \notin saved' \cup failed'
    BY DEF ReadOnce, Reading, Begun
  <2>1. CASE k = c
    BY <1>0, <2>1 DEF Begun, Sends
  <2>2. CASE k # c
    <3>1. reader'[k] = reader[k] /\ reader[k] # t
      BY <1>0, <2>2
    <3>2. /\ k = StreamOf(reader[k])
          /\ Begun(reader[k])
          /\ reader[k] \notin saved \cup failed
      BY <3>1 DEF Once, ReadOnce, Reading
    <3>. QED BY <3>1, <3>2 DEF Begun
  <2>. QED BY <2>1, <2>2
<1>4. DecidedOnce'
  BY DEF Once, DecidedOnce, Begun, Sends
<1>. QED BY <1>2, <1>3, <1>4 DEF Once

LEMMA FirstFrameStarts ==
  ASSUME NEW s \in Sends, NEW n \in 1..FrameCount(s),
         NthFrame(s, n).type = "FILE_START"
  PROVE  s \in Files /\ n = 1 /\ NthFrame(s, n).id = s
<1>1. s \in Files
  BY DEF NthFrame, Text, Sends
<1>2. s \notin Texts
  BY <1>1
<1>. QED BY <1>1, <1>2 DEF NthFrame, Start, End, Chunk

LEMMA WriteOnce ==
  ASSUME TypeOK, TypeOK', Once, NEW s \in Sends, Write(s)
  PROVE  Once'
<1> DEFINE n == pos[s] + 1
           c == StreamOf(s)
           f == NthFrame(s, n)
<1>0. /\ pos[s] \in Nat
      /\ n \in 1..FrameCount(s)
      /\ c \in Streams
      /\ f \in Frame
      /\ pos' = [pos EXCEPT ![s] = n]
      /\ wire' = [wire EXCEPT ![c] = Append(wire[c], f)]
      /\ pc' = pc /\ saved' = saved /\ failed' = failed /\ reader' = reader
  <2>1. pos[s] \in Nat /\ n \in 1..FrameCount(s)
    BY DEF Write, TypeOK, FrameCount, Sends
  <2>. QED BY <2>1, FrameType DEF Write, Streams, receiverVars
<1>1. \A u \in Sends : Begun(u) => Begun(u)'
  BY <1>0 DEF Begun, TypeOK
<1>2. \A u \in Files : Untouched(u) => Untouched(u)'
  BY <1>0 DEF Untouched
<1>3. ReadOnce'
  <2> SUFFICES ASSUME NEW k \in Streams, reader[k] \in Files
               PROVE  /\ k = StreamOf(reader[k])
                      /\ pos'[reader[k]] > 0
                      /\ reader[k] \notin saved \cup failed
    BY <1>0 DEF ReadOnce, Reading, Begun
  <2>. QED BY <1>0, <1>1 DEF Once, ReadOnce, Reading, Begun, Sends
<1>4. DecidedOnce'
  BY <1>0, <1>1 DEF Once, DecidedOnce, Begun, TypeOK, Sends, Write
<1>5. QueuedOnce'
  <2> SUFFICES ASSUME NEW k \in Streams, NEW i \in 1..Len(wire'[k]),
                      wire'[k][i].type = "FILE_START"
               PROVE  \E t \in Files :
                      /\ t = wire'[k][i].id
                      /\ k = StreamOf(t)
                      /\ pos'[t] > 0
                      /\ Untouched(t)'
                      /\ \A j \in 1..Len(wire'[k]) :
                           wire'[k][j].type = "FILE_START" /\ wire'[k][j].id = t => j = i
    BY DEF QueuedOnce, StartAt, Begun, Untouched
  <2>0. wire[k] \in Seq(Frame) /\ Len(wire[k]) \in Nat
    BY DEF TypeOK
  <2>1. k # c => wire'[k] = wire[k]
    BY <1>0 DEF TypeOK
  <2>2. k = c => /\ Len(wire'[k]) = Len(wire[k]) + 1
                 /\ wire'[k][Len(wire[k]) + 1] = f
                 /\ \A j \in 1..Len(wire[k]) : wire'[k][j] = wire[k][j]
    BY <1>0, <2>0, AppendProperties DEF TypeOK
  <2>3. ASSUME NEW j \in 1..Len(wire[k]), wire[k][j].type = "FILE_START"
        PROVE  \E t \in Files :
                 /\ t = wire[k][j].id
                 /\ k = StreamOf(t)
                 /\ Begun(t)
                 /\ Untouched(t)
                 /\ \A l \in 1..Len(wire[k]) :
                      wire[k][l].type = "FILE_START" /\ wire[k][l].id = t => l = j
    <3>1. wire[k][j] \in Frame
      BY <2>0, ElementOfSeq
    <3>2. wire[k][j].id \in Files
      BY <2>3, <3>1 DEF Frame
    <3>. QED BY <2>3, <3>2 DEF Once, QueuedOnce, StartAt
  <2>4. CASE k # c
    BY <1>1, <1>2, <2>1, <2>3, <2>4 DEF Begun, Sends
  <2>5. CASE k = c /\ i \in 1..Len(wire[k])
    <3>1. PICK t \in Files :
                 /\ t = wire[k][i].id
                 /\ k = StreamOf(t)
                 /\ Begun(t)
                 /\ Untouched(t)
                 /\ \A l \in 1..Len(wire[k]) :
                      wire[k][l].type = "FILE_START" /\ wire[k][l].id = t => l = i
      BY <2>2, <2>3, <2>5
    <3>2. f.type = "FILE_START" => f.id # t
      BY <1>0, <3>1, FirstFrameStarts DEF Begun
    <3>3. ASSUME NEW j \in 1..Len(wire'[k]),
                 wire'[k][j].type = "FILE_START", wire'[k][j].id = t
          PROVE  j = i
      <4>1. j \in 1..Len(wire[k]) \/ j = Len(wire[k]) + 1
        BY <2>0, <2>2, <2>5
      <4>. QED BY <2>2, <2>5, <3>1, <3>2, <3>3, <4>1
    <3>. QED BY <1>1, <1>2, <2>2, <2>5, <3>1, <3>3 DEF Begun, Sends
  <2>6. CASE k = c /\ i = Len(wire[k]) + 1
    <3>1. s \in Files /\ n = 1 /\ f.id = s /\ wire'[k][i] = f
      BY <1>0, <2>2, <2>6, FirstFrameStarts
    <3>2. ~Begun(s)
      BY <1>0, <3>1 DEF Begun
    <3>3. Untouched(s)
      BY <3>1, <3>2 DEF Once, ReadOnce, DecidedOnce, Reading, Untouched
    <3>4. ASSUME NEW j \in 1..Len(wire'[k]),
                 wire'[k][j].type = "FILE_START", wire'[k][j].id = s
          PROVE  j = i
      <4>1. j \in 1..Len(wire[k]) \/ j = i
        BY <2>0, <2>2, <2>6
      <4>2. ASSUME j \in 1..Len(wire[k]) PROVE FALSE
        BY <2>2, <2>3, <2>6, <3>2, <3>4, <4>2
      <4>. QED BY <4>1, <4>2
    <3>. QED BY <1>0, <1>2, <2>6, <3>1, <3>3, <3>4 DEF TypeOK
  <2>. QED BY <2>0, <2>2, <2>4, <2>5, <2>6
<1>. QED BY <1>3, <1>4, <1>5 DEF Once

(* Reading FILE_START of t from stream c: t was untouched and is queued no *)
(* more.                                                                   *)
LEMMA StartConsumed ==
  ASSUME TypeOK, TypeOK', Once, NEW c \in Streams, Read(c, {"FILE_START"})
  PROVE  \E t \in Files :
           /\ t = Head(wire[c]).id
           /\ c = StreamOf(t)
           /\ Begun(t)
           /\ Untouched(t)
           /\ \A k \in Streams : \A i \in 1..Len(wire'[k]) :
                wire'[k][i].type = "FILE_START" => wire'[k][i].id # t
<1>1. PICK t \in Files : t = Head(wire[c]).id
  BY HeadType DEF Read
<1>2. /\ wire[c] \in Seq(Frame) /\ wire[c] # <<>> /\ Len(wire[c]) \in Nat
      /\ Head(wire[c]).type = "FILE_START"
      /\ wire' = [wire EXCEPT ![c] = Tail(@)]
  BY DEF Read, TypeOK
<1>3. 1 \in 1..Len(wire[c]) /\ Head(wire[c]) = wire[c][1]
  BY <1>2
<1>4. /\ c = StreamOf(t) /\ Begun(t) /\ Untouched(t)
      /\ \A j \in 1..Len(wire[c]) :
           wire[c][j].type = "FILE_START" /\ wire[c][j].id = t => j = 1
  BY <1>1, <1>2, <1>3 DEF Once, QueuedOnce, StartAt
<1>5. ASSUME NEW k \in Streams, NEW i \in 1..Len(wire'[k]),
             wire'[k][i].type = "FILE_START", wire'[k][i].id = t
      PROVE  FALSE
  <2>1. CASE k = c
    <3>1. wire'[k] = Tail(wire[c])
      BY <1>2, <2>1 DEF TypeOK
    <3>2. /\ Len(wire[c]) = Len(wire'[k]) + 1
          /\ wire'[k][i] = wire[c][i + 1]
      BY <1>2, <3>1, TailShift
    <3>3. i + 1 \in 1..Len(wire[c]) /\ i + 1 # 1
      BY <1>2, <3>2
    <3>. QED BY <1>4, <1>5, <3>2, <3>3
  <2>2. CASE k # c
    <3>1. wire'[k] = wire[k]
      BY <1>2, <2>2 DEF TypeOK
    <3>2. k = StreamOf(t)
      BY <1>5, <3>1 DEF Once, QueuedOnce, StartAt
    <3>. QED BY <1>4, <2>2, <3>2
  <2>. QED BY <2>1, <2>2
<1>. QED BY <1>1, <1>4, <1>5

(* The transfer a reader is in is its own and is not queued.               *)
LEMMA ReadingAlone ==
  ASSUME TypeOK, TypeOK', Once, Suffix, NEW c \in Streams, Reading(c)
  PROVE  /\ c = StreamOf(reader[c])
         /\ Begun(reader[c])
         /\ reader[c] \notin saved \cup failed
         /\ \A k \in Streams : reader[k] = reader[c] => k = c
         /\ \A k \in Streams : \A i \in 1..Len(wire'[k]) :
              wire'[k][i].type = "FILE_START" => wire'[k][i].id # reader[c]
<1>1. /\ c = StreamOf(reader[c])
      /\ Begun(reader[c])
      /\ reader[c] \notin saved \cup failed
      /\ \A k \in Streams : reader[k] = reader[c] => k = c
  BY DEF Once, ReadOnce, Reading
<1>2. ASSUME NEW k \in Streams, NEW i \in 1..Len(wire'[k]),
             wire'[k][i].type = "FILE_START"
      PROVE  wire'[k][i].id # reader[c]
  <2>1. PICK d \in Nat : i + d \in 1..Len(wire[k]) /\ wire'[k][i] = wire[k][i + d]
    BY SuffixQueued
  <2>. QED BY <1>2, <2>1 DEF Once, QueuedOnce, StartAt, Untouched
<1>. QED BY <1>1, <1>2

LEMMA OnceReceiver ==
  ASSUME TypeInv, TypeOK', Once, NEW c \in Streams, Receiver(c)
  PROVE  Once'
<1>0. TypeOK
  BY DEF TypeInv
<1>1. CASE RecvText(c) \/ SkipFrame(c) \/ RecvChunk(c) \/ Discard(c)
  <2>1. Suffix
    BY <1>0, <1>1, TailIsSuffix DEF RecvText, SkipFrame, RecvChunk, Discard, Read
  <2>. QED BY <1>0, <1>1, <2>1, OnceQuiet
         DEF RecvText, SkipFrame, RecvChunk, Discard, senderVars, receiverVars
<1>2. CASE EndBetweenFrames(c)
  <2>1. Suffix
    BY <1>0, <1>2, ErrorIsSuffix DEF EndBetweenFrames
  <2>2. \A k \in Streams : reader'[k] = reader[k] \/ reader'[k] \notin Files
    BY <1>0, <1>2 DEF EndBetweenFrames, TypeOK, Sends
  <2>. QED BY <1>0, <1>2, <2>1, <2>2, OnceQuiet DEF EndBetweenFrames, senderVars
<1>3. CASE RecvStart(c) \/ CannotCreate(c)
  <2>1. Read(c, {"FILE_START"})
    BY <1>3 DEF RecvStart, CannotCreate
  <2>2. PICK t \in Files :
           /\ t = Head(wire[c]).id
           /\ c = StreamOf(t)
           /\ Begun(t)
           /\ Untouched(t)
           /\ \A k \in Streams : \A i \in 1..Len(wire'[k]) :
                wire'[k][i].type = "FILE_START" => wire'[k][i].id # t
    BY <1>0, <2>1, StartConsumed
  <2>3. Suffix
    BY <1>0, <2>1, TailIsSuffix DEF Read
  <2>4. /\ t \notin saved \cup failed
        /\ \A k \in Streams : reader[k] = t => k = c
    BY <2>2 DEF Untouched
  <2>5. CASE RecvStart(c)
    <3>1. /\ reader' = [reader EXCEPT ![c] = t] /\ saved' = saved /\ failed' = failed
          /\ pos' = pos /\ pc' = pc
      BY <2>2, <2>5 DEF RecvStart, senderVars
    <3>. QED BY <1>0, <2>2, <2>3, <2>4, <3>1, OnceTouch
  <2>6. CASE CannotCreate(c)
    <3>1. /\ reader' = [reader EXCEPT ![c] = "closed"]
          /\ pos' = pos /\ pc' = pc
      BY <2>2, <2>6 DEF CannotCreate, FailFile, senderVars
    <3>2. /\ "closed" # t
          /\ saved' = saved /\ failed' = failed \cup {t}
      BY <2>2, <2>6 DEF CannotCreate, FailFile, Sends
    <3>3. \A k \in Streams : \A i \in 1..Len(wire'[k]) :
            wire'[k][i].type = "FILE_START" => wire'[k][i].id # t
      BY <2>2
    <3>4. c = StreamOf(t) /\ Begun(t)
      BY <2>2
    <3>. QED BY <1>0, <2>3, <2>4, <3>1, <3>2, <3>3, <3>4, OnceTouch
  <2>. QED BY <1>3, <2>5, <2>6
<1>4. CASE \/ RecvEnd(c) \/ ChecksumMismatch(c) \/ UnexpectedFrame(c)
           \/ CannotWrite(c) \/ EndInsideFile(c)
  <2>1. Suffix
    BY <1>0, <1>4, TailIsSuffix, ErrorIsSuffix
      DEF RecvEnd, ChecksumMismatch, UnexpectedFrame, CannotWrite, EndInsideFile, Read
  <2>2. Reading(c)
    BY <1>4 DEF RecvEnd, ChecksumMismatch, UnexpectedFrame, CannotWrite, EndInsideFile
  <2>3. PICK t \in Files : t = reader[c]
    BY <2>2 DEF Reading
  <2>4. /\ c = StreamOf(t) /\ Begun(t) /\ t \notin saved \cup failed
        /\ \A k \in Streams : reader[k] = t => k = c
        /\ \A k \in Streams : \A i \in 1..Len(wire'[k]) :
             wire'[k][i].type = "FILE_START" => wire'[k][i].id # t
    BY <1>0, <2>1, <2>2, <2>3, ReadingAlone
  <2>5. pos' = pos /\ pc' = pc /\ t # "idle" /\ t # "closed"
    BY <1>4 DEF RecvEnd, ChecksumMismatch, UnexpectedFrame, CannotWrite, EndInsideFile,
                FailFile, senderVars, Sends
  <2>6. CASE RecvEnd(c)
    <3>1. /\ reader' = [reader EXCEPT ![c] = "idle"]
          /\ saved' = saved \cup {t} /\ failed' = failed
      BY <2>3, <2>6 DEF RecvEnd
    <3>. QED BY <1>0, <2>1, <2>4, <2>5, <3>1, OnceTouch
  <2>7. CASE ~RecvEnd(c)
    <3>1. /\ reader' = [reader EXCEPT ![c] = "closed"]
          /\ saved' = saved /\ failed' = failed \cup {t}
      BY <1>4, <2>3, <2>7
        DEF ChecksumMismatch, UnexpectedFrame, CannotWrite, EndInsideFile, FailFile
    <3>. QED BY <1>0, <2>1, <2>4, <2>5, <3>1, OnceTouch
  <2>. QED BY <2>6, <2>7
<1>. QED BY <1>1, <1>2, <1>3, <1>4 DEF Receiver

LEMMA OnceNext ==
  ASSUME TypeInv, TypeOK', Once, [Next]_vars
  PROVE  Once'
<1>0. TypeOK
  BY DEF TypeInv
<1>1. ASSUME NEW s \in Sends, Sender(s) PROVE Once'
  <2>1. CASE Write(s)
    BY <1>0, <2>1, WriteOnce
  <2>2. CASE ~Write(s)
    <3>1. /\ wire' = wire /\ pos' = pos /\ reader' = reader
          /\ saved' = saved /\ failed' = failed
          /\ \A u \in Sends : pc'[u] = "new" => pc[u] = "new"
      BY <1>0, <1>1, <2>2
        DEF Sender, Open, Refuse, Abort, CloseStream, receiverVars, TypeOK
    <3>. QED BY <1>0, <3>1, SameIsSuffix, OnceQuiet
  <2>. QED BY <2>1, <2>2
<1>2. CASE UNCHANGED vars \/ (\E s \in Files : FileSender(s))
           \/ \E a \in Ack : TakeAck(a) \/ PutAck(a) \/ LoseAck(a)
  <2>1. /\ wire' = wire /\ pos' = pos /\ reader' = reader
        /\ saved' = saved /\ failed' = failed
        /\ \A u \in Sends : pc'[u] = "new" => pc[u] = "new"
    BY <1>0, <1>2 DEF vars, senderVars, receiverVars, FileSender, HearAck, GiveUp,
                      TakeAck, PutAck, LoseAck, TypeOK, Sends
  <2>. QED BY <1>0, <2>1, SameIsSuffix, OnceQuiet
<1>3. ASSUME NEW c \in Streams, LoseFrame(c) PROVE Once'
  <2>1. Suffix
    BY <1>0, <1>3, TailIsSuffix DEF LoseFrame
  <2>. QED BY <1>0, <1>3, <2>1, OnceQuiet DEF LoseFrame, senderVars, receiverVars
<1>4. CASE LinkDown
  <2>1. Suffix
    <3>1. PICK kept \in SUBSET Streams :
            wire' = [c \in Streams |-> IF c \in kept THEN wire[c] ELSE <<>>]
      BY <1>4 DEF LinkDown
    <3>2. ASSUME NEW k \in Streams
          PROVE  \E d \in Nat :
                   /\ Len(wire[k]) = Len(wire'[k]) + d
                   /\ \A i \in 1..Len(wire'[k]) : wire'[k][i] = wire[k][i + d]
      <4>1. wire[k] \in Seq(Frame) /\ Len(wire[k]) \in Nat
        BY <1>0 DEF TypeOK
      <4>2. CASE k \in kept
        BY <3>1, <4>1, <4>2, NoShift
      <4>3. CASE k \notin kept
        <5>1. wire'[k] = <<>>
          BY <3>1, <4>3
        <5>2. /\ Len(wire[k]) = Len(wire'[k]) + Len(wire[k])
              /\ \A i \in 1..Len(wire'[k]) : wire'[k][i] = wire[k][i + Len(wire[k])]
          BY <4>1, <5>1
        <5>. QED BY <4>1, <5>2
      <4>. QED BY <4>2, <4>3
    <3>. QED BY <3>2 DEF Suffix
  <2>. QED BY <1>0, <1>4, <2>1, OnceQuiet DEF LinkDown, senderVars, receiverVars
<1>. QED BY <1>1, <1>2, <1>3, <1>4, OnceReceiver DEF Next

---------------------------------------------------------------------------
(* VerdictBacked: an ack is created together with the verdict it carries,  *)
(* and verdicts are never withdrawn.                                       *)
LEMMA VerdictNext ==
  ASSUME TypeInv, VerdictBacked, [Next]_vars
  PROVE  VerdictBacked'
<1>0. TypeOK /\ Files \subseteq Sends
  BY DEF TypeInv, Sends
<1>1. ASSUME NEW s \in Sends, Sender(s) PROVE VerdictBacked'
  BY <1>0, <1>1 DEF Sender, Open, Refuse, Write, Abort, CloseStream, receiverVars,
                    TypeOK, VerdictBacked
<1>2. ASSUME NEW s \in Files, FileSender(s) PROVE VerdictBacked'
  <2>1. CASE HearAck(s)
    BY <1>0, <2>1 DEF HearAck, receiverVars, TypeOK, VerdictBacked
  <2>2. CASE GiveUp(s)
    BY <1>0, <2>2 DEF GiveUp, receiverVars, TypeOK, VerdictBacked
  <2>. QED BY <1>2, <2>1, <2>2 DEF FileSender
<1>3. ASSUME NEW a \in Ack, TakeAck(a) \/ PutAck(a) \/ LoseAck(a)
      PROVE  VerdictBacked'
  <2>1. CASE TakeAck(a)
    BY <1>0, <2>1 DEF TakeAck, VerdictBacked
  <2>2. CASE PutAck(a)
    <3>1. a.id \in Files /\ (a.ok => a.id \in saved) /\ (~a.ok => a.id \in failed)
      BY <2>2 DEF PutAck, VerdictBacked, Ack
    <3>2. /\ saved' = saved /\ failed' = failed /\ pc' = pc
          /\ ackFlight' = ackFlight /\ taking' \subseteq taking
      BY <2>2 DEF PutAck, receiverVars
    <3>3. \A s \in Files : /\ ackCh'[s] = "ok" => s \in saved
                           /\ ackCh'[s] = "err" => s \in failed
      BY <1>0, <2>2, <3>1 DEF PutAck, TypeOK, VerdictBacked
    <3>. QED BY <3>2, <3>3 DEF VerdictBacked
  <2>3. CASE LoseAck(a)
    BY <2>3 DEF LoseAck, senderVars, VerdictBacked
  <2>. QED BY <1>3, <2>1, <2>2, <2>3
<1>4. ASSUME NEW c \in Streams, Receiver(c) PROVE VerdictBacked'
  <2>1. pc' = pc /\ ackCh' = ackCh /\ taking' = taking
    BY <1>4 DEF Receiver, RecvText, RecvStart, CannotCreate, SkipFrame, RecvChunk, RecvEnd,
                ChecksumMismatch, UnexpectedFrame, CannotWrite, EndInsideFile,
                EndBetweenFrames, Discard, FailFile, senderVars
  <2>2. CASE /\ saved' = saved /\ failed' = failed /\ ackFlight' = ackFlight
    BY <2>1, <2>2 DEF VerdictBacked
  <2>3. CASE RecvEnd(c)
    BY <2>1, <2>3 DEF RecvEnd, VerdictBacked
  <2>4. ASSUME NEW t, FailFile(c, t) PROVE VerdictBacked'
    BY <2>1, <2>4 DEF FailFile, VerdictBacked
  <2>. QED BY <1>4, <2>2, <2>3, <2>4
         DEF Receiver, RecvText, RecvStart, CannotCreate, SkipFrame, RecvChunk,
             ChecksumMismatch, UnexpectedFrame, CannotWrite, EndInsideFile,
             EndBetweenFrames, Discard, receiverVars
<1>5. ASSUME LinkDown \/ (\E c \in Streams : LoseFrame(c)) \/ UNCHANGED vars
      PROVE  VerdictBacked'
  BY <1>5 DEF LinkDown, LoseFrame, vars, senderVars, receiverVars, VerdictBacked
<1>. QED BY <1>1, <1>2, <1>3, <1>4, <1>5 DEF Next

---------------------------------------------------------------------------
(* OneAck: a transfer is decided once, so its Send is answered once.       *)
LEMMA OneAckNext ==
  ASSUME TypeInv, VerdictBacked, Once, OneAck, [Next]_vars
  PROVE  OneAck'
<1>0. TypeOK /\ Files \subseteq Sends
  BY DEF TypeInv, Sends
<1>sender. \A s \in Files : pc[s] = "new" =>
             ackCh[s] = "empty" /\ \A a \in ackFlight \cup taking : a.id # s
  <2> SUFFICES ASSUME NEW s \in Files, pc[s] = "new"
               PROVE  ackCh[s] = "empty" /\ \A a \in ackFlight \cup taking : a.id # s
    OBVIOUS
  <2>1. s \notin saved \cup failed
    BY DEF Once, DecidedOnce
  <2>2. ackCh[s] \in {"empty", "ok", "err"}
    BY <1>0 DEF TypeOK
  <2>. QED BY <2>1, <2>2 DEF VerdictBacked
<1>1. ASSUME NEW s \in Sends, Sender(s) PROVE OneAck'
  <2>1. ackCh' = ackCh /\ taking' = taking /\ ackFlight' = ackFlight
    BY <1>1 DEF Sender, Open, Refuse, Write, Abort, CloseStream, receiverVars
  <2>2. \A u \in Files : u # s => pc'[u] = pc[u] /\ (u \in acks' <=> u \in acks)
    BY <1>0, <1>1 DEF Sender, Open, Refuse, Write, Abort, CloseStream, TypeOK
  <2>3. ASSUME s \in Files
        PROVE  /\ pc'[s] \in {"streaming", "waiting"} =>
                    \/ pc[s] = "new" /\ s \in acks'
                    \/ pc[s] \in {"streaming", "waiting"} /\ (s \in acks' <=> s \in acks)
               /\ pc'[s] \notin {"streaming", "waiting"} => s \notin acks'
    BY <1>0, <1>1, <2>3 DEF Sender, Open, Refuse, Write, Abort, CloseStream, TypeOK, OneAck
  <2>. QED BY <1>sender, <2>1, <2>2, <2>3 DEF OneAck, Registered, Answered
<1>2. ASSUME NEW s \in Files, FileSender(s) PROVE OneAck'
  <2>1. CASE HearAck(s)
    BY <1>0, <2>1 DEF HearAck, receiverVars, TypeOK, OneAck, Registered, Answered
  <2>2. CASE GiveUp(s)
    BY <1>0, <2>2 DEF GiveUp, receiverVars, TypeOK, OneAck, Registered, Answered
  <2>. QED BY <1>2, <2>1, <2>2 DEF FileSender
<1>3. ASSUME NEW a \in Ack, TakeAck(a) PROVE OneAck'
  <2>1. a.id \in Files /\ ackFlight \subseteq Ack /\ taking \subseteq Ack
    BY <1>0 DEF Ack, TypeOK
  <2>2. \A b \in ackFlight : b.id = a.id => b = a
    <3> SUFFICES ASSUME NEW b \in ackFlight, b.id = a.id PROVE b = a
      OBVIOUS
    <3>1. b.ok = a.ok
      BY <1>3, <2>1 DEF TakeAck, VerdictBacked, Once, DecidedOnce, Ack
    <3>. QED BY <2>1, <3>1 DEF Ack
  <2>3. /\ pc' = pc /\ ackCh' = ackCh
        /\ ackFlight' = ackFlight \ {a} /\ acks' = acks \ {a.id}
        /\ taking' = IF a.id \in acks THEN taking \cup {a} ELSE taking
    BY <1>3 DEF TakeAck
  <2>4. ASSUME NEW s \in Files, s # a.id
        PROVE  /\ Registered(s) => Registered(s)'
               /\ Answered(s) => Answered(s)'
               /\ s \in acks' <=> s \in acks
    BY <2>3, <2>4 DEF Registered, Answered
  <2>5. Registered(a.id) => Answered(a.id)'
    BY <2>2, <2>3 DEF Registered, Answered
  <2>6. Answered(a.id) => Answered(a.id)'
    BY <2>3 DEF Answered
  <2>. QED BY <2>1, <2>3, <2>4, <2>5, <2>6 DEF OneAck
<1>4. ASSUME NEW a \in Ack, PutAck(a) PROVE OneAck'
  <2>1. a.id \in Files
    BY DEF Ack
  <2>2. /\ pc' = pc /\ acks' = acks /\ ackFlight' = ackFlight /\ a \in taking
        /\ taking' = taking \ {a}
        /\ \A s \in Files : s # a.id => ackCh'[s] = ackCh[s]
        /\ ackCh'[a.id] # "empty"
    BY <1>0, <1>4, <2>1 DEF PutAck, receiverVars, TypeOK
  <2>3. ASSUME NEW s \in Files
        PROVE  (Registered(s) => Registered(s)') /\ (Answered(s) => Answered(s)')
    BY <2>2 DEF Registered, Answered
  <2>. QED BY <2>2, <2>3 DEF OneAck
<1>5. ASSUME NEW a \in Ack, LoseAck(a) PROVE OneAck'
  BY <1>5 DEF LoseAck, senderVars, OneAck, Registered, Answered
<1>6. ASSUME NEW c \in Streams, Receiver(c) PROVE OneAck'
  <2>1. pc' = pc /\ ackCh' = ackCh /\ taking' = taking /\ acks' = acks
    BY <1>6 DEF Receiver, RecvText, RecvStart, CannotCreate, SkipFrame, RecvChunk, RecvEnd,
                ChecksumMismatch, UnexpectedFrame, CannotWrite, EndInsideFile,
                EndBetweenFrames, Discard, FailFile, senderVars
  <2>2. \A b \in ackFlight' \ ackFlight : b.id \notin saved \cup failed
    <3>1. CASE ackFlight' = ackFlight
      BY <3>1
    <3>2. CASE RecvEnd(c)
      BY <3>2 DEF RecvEnd, Reading, Once, ReadOnce
    <3>3. ASSUME NEW t, FailFile(c, t), t \notin saved \cup failed
          PROVE  \A b \in ackFlight' \ ackFlight : b.id \notin saved \cup failed
      BY <3>3 DEF FailFile
    <3>4. CASE CannotCreate(c)
      <4>1. Head(wire[c]) = wire[c][1] /\ 1 \in 1..Len(wire[c])
        BY <1>0, <3>4 DEF CannotCreate, Read, TypeOK
      <4>2. Head(wire[c]).id \notin saved \cup failed
        BY <3>4, <4>1 DEF CannotCreate, Read, Once, QueuedOnce, StartAt, Untouched
      <4>. QED BY <3>3, <3>4, <4>2 DEF CannotCreate
    <3>5. CASE \/ ChecksumMismatch(c) \/ UnexpectedFrame(c)
               \/ CannotWrite(c) \/ EndInsideFile(c)
      BY <3>3, <3>5 DEF ChecksumMismatch, UnexpectedFrame, CannotWrite, EndInsideFile,
                        Reading, Once, ReadOnce
    <3>. QED BY <1>6, <3>1, <3>2, <3>4, <3>5
           DEF Receiver, RecvText, RecvStart, SkipFrame, RecvChunk,
               EndBetweenFrames, Discard, receiverVars
  <2>3. ASSUME NEW s \in Files, Answered(s) PROVE s \in saved \cup failed
    <3>1. ackCh[s] \in {"empty", "ok", "err"}
      BY <1>0 DEF TypeOK
    <3>. QED BY <2>3, <3>1 DEF Answered, VerdictBacked
  <2>4. ASSUME NEW s \in Files
        PROVE  (Registered(s) => Registered(s)') /\ (Answered(s) => Answered(s)')
    BY <2>1, <2>2, <2>3 DEF Registered, Answered
  <2>. QED BY <2>1, <2>4 DEF OneAck
<1>7. ASSUME LinkDown \/ (\E c \in Streams : LoseFrame(c)) \/ UNCHANGED vars
      PROVE  OneAck'
  BY <1>7 DEF LinkDown, LoseFrame, vars, senderVars, receiverVars, OneAck, Registered, Answered
<1>. QED BY <1>1, <1>2, <1>3, <1>4, <1>5, <1>6, <1>7 DEF Next

---------------------------------------------------------------------------
LEMMA NextIInv == IInv /\ [Next]_vars => IInv'
<1> SUFFICES ASSUME IInv, [Next]_vars PROVE IInv'
  OBVIOUS
<1>1. TypeInv' /\ TypeOK'
  BY NextType DEF IInv, TypeInv
<1>. QED BY <1>1, OnceNext, VerdictNext, OneAckNext DEF IInv

LEMMA Invariance == Spec => []IInv
  BY InitIInv, NextIInv, PTL DEF Spec

(* A Send reports success only for a transfer its receiver reported saved: *)
(* EventFileDone reflects the receiver, on every transport, whatever is    *)
(* lost, for any number of concurrent transfers.                           *)
THEOREM DoneReflectsReceiver == Spec => []DoneOnlyIfSaved
<1>1. IInv => DoneOnlyIfSaved
  BY DEF IInv, VerdictBacked, DoneOnlyIfSaved
<1>. QED BY <1>1, Invariance, PTL

(* The receiver never decides a transfer twice.                            *)
THEOREM ReceiverDecidesOnce == Spec => []OneVerdict
<1>1. IInv => OneVerdict
  BY DEF IInv, TypeInv, TypeOK, Once, DecidedOnce, ReadOnce, Reading, OneVerdict, Sends
<1>. QED BY <1>1, Invariance, PTL

(* The ack bookkeeping of Service.acks neither loses nor leaks a channel.  *)
THEOREM AckBookkeeping == Spec => []AckSlotOwned
<1>1. IInv => AckSlotOwned
  BY DEF IInv, OneAck, Registered, Answered, AckSlotOwned, Returned
<1>. QED BY <1>1, Invariance, PTL

(* deliverAck discards an ack only after its Send has returned.            *)
THEOREM AcksArriveInTime == Spec => []AckInTime
<1>1. IInv => AckInTime
  <2> SUFFICES ASSUME IInv, NEW a \in ackFlight, pc[a.id] \in {"streaming", "waiting"}
               PROVE  a.id \in acks
    BY DEF AckInTime
  <2>1. a.id \in Files
    BY DEF IInv, TypeInv, TypeOK, Ack
  <2>. QED BY <2>1 DEF IInv, OneAck, Registered, Answered
<1>. QED BY <1>1, Invariance, PTL

---------------------------------------------------------------------------
(* What a whole file is. On a backend that loses no frame the frames of a  *)
(* transfer follow one another on their stream, whichever other transfers  *)
(* share it: every frame but a first one comes right after the frame       *)
(* before it, which may already have been read, and then by a ReadFile of  *)
(* the same transfer or by none.                                           *)
Prev(c, i, s, n) ==
  IF i > 1 THEN wire[c][i - 1] = NthFrame(s, n) ELSE Reading(c) => reader[c] = s

Ordered ==
  \A c \in Streams : \A i \in 1..Len(wire[c]) :
    \E s \in Sends : \E n \in 1..FrameCount(s) :
      wire[c][i] = NthFrame(s, n) /\ (n > 1 => Prev(c, i, s, n - 1))

(* The frame a Send writes next continues what it wrote last.              *)
Continued ==
  \A s \in Sends : pc[s] = "streaming" /\ link /\ pos[s] > 0 =>
    \A i \in Nat : i = Len(wire[StreamOf(s)]) + 1 =>
      Prev(StreamOf(s), i, s, pos[s])

Placed ==
  \A s \in Sends : pos[s] \in 0..FrameCount(s) /\ (pc[s] = "new" => pos[s] = 0)

OneWriter ==
  Shared => \A s, t \in Sends : pc[s] = "streaming" /\ pc[t] = "streaming" => s = t

LineInv == Ordered /\ Continued /\ Placed /\ OneWriter

(* While a file is received its path holds exactly what was hashed.        *)
OnDisk == \A c \in Streams : Reading(c) => linked[c] /\ disk[PathOf(c)] = got[c]

OnePathEach == \A s, t \in Files : Name[s] = Name[t] => s = t

LEMMA FrameFields ==
  ASSUME NEW s \in Sends, NEW n \in 1..FrameCount(s)
  PROVE  /\ n > 1 => s \in Files
         /\ NthFrame(s, n).type = "TEXT" => s \in Texts
         /\ NthFrame(s, n).type = "FILE_START" => s \in Files /\ n = 1 /\ NthFrame(s, n).id = s
         /\ NthFrame(s, n).type = "FILE_CHUNK" => n > 1 /\ NthFrame(s, n).data = <<s, n - 1>>
         /\ NthFrame(s, n).type = "FILE_END" => n > 1 /\ NthFrame(s, n).sum = Content(s)
<1>1. CASE s \in Texts
  <2>1. s \notin Files
    BY <1>1
  <2>2. FrameCount(s) = 1
    BY <2>1 DEF FrameCount
  <2>3. NthFrame(s, n) = Text(s)
    BY <1>1 DEF NthFrame
  <2>. QED BY <1>1, <2>2, <2>3 DEF Text
<1>2. CASE s \in Files
  <2>1. s \notin Texts
    BY <1>2
  <2>2. Chunks[s] \in Nat /\ FrameCount(s) = Chunks[s] + 2
    BY <1>2 DEF FrameCount
  <2>3. CASE n = 1
    BY <1>2, <2>1, <2>3 DEF NthFrame, Start
  <2>4. CASE n # 1 /\ n = FrameCount(s)
    <3>1. NthFrame(s, n) = End(s)
      BY <2>1, <2>4 DEF NthFrame
    <3>. QED BY <1>2, <2>2, <2>4, <3>1 DEF End
  <2>5. CASE n # 1 /\ n # FrameCount(s)
    <3>1. NthFrame(s, n) = Chunk(s, n - 1)
      BY <2>1, <2>5 DEF NthFrame
    <3>. QED BY <1>2, <2>2, <2>5, <3>1 DEF Chunk
  <2>. QED BY <2>3, <2>4, <2>5
<1>. QED BY <1>1, <1>2 DEF Sends

(* The chunk or the end at the head of a stream belongs to the transfer    *)
(* the stream's ReadFile is in.                                            *)
LEMMA HeadBelongs ==
  ASSUME TypeOK, Ordered, NEW c \in Streams, wire[c] # <<>>, Reading(c)
  PROVE  /\ Head(wire[c]).type = "FILE_CHUNK" =>
              Head(wire[c]).data[1] = reader[c]
         /\ Head(wire[c]).type = "FILE_END" =>
              Head(wire[c]).sum = Content(reader[c])
<1>1. Head(wire[c]) = wire[c][1] /\ 1 \in 1..Len(wire[c])
  BY DEF TypeOK
<1>2. PICK s \in Sends : \E n \in 1..FrameCount(s) :
        wire[c][1] = NthFrame(s, n) /\ (n > 1 => Prev(c, 1, s, n - 1))
  BY <1>1 DEF Ordered
<1>3. PICK n \in 1..FrameCount(s) :
        wire[c][1] = NthFrame(s, n) /\ (n > 1 => Prev(c, 1, s, n - 1))
  BY <1>2
<1>4. n > 1 => reader[c] = s
  BY <1>3 DEF Prev
<1>. QED BY <1>1, <1>3, <1>4, FrameFields

(* Whoever reads the head frame of a stream is then in the transfer of     *)
(* that frame, or in none.                                                 *)
LEMMA HeadFollowed ==
  ASSUME TypeOK, Ordered, Transport # "ble", NEW c \in Streams, Receiver(c),
         wire[c] # <<>>, NEW s \in Sends, NEW n \in 1..FrameCount(s),
         wire[c][1] = NthFrame(s, n), reader'[c] \in Files
  PROVE  reader'[c] = s
<1>1. Head(wire[c]) = NthFrame(s, n)
  BY DEF TypeOK
<1>2. "idle" \notin Files /\ "closed" \notin Files
  BY DEF Sends
<1>3. CASE RecvStart(c)
  <2>1. reader'[c] = Head(wire[c]).id /\ Head(wire[c]).type = "FILE_START"
    BY <1>3 DEF RecvStart, Read, TypeOK
  <2>. QED BY <1>1, <2>1, FrameFields
<1>4. CASE RecvChunk(c)
  <2>1. reader'[c] = reader[c] /\ Reading(c) /\ Head(wire[c]).type = "FILE_CHUNK"
    BY <1>4 DEF RecvChunk, Read
  <2>2. Head(wire[c]).data[1] = reader[c]
    BY <2>1, HeadBelongs
  <2>3. Head(wire[c]).data = <<s, n - 1>>
    BY <1>1, <2>1, FrameFields
  <2>. QED BY <2>1, <2>2, <2>3
<1>5. CASE RecvText(c) \/ SkipFrame(c) \/ Discard(c)
  BY <1>2, <1>5 DEF RecvText, SkipFrame, Discard, receiverVars
<1>6. CASE RecvEnd(c) \/ EndBetweenFrames(c)
  BY <1>2, <1>6 DEF RecvEnd, EndBetweenFrames, TypeOK
<1>7. CASE \/ CannotCreate(c) \/ ChecksumMismatch(c) \/ UnexpectedFrame(c)
           \/ CannotWrite(c) \/ EndInsideFile(c)
  BY <1>2, <1>7
    DEF CannotCreate, ChecksumMismatch, UnexpectedFrame, CannotWrite, EndInsideFile,
        FailFile, TypeOK
<1>. QED BY <1>3, <1>4, <1>5, <1>6, <1>7 DEF Receiver

(* A step that writes and reads no frame.                                  *)
LEMMA LineQuiet ==
  ASSUME LineInv, wire' = wire, pos' = pos,
         \A k \in Streams : reader'[k] = reader[k],
         link' => link,
         \A s \in Sends :
           /\ pc'[s] = "new" => pc[s] = "new"
           /\ pc'[s] = "streaming" => pc[s] = "streaming" \/ pos[s] = 0,
         OneWriter'
  PROVE  LineInv'
<1>1. \A c \in Streams : \A i, s, n : Prev(c, i, s, n) => Prev(c, i, s, n)'
  BY DEF Prev, Reading
<1>2. Ordered'
  BY <1>1 DEF LineInv, Ordered
<1>3. Continued'
  <2>1. \A s \in Sends : StreamOf(s) \in Streams
    BY DEF Streams
  <2>. QED BY <1>1, <2>1 DEF LineInv, Continued
<1>4. Placed'
  BY DEF LineInv, Placed
<1>. QED BY <1>2, <1>3, <1>4 DEF LineInv

LEMMA LineWrite ==
  ASSUME TypeOK, LineInv, NEW s \in Sends, Write(s)
  PROVE  LineInv'
<1> DEFINE n == pos[s] + 1
           c == StreamOf(s)
<1>0. /\ pos[s] \in Nat
      /\ n \in 1..FrameCount(s)
      /\ c \in Streams
      /\ NthFrame(s, n) \in Frame
      /\ pos' = [pos EXCEPT ![s] = n]
      /\ wire' = [wire EXCEPT ![c] = Append(wire[c], NthFrame(s, n))]
      /\ pc' = pc /\ link' = link /\ reader' = reader /\ pc[s] = "streaming" /\ link
  <2>1. pos[s] \in Nat /\ n \in 1..FrameCount(s)
    BY DEF Write, TypeOK, FrameCount, Sends
  <2>. QED BY <2>1, FrameType DEF Write, Streams, receiverVars
<1>1. \A k \in Streams : wire[k] \in Seq(Frame) /\ Len(wire[k]) \in Nat
  BY DEF TypeOK
<1>2. \A k \in Streams : k # c => wire'[k] = wire[k]
  BY <1>0 DEF TypeOK
<1>3. /\ Len(wire'[c]) = Len(wire[c]) + 1
      /\ wire'[c][Len(wire[c]) + 1] = NthFrame(s, n)
      /\ \A j \in 1..Len(wire[c]) : wire'[c][j] = wire[c][j]
  BY <1>0, <1>1, AppendProperties DEF TypeOK
<1>4. ASSUME NEW k \in Streams, NEW i \in 1..(Len(wire[k]) + 1), NEW u, NEW m,
             Prev(k, i, u, m)
      PROVE  Prev(k, i, u, m)'
  <2>1. CASE i = 1
    BY <1>0, <1>4, <2>1 DEF Prev, Reading
  <2>2. CASE i > 1
    <3>1. i - 1 \in 1..Len(wire[k])
      BY <1>1, <2>2
    <3>2. wire'[k][i - 1] = wire[k][i - 1]
      BY <1>2, <1>3, <3>1
    <3>. QED BY <1>4, <2>2, <3>2 DEF Prev
  <2>. QED BY <1>1, <2>1, <2>2
<1>5. Ordered'
  <2> SUFFICES ASSUME NEW k \in Streams, NEW i \in 1..Len(wire'[k])
               PROVE  \E u \in Sends : \E m \in 1..FrameCount(u) :
                        wire'[k][i] = NthFrame(u, m) /\ (m > 1 => Prev(k, i, u, m - 1)')
    BY DEF Ordered
  <2>1. CASE i \in 1..Len(wire[k])
    <3>1. PICK u \in Sends : \E m \in 1..FrameCount(u) :
            wire[k][i] = NthFrame(u, m) /\ (m > 1 => Prev(k, i, u, m - 1))
      BY <2>1 DEF LineInv, Ordered
    <3>2. wire'[k][i] = wire[k][i] /\ i \in 1..(Len(wire[k]) + 1)
      BY <1>1, <1>2, <1>3, <2>1
    <3>. QED BY <1>4, <3>1, <3>2
  <2>2. CASE i \notin 1..Len(wire[k])
    <3>1. k = c /\ i = Len(wire[c]) + 1
      BY <1>1, <1>2, <1>3, <2>2
    <3>2. PICK m \in 1..FrameCount(s) : m = n
      BY <1>0
    <3>3. m > 1 => Prev(c, i, s, m - 1)
      BY <1>0, <1>1, <3>1, <3>2 DEF LineInv, Continued
    <3>4. i \in 1..(Len(wire[k]) + 1)
      BY <1>1, <3>1
    <3>5. m > 1 => Prev(k, i, s, m - 1)'
      BY <1>4, <3>1, <3>3, <3>4
    <3>. QED BY <1>0, <1>3, <3>1, <3>2, <3>5
  <2>. QED BY <2>1, <2>2
<1>6. Continued'
  <2> SUFFICES ASSUME NEW u \in Sends, pc[u] = "streaming", pos'[u] > 0,
                      NEW i \in Nat, i = Len(wire'[StreamOf(u)]) + 1
               PROVE  \E m : m = pos'[u] /\ Prev(StreamOf(u), i, u, m)'
    BY <1>0 DEF Continued
  <2>0. StreamOf(u) \in Streams
    BY DEF Streams
  <2>1. CASE u = s
    <3>1. pos'[u] = n /\ i = Len(wire[c]) + 2
      BY <1>0, <1>1, <1>3, <2>1 DEF TypeOK
    <3>2. i > 1 /\ i - 1 = Len(wire[c]) + 1
      BY <1>0, <1>1, <3>1
    <3>. QED BY <1>3, <2>1, <3>1, <3>2 DEF Prev
  <2>2. CASE u # s
    <3>1. StreamOf(u) # c
      BY <1>0, <2>2 DEF LineInv, OneWriter, StreamOf
    <3>2. wire'[StreamOf(u)] = wire[StreamOf(u)] /\ pos'[u] = pos[u]
      BY <1>0, <1>2, <2>0, <2>2, <3>1 DEF TypeOK
    <3>3. Prev(StreamOf(u), i, u, pos[u])
      BY <1>0, <3>2 DEF LineInv, Continued
    <3>4. i \in 1..(Len(wire[StreamOf(u)]) + 1)
      BY <1>1, <2>0, <3>2
    <3>. QED BY <1>4, <2>0, <3>2, <3>3, <3>4
  <2>. QED BY <2>1, <2>2
<1>7. Placed' /\ OneWriter'
  BY <1>0 DEF LineInv, Placed, OneWriter, TypeOK
<1>. QED BY <1>5, <1>6, <1>7 DEF LineInv

(* A receiver step reads the head of its stream, or ends its reader.       *)
LEMMA ReceiverStep ==
  ASSUME TypeOK, Transport # "ble", NEW c \in Streams, Receiver(c)
  PROVE  /\ pc' = pc /\ pos' = pos /\ link' = link
         /\ \A k \in Streams : k # c => reader'[k] = reader[k]
         /\ \/ wire[c] # <<>> /\ wire' = [wire EXCEPT ![c] = Tail(@)]
            \/ wire' = wire /\ reader'[c] \notin Files
<1>1. pc' = pc /\ pos' = pos /\ link' = link
  BY DEF Receiver, RecvText, RecvStart, CannotCreate, SkipFrame, RecvChunk, RecvEnd,
         ChecksumMismatch, UnexpectedFrame, CannotWrite, EndInsideFile,
         EndBetweenFrames, Discard, FailFile, senderVars
<1>2. \A k \in Streams : k # c => reader'[k] = reader[k]
  BY DEF Receiver, RecvText, RecvStart, CannotCreate, SkipFrame, RecvChunk, RecvEnd,
         ChecksumMismatch, UnexpectedFrame, CannotWrite, EndInsideFile,
         EndBetweenFrames, Discard, FailFile, receiverVars, TypeOK
<1>3. CASE EndInsideFile(c) \/ EndBetweenFrames(c)
  <2>1. wire' = wire
    BY <1>3 DEF EndInsideFile, EndBetweenFrames, ReadError
  <2>2. reader'[c] = "closed"
    BY <1>3 DEF EndInsideFile, EndBetweenFrames, FailFile, TypeOK
  <2>. QED BY <1>1, <1>2, <2>1, <2>2 DEF Sends
<1>4. CASE ~(EndInsideFile(c) \/ EndBetweenFrames(c))
  <2>1. wire[c] # <<>> /\ wire' = [wire EXCEPT ![c] = Tail(@)]
    BY <1>4 DEF Receiver, RecvText, RecvStart, CannotCreate, SkipFrame, RecvChunk, RecvEnd,
                ChecksumMismatch, UnexpectedFrame, CannotWrite, Discard, Read
  <2>. QED BY <1>1, <1>2, <2>1
<1>. QED BY <1>3, <1>4

LEMMA LineReceiver ==
  ASSUME TypeOK, LineInv, Transport # "ble", NEW c \in Streams, Receiver(c)
  PROVE  LineInv'
<1>0. /\ pc' = pc /\ pos' = pos /\ link' = link
      /\ \A k \in Streams : k # c => reader'[k] = reader[k]
  BY ReceiverStep
<1>1. Placed' /\ OneWriter'
  BY <1>0 DEF LineInv, Placed, OneWriter
<1>2. CASE wire' = wire /\ reader'[c] \notin Files
  <2>1. \A k \in Streams : \A i, s, n : Prev(k, i, s, n) => Prev(k, i, s, n)'
    BY <1>0, <1>2 DEF Prev, Reading
  <2>2. Ordered'
    BY <1>2, <2>1 DEF LineInv, Ordered
  <2>3. \A s \in Sends : StreamOf(s) \in Streams
    BY DEF Streams
  <2>4. Continued'
    BY <1>0, <1>2, <2>1, <2>3 DEF LineInv, Continued
  <2>. QED BY <1>1, <2>2, <2>4 DEF LineInv
<1>3. CASE wire[c] # <<>> /\ wire' = [wire EXCEPT ![c] = Tail(@)]
  <2>0. \A k \in Streams : wire[k] \in Seq(Frame) /\ Len(wire[k]) \in Nat
    BY DEF TypeOK
  <2>1. /\ wire'[c] = Tail(wire[c])
        /\ \A k \in Streams : k # c => wire'[k] = wire[k]
    BY <1>3 DEF TypeOK
  <2>2. /\ Len(wire[c]) = Len(wire'[c]) + 1 /\ Len(wire'[c]) \in Nat
        /\ \A i \in 1..Len(wire'[c]) : wire'[c][i] = wire[c][i + 1]
    <3>1. wire[c] \in Seq(Frame) /\ wire[c] # <<>>
      BY <1>3, <2>0
    <3>2. /\ Len(wire[c]) = Len(Tail(wire[c])) + 1
          /\ \A i \in 1..Len(Tail(wire[c])) : Tail(wire[c])[i] = wire[c][i + 1]
      BY <3>1, TailShift
    <3>3. Len(Tail(wire[c])) \in Nat
      BY <3>1
    <3>. QED BY <2>1, <3>2, <3>3
  <2>3. \A k \in Streams : k # c => \A i, s, n : Prev(k, i, s, n) => Prev(k, i, s, n)'
    BY <1>0, <2>1 DEF Prev, Reading
  <2>4. ASSUME NEW i \in 1..(Len(wire'[c]) + 1), NEW s \in Sends,
               NEW n \in 1..FrameCount(s), Prev(c, i + 1, s, n)
        PROVE  Prev(c, i, s, n)'
    <3>1. CASE i > 1
      <4>1. i - 1 \in 1..Len(wire'[c]) /\ (i - 1) + 1 = i /\ (i + 1) - 1 = i /\ i + 1 > 1
        BY <2>2, <3>1
      <4>2. wire'[c][i - 1] = wire[c][i]
        BY <2>2, <4>1
      <4>. QED BY <2>4, <3>1, <4>1, <4>2 DEF Prev
    <3>2. CASE i = 1
      <4>1. (i + 1) - 1 = 1 /\ i + 1 > 1
        BY <3>2
      <4>2. wire[c][1] = NthFrame(s, n)
        BY <2>4, <4>1 DEF Prev
      <4>3. reader'[c] \in Files => reader'[c] = s
        BY <1>3, <4>2, HeadFollowed DEF LineInv
      <4>. QED BY <3>2, <4>3 DEF Prev, Reading
    <3>. QED BY <2>2, <3>1, <3>2
  <2>5. Ordered'
    <3> SUFFICES ASSUME NEW k \in Streams, NEW i \in 1..Len(wire'[k])
                 PROVE  \E s \in Sends : \E n \in 1..FrameCount(s) :
                          wire'[k][i] = NthFrame(s, n) /\ (n > 1 => Prev(k, i, s, n - 1)')
      BY DEF Ordered
    <3>1. CASE k # c
      <4>1. PICK s \in Sends : \E n \in 1..FrameCount(s) :
              wire[k][i] = NthFrame(s, n) /\ (n > 1 => Prev(k, i, s, n - 1))
        BY <2>1, <3>1 DEF LineInv, Ordered
      <4>. QED BY <2>1, <2>3, <3>1, <4>1
    <3>2. CASE k = c
      <4>1. i + 1 \in 1..Len(wire[c]) /\ wire'[c][i] = wire[c][i + 1]
            /\ i \in 1..(Len(wire'[c]) + 1)
        BY <2>0, <2>2, <3>2
      <4>2. PICK s \in Sends : \E n \in 1..FrameCount(s) :
              wire[c][i + 1] = NthFrame(s, n) /\ (n > 1 => Prev(c, i + 1, s, n - 1))
        BY <4>1 DEF LineInv, Ordered
      <4>3. PICK n \in 1..FrameCount(s) :
              wire[c][i + 1] = NthFrame(s, n) /\ (n > 1 => Prev(c, i + 1, s, n - 1))
        BY <4>2
      <4>4. FrameCount(s) \in Nat
        BY DEF FrameCount, Sends
      <4>5. n > 1 => n - 1 \in 1..FrameCount(s)
        BY <4>4
      <4>6. n > 1 => Prev(c, i, s, n - 1)'
        BY <2>4, <4>1, <4>3, <4>5
      <4>. QED BY <3>2, <4>1, <4>3, <4>6
    <3>. QED BY <3>1, <3>2
  <2>6. Continued'
    <3> SUFFICES ASSUME NEW s \in Sends, pc[s] = "streaming", link, pos[s] > 0,
                        NEW i \in Nat, i = Len(wire'[StreamOf(s)]) + 1,
                        NEW n, n = pos[s]
                 PROVE  Prev(StreamOf(s), i, s, n)'
      BY <1>0 DEF Continued
    <3>0. StreamOf(s) \in Streams
      BY DEF Streams
    <3>1. CASE StreamOf(s) # c
      <4>1. Prev(StreamOf(s), i, s, n)
        BY <2>1, <3>0, <3>1 DEF LineInv, Continued
      <4>. QED BY <2>3, <3>0, <3>1, <4>1
    <3>2. CASE StreamOf(s) = c
      <4>1. i + 1 = Len(wire[c]) + 1 /\ i \in 1..(Len(wire'[c]) + 1)
        BY <2>2, <3>2
      <4>2. Prev(c, i + 1, s, n)
        BY <3>2, <4>1 DEF LineInv, Continued
      <4>3. n \in 1..FrameCount(s)
        BY DEF LineInv, Placed
      <4>. QED BY <2>4, <3>2, <4>1, <4>2, <4>3
    <3>. QED BY <3>1, <3>2
  <2>. QED BY <1>1, <2>5, <2>6 DEF LineInv
<1>. QED BY <1>2, <1>3, ReceiverStep

LEMMA LineLinkDown ==
  ASSUME TypeOK, LineInv, LinkDown
  PROVE  LineInv'
<1>1. PICK kept \in SUBSET Streams :
        wire' = [c \in Streams |-> IF c \in kept THEN wire[c] ELSE <<>>]
  BY DEF LinkDown
<1>2. reader' = reader /\ pc' = pc /\ pos' = pos /\ link' = FALSE
  BY DEF LinkDown, senderVars, receiverVars
<1>3. Ordered'
  <2> SUFFICES ASSUME NEW k \in Streams, NEW i \in 1..Len(wire'[k])
               PROVE  \E s \in Sends : \E n \in 1..FrameCount(s) :
                        wire'[k][i] = NthFrame(s, n) /\ (n > 1 => Prev(k, i, s, n - 1)')
    BY DEF Ordered
  <2>1. wire'[k] = wire[k]
    BY <1>1
  <2>2. \A s, n : Prev(k, i, s, n) => Prev(k, i, s, n)'
    BY <1>2, <2>1 DEF Prev, Reading
  <2>3. PICK s \in Sends : \E n \in 1..FrameCount(s) :
          wire[k][i] = NthFrame(s, n) /\ (n > 1 => Prev(k, i, s, n - 1))
    BY <2>1 DEF LineInv, Ordered
  <2>. QED BY <2>1, <2>2, <2>3
<1>4. Continued' /\ Placed' /\ OneWriter'
  BY <1>2 DEF LineInv, Continued, Placed, OneWriter
<1>. QED BY <1>3, <1>4 DEF LineInv

LEMMA LineNext ==
  ASSUME TypeOK, LineInv, Transport # "ble", [Next]_vars
  PROVE  LineInv'
<1>0. Files \subseteq Sends
  BY DEF Sends
<1>1. ASSUME NEW s \in Sends, Sender(s), ~Write(s) PROVE LineInv'
  <2>1. /\ wire' = wire /\ pos' = pos /\ reader' = reader /\ link' = link
        /\ \A u \in Sends : u # s => pc'[u] = pc[u]
    BY <1>1 DEF Sender, Open, Refuse, Abort, CloseStream, receiverVars, TypeOK
  <2>2. \/ pc'[s] \notin {"new", "streaming"}
        \/ pc'[s] = "streaming" /\ pc[s] = "new" /\ WriterFree
    BY <1>1 DEF Sender, Open, Refuse, Abort, CloseStream, TypeOK
  <2>3. \A u \in Sends :
          /\ pc'[u] = "new" => pc[u] = "new"
          /\ pc'[u] = "streaming" => pc[u] = "streaming" \/ pos[u] = 0
    BY <2>1, <2>2 DEF LineInv, Placed
  <2>4. OneWriter'
    BY <2>1, <2>2 DEF LineInv, OneWriter, WriterFree
  <2>. QED BY <2>1, <2>3, <2>4, LineQuiet
<1>2. CASE UNCHANGED vars \/ (\E s \in Files : FileSender(s))
           \/ \E a \in Ack : TakeAck(a) \/ PutAck(a) \/ LoseAck(a)
  <2>1. /\ wire' = wire /\ pos' = pos /\ reader' = reader /\ link' = link
        /\ \A u \in Sends : pc'[u] = pc[u] \/ pc'[u] \notin {"new", "streaming"}
    BY <1>0, <1>2 DEF vars, senderVars, receiverVars, FileSender, HearAck, GiveUp,
                      TakeAck, PutAck, LoseAck, TypeOK
  <2>2. OneWriter'
    BY <2>1 DEF LineInv, OneWriter
  <2>. QED BY <2>1, <2>2, LineQuiet
<1>3. ASSUME NEW c \in Streams, LoseFrame(c) PROVE FALSE
  BY <1>3 DEF LoseFrame
<1>. QED BY <1>1, <1>2, <1>3, LineWrite, LineReceiver, LineLinkDown DEF Next

(* OnDisk: with a path of its own each transfer finds there, chunk by      *)
(* chunk, what its own ReadFile wrote.                                     *)
LEMMA WriteAtEnd ==
  ASSUME NEW S, NEW d \in Seq(S), NEW x \in S
  PROVE  WriteAt(d, Len(d), x) = Append(d, x)
<1>1. Len(d) \in Nat /\ ~(Len(d) > Len(d))
  OBVIOUS
<1>2. \A i \in 1..(Len(d) + 1) :
        /\ Append(d, x)[i] = IF i = Len(d) + 1 THEN x ELSE d[i]
        /\ i # Len(d) + 1 => i <= Len(d)
  BY <1>1
<1>3. WriteAt(d, Len(d), x) =
        [i \in 1..(Len(d) + 1) |->
           IF i = Len(d) + 1 THEN x ELSE IF i <= Len(d) THEN d[i] ELSE Hole]
  BY <1>1, Zenon DEF WriteAt
<1>4. /\ WriteAt(d, Len(d), x) \in Seq(S)
      /\ Len(WriteAt(d, Len(d), x)) = Len(d) + 1
      /\ \A i \in 1..(Len(d) + 1) : WriteAt(d, Len(d), x)[i] = Append(d, x)[i]
  BY <1>1, <1>2, <1>3
<1>5. Append(d, x) \in Seq(S) /\ Len(Append(d, x)) = Len(d) + 1
  BY AppendProperties
<1>. QED BY <1>4, <1>5, SeqEqual

LEMMA OnDiskReceiver ==
  ASSUME TypeInv, Once, OnDisk, OnePathEach, NEW c \in Streams, Receiver(c)
  PROVE  OnDisk'
<1>0. TypeOK /\ "idle" \notin Files /\ "closed" \notin Files
  BY DEF TypeInv, Sends
(* The path of the transfer this stream receives is no other stream's.     *)
<1>1. ASSUME NEW k \in Streams, k # c, Reading(k), Reading(c)
      PROVE  PathOf(k) # PathOf(c)
  BY <1>1 DEF Once, ReadOnce, Reading, PathOf, OnePathEach, StreamOf
<1>2. CASE RecvText(c) \/ SkipFrame(c) \/ Discard(c)
  BY <1>2 DEF RecvText, SkipFrame, Discard, receiverVars, fileVars, OnDisk, Reading, PathOf
<1>3. CASE RecvStart(c)
  <2> DEFINE t == Head(wire[c]).id
  <2>1. /\ t \in Files /\ Name[t] \in Paths
        /\ \A k \in Streams : reader[k] # t
    <3>1. t \in Files
      BY <1>0, <1>3, HeadType DEF RecvStart, Read
    <3>2. wire[c][1] = Head(wire[c]) /\ 1 \in 1..Len(wire[c])
      BY <1>0, <1>3 DEF RecvStart, Read, TypeOK
    <3>. QED BY <1>3, <3>1, <3>2 DEF RecvStart, Read, Once, QueuedOnce, StartAt, Untouched
  <2>2. /\ reader' = [reader EXCEPT ![c] = t]
        /\ got' = [got EXCEPT ![c] = <<>>]
        /\ linked' = [linked EXCEPT ![c] = TRUE]
        /\ disk' = [disk EXCEPT ![Name[t]] = <<>>]
    BY <1>3 DEF RecvStart
  <2> SUFFICES ASSUME NEW k \in Streams, reader'[k] \in Files
               PROVE  linked'[k] /\ disk'[Name[reader'[k]]] = got'[k]
    BY DEF OnDisk, Reading, PathOf
  <2>3. CASE k = c
    BY <1>0, <2>1, <2>2, <2>3 DEF TypeOK
  <2>4. CASE k # c
    <3>1. reader'[k] = reader[k] /\ got'[k] = got[k] /\ linked'[k] = linked[k]
      BY <1>0, <2>2, <2>4 DEF TypeOK
    <3>2. linked[k] /\ disk[Name[reader[k]]] = got[k]
      BY <3>1 DEF OnDisk, Reading, PathOf
    <3>3. Name[reader[k]] # Name[t] /\ Name[reader[k]] \in Paths
      BY <2>1, <3>1 DEF OnePathEach
    <3>. QED BY <1>0, <2>2, <3>1, <3>2, <3>3 DEF TypeOK
  <2>. QED BY <2>3, <2>4
<1>4. CASE RecvChunk(c)
  <2> DEFINE x == Head(wire[c]).data
  <2>1. x \in Data
    BY <1>0, <1>4, HeadType DEF RecvChunk, Read
  <2>2. Reading(c) /\ linked[c] /\ disk[PathOf(c)] = got[c] /\ PathOf(c) \in Paths
    BY <1>4 DEF RecvChunk, OnDisk, Reading, PathOf
  <2>3. /\ got' = [got EXCEPT ![c] = Append(@, x)]
        /\ disk' = [disk EXCEPT ![PathOf(c)] = WriteAt(@, Len(got[c]), x)]
        /\ reader' = reader /\ linked' = linked
    BY <1>4, <2>2 DEF RecvChunk
  <2>4. WriteAt(got[c], Len(got[c]), x) = Append(got[c], x)
    BY <1>0, <2>1, WriteAtEnd DEF TypeOK
  <2>5. disk'[PathOf(c)] = got'[c]
    BY <1>0, <2>2, <2>3, <2>4 DEF TypeOK
  <2>6. ASSUME NEW k \in Streams, k # c, Reading(k)
        PROVE  disk'[PathOf(k)] = got'[k]
    <3>1. PathOf(k) # PathOf(c) /\ PathOf(k) \in Paths
      BY <1>1, <2>2, <2>6 DEF Reading, PathOf
    <3>2. disk'[PathOf(k)] = disk[PathOf(k)] /\ got'[k] = got[k]
      BY <1>0, <2>2, <2>3, <2>6, <3>1 DEF TypeOK
    <3>. QED BY <2>6, <3>2 DEF OnDisk
  <2>. QED BY <2>2, <2>3, <2>5, <2>6 DEF OnDisk, Reading, PathOf
<1>5. CASE \/ RecvEnd(c) \/ CannotCreate(c) \/ UnexpectedFrame(c) \/ CannotWrite(c)
           \/ EndInsideFile(c) \/ EndBetweenFrames(c)
  <2>1. /\ reader'[c] \notin Files
        /\ \A k \in Streams : k # c => reader'[k] = reader[k]
    BY <1>0, <1>5
      DEF RecvEnd, CannotCreate, UnexpectedFrame, CannotWrite, EndInsideFile,
          EndBetweenFrames, FailFile, TypeOK
  <2>2. /\ disk' = disk
        /\ \A k \in Streams : k # c => got'[k] = got[k] /\ linked'[k] = linked[k]
    BY <1>0, <1>5
      DEF RecvEnd, CannotCreate, UnexpectedFrame, CannotWrite, EndInsideFile,
          EndBetweenFrames, FailFile, fileVars, TypeOK
  <2>. QED BY <2>1, <2>2 DEF OnDisk, Reading, PathOf
<1>6. CASE ChecksumMismatch(c)
  <2>1. /\ reader' = [reader EXCEPT ![c] = "closed"]
        /\ got' = [got EXCEPT ![c] = <<>>]
        /\ Reading(c)
    BY <1>6 DEF ChecksumMismatch, FailFile
  <2> SUFFICES ASSUME NEW k \in Streams, reader'[k] \in Files
               PROVE  linked'[k] /\ disk'[Name[reader'[k]]] = got'[k]
    BY DEF OnDisk, Reading, PathOf
  <2>2. /\ k # c /\ reader'[k] = reader[k] /\ got'[k] = got[k]
        /\ Reading(k) /\ PathOf(k) = Name[reader[k]]
    BY <1>0, <2>1 DEF TypeOK, Reading, PathOf
  <2>3. linked[k] /\ disk[Name[reader[k]]] = got[k] /\ PathOf(k) # PathOf(c)
    BY <1>1, <2>1, <2>2 DEF OnDisk
  <2>4. linked'[k]
    BY <1>0, <1>6, <2>2, <2>3 DEF ChecksumMismatch, TypeOK
  <2>5. disk'[PathOf(k)] = disk[PathOf(k)]
    <3>1. PathOf(k) \in Paths
      BY <2>2 DEF Reading
    <3>. QED BY <1>0, <1>6, <2>3, <3>1 DEF ChecksumMismatch, TypeOK
  <2>. QED BY <2>2, <2>3, <2>4, <2>5
<1>. QED BY <1>2, <1>3, <1>4, <1>5, <1>6 DEF Receiver

LEMMA OnDiskNext ==
  ASSUME TypeInv, Once, OnDisk, OnePathEach, [Next]_vars
  PROVE  OnDisk'
<1>1. CASE reader' = reader /\ got' = got /\ linked' = linked /\ disk' = disk
  BY <1>1 DEF OnDisk, Reading, PathOf
<1>2. CASE \E c \in Streams : Receiver(c)
  BY <1>2, OnDiskReceiver
<1>. QED BY <1>1, <1>2
  DEF Next, Sender, Open, Refuse, Write, Abort, CloseStream, FileSender, HearAck, GiveUp,
      TakeAck, PutAck, LoseAck, LoseFrame, LinkDown, vars, receiverVars, fileVars

WholeInv == IInv /\ LineInv /\ OnDisk

LEMMA InitWhole == Init => WholeInv
<1> SUFFICES ASSUME Init PROVE WholeInv
  OBVIOUS
<1>1. LineInv
  BY DEF Init, LineInv, Ordered, Continued, Placed, OneWriter, FrameCount, Sends
<1>2. OnDisk
  BY DEF Init, OnDisk, Reading, Sends
<1>. QED BY <1>1, <1>2, InitIInv DEF WholeInv

LEMMA NextWhole ==
  ASSUME Transport # "ble", OnePathEach
  PROVE  WholeInv /\ [Next]_vars => WholeInv'
<1> SUFFICES ASSUME WholeInv, [Next]_vars PROVE WholeInv'
  OBVIOUS
<1>1. TypeInv /\ TypeOK /\ Once
  BY DEF WholeInv, IInv, TypeInv
<1>. QED BY <1>1, NextIInv, LineNext, OnDiskNext DEF WholeInv

(* RecvEnd reports exactly the file that was sent.                         *)
LEMMA EndIsWhole ==
  ASSUME WholeInv, NEW c \in Streams, RecvEnd(c)
  PROVE  reader[c] \in Files /\ disk'[Name[reader[c]]] = Content(reader[c])
<1>1. TypeOK /\ Ordered /\ Reading(c) /\ wire[c] # <<>> /\ disk' = disk
  BY DEF WholeInv, IInv, TypeInv, LineInv, RecvEnd, Read
<1>2. Head(wire[c]).sum = Content(reader[c])
  BY <1>1, HeadBelongs DEF RecvEnd, Read
<1>. QED BY <1>1, <1>2 DEF WholeInv, OnDisk, Reading, PathOf, RecvEnd

(* Where no frame is lost and no two transfers of a run have one file      *)
(* name, every file the receiver reports saved is, at that moment, byte    *)
(* for byte the file sent under that transfer ID, for any number of        *)
(* concurrent files of any size: FILE_END carries a checksum only, no      *)
(* transfer ID, so this rests on the order of the frames of one stream.    *)
THEOREM SavedFilesWhole ==
  ASSUME Transport # "ble", OnePathEach
  PROVE  Spec => SavedIntact
<1>1. WholeInv /\ [Next]_vars =>
        [\A s \in saved' \ saved : disk'[Name[s]] = Content(s)]_vars
  <2> SUFFICES ASSUME WholeInv, Next, NEW s \in saved' \ saved
               PROVE  disk'[Name[s]] = Content(s)
    BY DEF vars, receiverVars
  <2>1. PICK c \in Streams : RecvEnd(c)
    BY DEF Next, Sender, Open, Refuse, Write, Abort, CloseStream, FileSender, HearAck,
           GiveUp, TakeAck, PutAck, LoseAck, LoseFrame, LinkDown, Receiver, RecvText,
           RecvStart, CannotCreate, SkipFrame, RecvChunk, ChecksumMismatch,
           UnexpectedFrame, CannotWrite, EndInsideFile, EndBetweenFrames, Discard,
           FailFile, receiverVars
  <2>2. s = reader[c]
    BY <2>1 DEF RecvEnd
  <2>. QED BY <2>1, <2>2, EndIsWhole
<1>. QED BY <1>1, InitWhole, NextWhole, PTL DEF Spec, SavedIntact

LEMMA ReportedNext ==
  ASSUME WholeInv, DamageIsReported, [Next]_vars
  PROVE  DamageIsReported'
<1>0. TypeOK /\ "idle" \notin Files /\ "closed" \notin Files
  BY DEF WholeInv, IInv, TypeInv, Sends
<1>1. CASE /\ reader' = reader /\ failed' = failed /\ disk' = disk
  BY <1>1 DEF DamageIsReported, PathOf
<1>2. ASSUME NEW c \in Streams, Receiver(c) PROVE DamageIsReported'
  <2> SUFFICES ASSUME NEW p \in Paths
               PROVE  \/ disk'[p] = Absent
                      \/ \E s \in Files : Name[s] = p /\ disk'[p] = Content(s)
                      \/ \E s \in failed' : Name[s] = p
                      \/ \E k \in Streams : reader'[k] \in Files /\ Name[reader'[k]] = p
    BY DEF DamageIsReported, PathOf
  <2>0. \/ disk[p] = Absent
        \/ \E s \in Files : Name[s] = p /\ disk[p] = Content(s)
        \/ \E s \in failed : Name[s] = p
        \/ \E k \in Streams : reader[k] \in Files /\ Name[reader[k]] = p
    BY DEF DamageIsReported, PathOf
  <2>1. CASE RecvText(c) \/ SkipFrame(c) \/ Discard(c)
    <3>1. reader' = reader /\ failed' = failed /\ disk' = disk
      BY <2>1 DEF RecvText, SkipFrame, Discard, receiverVars, fileVars
    <3>. QED BY <2>0, <3>1
  <2>2. CASE RecvStart(c)
    <3> DEFINE t == Head(wire[c]).id
    <3>1. t \in Files
      BY <1>0, <2>2, HeadType DEF RecvStart, Read
    <3>2. /\ reader'[c] = t /\ failed' = failed
          /\ \A k \in Streams : k # c => reader'[k] = reader[k]
          /\ reader[c] = "idle"
      BY <1>0, <2>2 DEF RecvStart, TypeOK
    <3>3. p # Name[t] => disk'[p] = disk[p]
      BY <1>0, <2>2 DEF RecvStart, TypeOK
    <3>4. CASE p = Name[t]
      BY <3>1, <3>2, <3>4
    <3>5. CASE p # Name[t]
      BY <1>0, <2>0, <3>2, <3>3, <3>5
    <3>. QED BY <3>4, <3>5
  <2>3. CASE RecvChunk(c)
    <3>1. reader' = reader /\ failed' = failed /\ reader[c] \in Files
      BY <2>3 DEF RecvChunk, Reading
    <3>2. p # Name[reader[c]] => disk'[p] = disk[p]
      BY <1>0, <2>3, <3>1 DEF RecvChunk, TypeOK, PathOf
    <3>. QED BY <2>0, <3>1, <3>2
  <2>4. CASE RecvEnd(c)
    <3>1. reader[c] \in Files /\ disk'[Name[reader[c]]] = Content(reader[c])
      BY <2>4, EndIsWhole
    <3>2. /\ disk' = disk /\ failed' = failed
          /\ \A k \in Streams : k # c => reader'[k] = reader[k]
      BY <1>0, <2>4 DEF RecvEnd, TypeOK
    <3>. QED BY <2>0, <3>1, <3>2
  <2>5. ASSUME NEW t, FailFile(c, t), reader[c] = t \/ reader[c] \notin Files,
               disk'[p] = disk[p] \/ disk'[p] = Absent
        PROVE  \/ disk'[p] = Absent
               \/ \E s \in Files : Name[s] = p /\ disk'[p] = Content(s)
               \/ \E s \in failed' : Name[s] = p
               \/ \E k \in Streams : reader'[k] \in Files /\ Name[reader'[k]] = p
    <3>1. /\ failed' = failed \cup {t}
          /\ \A k \in Streams : k # c => reader'[k] = reader[k]
      BY <1>0, <2>5 DEF FailFile, TypeOK
    <3>. QED BY <2>0, <2>5, <3>1
  <2>6. CASE CannotCreate(c) \/ UnexpectedFrame(c) \/ CannotWrite(c) \/ EndInsideFile(c)
    BY <1>0, <2>5, <2>6 DEF CannotCreate, UnexpectedFrame, CannotWrite, EndInsideFile
  <2>7. CASE ChecksumMismatch(c)
    <3>1. disk'[p] = disk[p] \/ disk'[p] = Absent
      BY <1>0, <2>7 DEF ChecksumMismatch, TypeOK
    <3>. QED BY <2>5, <2>7, <3>1 DEF ChecksumMismatch
  <2>8. CASE EndBetweenFrames(c)
    <3>1. /\ disk' = disk /\ failed' = failed /\ reader[c] = "idle"
          /\ \A k \in Streams : k # c => reader'[k] = reader[k]
      BY <1>0, <2>8 DEF EndBetweenFrames, fileVars, TypeOK
    <3>. QED BY <1>0, <2>0, <3>1
  <2>. QED BY <1>2, <2>1, <2>2, <2>3, <2>4, <2>6, <2>7, <2>8 DEF Receiver
<1>. QED BY <1>1, <1>2
  DEF Next, Sender, Open, Refuse, Write, Abort, CloseStream, FileSender, HearAck, GiveUp,
      TakeAck, PutAck, LoseAck, LoseFrame, LinkDown, vars, receiverVars, fileVars

(* Under the same conditions damage is never silent: a download path holds *)
(* nothing, a whole file of that name, a file being received, or a         *)
(* transfer of that name was reported failed.                              *)
THEOREM DamageNeverSilent ==
  ASSUME Transport # "ble", OnePathEach
  PROVE  Spec => []DamageIsReported
<1>1. Init => DamageIsReported
  BY DEF Init, DamageIsReported
<1>2. Init => WholeInv /\ DamageIsReported
  BY <1>1, InitWhole
<1>3. (WholeInv /\ DamageIsReported) /\ [Next]_vars => (WholeInv /\ DamageIsReported)'
  BY NextWhole, ReportedNext
<1>. QED BY <1>2, <1>3, PTL DEF Spec

---------------------------------------------------------------------------
(* Refinement: every step is a step of TransferPromise or a stutter.       *)
Reports == [s \in Files |-> Report(s)]

LEMMA ReportsSame == pc' = pc => Reports' = Reports
  BY DEF Reports, Report

(* Any change of one Send's pc that keeps its report keeps all reports.    *)
LEMMA ReportsKept ==
  ASSUME TypeOK, NEW s \in Sends, NEW p, pc' = [pc EXCEPT ![s] = p],
         s \in Files => Report(s)' = Report(s)
  PROVE  Reports' = Reports
<1>1. ASSUME NEW u \in Files PROVE Report(u)' = Report(u)
  <2>1. CASE u = s
    BY <2>1
  <2>2. CASE u # s
    <3>1. pc'[u] = pc[u]
      BY <2>2 DEF TypeOK
    <3>. QED BY <3>1 DEF Report
  <2>. QED BY <2>1, <2>2
<1>. QED BY <1>1 DEF Reports

LEMMA ReportsOne ==
  ASSUME TypeOK, NEW s \in Files, NEW p, pc' = [pc EXCEPT ![s] = p],
         Report(s) = "pending"
  PROVE  /\ Reports' = [Reports EXCEPT ![s] = Report(s)']
         /\ Reports[s] = "pending"
<1>1. ASSUME NEW u \in Files, u # s PROVE Report(u)' = Report(u)
  <2>1. pc'[u] = pc[u]
    BY <1>1 DEF TypeOK, Sends
  <2>. QED BY <2>1 DEF Report
<1>2. \A u \in Files : Reports'[u] = IF u = s THEN Report(s)' ELSE Reports[u]
  BY <1>1 DEF Reports
<1>. QED BY <1>2 DEF Reports

LEMMA SenderRefines ==
  ASSUME IInv, NEW s \in Sends, Sender(s)
  PROVE  Promise!Next \/ UNCHANGED Promise!vars
<1>0. TypeOK /\ pc[s] \in {"new", "streaming", "waiting"} \cup Returned
  BY DEF IInv, TypeInv, TypeOK
<1>1. saved' = saved /\ failed' = failed
  BY DEF Sender, Open, Refuse, Write, Abort, CloseStream, receiverVars
<1>2. CASE Write(s)
  <2>1. Reports' = Reports
    BY <1>2, ReportsSame DEF Write
  <2>. QED BY <1>1, <2>1 DEF Promise!vars, Reports
<1>3. CASE Open(s) \/ CloseStream(s)
  <2>1. PICK p : /\ pc' = [pc EXCEPT ![s] = p]
                 /\ pc[s] \in {"new", "streaming"}
                 /\ p \in {"streaming", "waiting", "sent"}
    BY <1>3 DEF Open, CloseStream
  <2>2. pc'[s] = p
    BY <1>0, <2>1 DEF TypeOK
  <2>3. Report(s)' = Report(s)
    BY <2>1, <2>2 DEF Report
  <2>4. Reports' = Reports
    BY <1>0, <2>1, <2>3, ReportsKept
  <2>. QED BY <1>1, <2>4 DEF Promise!vars, Reports
<1>4. CASE Refuse(s) \/ Abort(s)
  <2>1. pc' = [pc EXCEPT ![s] = "failed"] /\ pc[s] \in {"new", "streaming"}
    BY <1>4 DEF Refuse, Abort
  <2>2. pc'[s] = "failed"
    BY <1>0, <2>1 DEF TypeOK
  <2>3. Report(s) = "pending" /\ Report(s)' = "unknown"
    BY <2>1, <2>2 DEF Report
  <2>4. CASE s \in Files
    <3>1. Reports' = [Reports EXCEPT ![s] = "unknown"] /\ Reports[s] = "pending"
      BY <1>0, <2>1, <2>3, <2>4, ReportsOne
    <3>2. Promise!Unknown(s)
      BY <1>1, <3>1 DEF Promise!Unknown, Promise!Report, Reports
    <3>. QED BY <2>4, <3>2 DEF Promise!Next
  <2>5. CASE s \notin Files
    <3>1. Reports' = Reports
      BY <1>0, <2>1, <2>5, ReportsKept
    <3>. QED BY <1>1, <3>1 DEF Promise!vars, Reports
  <2>. QED BY <2>4, <2>5
<1>. QED BY <1>2, <1>3, <1>4 DEF Sender

LEMMA FileSenderRefines ==
  ASSUME IInv, NEW s \in Files, FileSender(s)
  PROVE  Promise!Next
<1>0. TypeOK /\ s \in Sends /\ pc[s] = "waiting" /\ Report(s) = "pending"
  BY DEF IInv, TypeInv, FileSender, HearAck, GiveUp, Report, Sends
<1>1. saved' = saved /\ failed' = failed
  BY DEF FileSender, HearAck, GiveUp, receiverVars
<1>2. CASE GiveUp(s)
  <2>1. pc' = [pc EXCEPT ![s] = "gaveup"] /\ pc'[s] = "gaveup"
    BY <1>0, <1>2 DEF GiveUp, TypeOK
  <2>2. Report(s)' = "unknown"
    BY <2>1 DEF Report
  <2>3. Reports' = [Reports EXCEPT ![s] = "unknown"] /\ Reports[s] = "pending"
    BY <1>0, <2>1, <2>2, ReportsOne
  <2>4. Promise!Unknown(s)
    BY <1>1, <2>3 DEF Promise!Unknown, Promise!Report, Reports
  <2>. QED BY <2>4 DEF Promise!Next
<1>3. CASE HearAck(s) /\ ackCh[s] = "ok"
  <2>1. pc' = [pc EXCEPT ![s] = "done"] /\ pc'[s] = "done"
    BY <1>0, <1>3 DEF HearAck, TypeOK
  <2>2. Report(s)' = "delivered"
    BY <2>1 DEF Report
  <2>3. Reports' = [Reports EXCEPT ![s] = "delivered"] /\ Reports[s] = "pending"
    BY <1>0, <2>1, <2>2, ReportsOne
  <2>4. s \in saved
    BY <1>3 DEF IInv, VerdictBacked
  <2>5. Promise!Delivered(s)
    BY <1>1, <2>3, <2>4 DEF Promise!Delivered, Promise!Report, Reports
  <2>. QED BY <2>5 DEF Promise!Next
<1>4. CASE HearAck(s) /\ ackCh[s] # "ok"
  <2>1. pc' = [pc EXCEPT ![s] = "nacked"] /\ pc'[s] = "nacked"
    BY <1>0, <1>4 DEF HearAck, TypeOK
  <2>2. Report(s)' = "refused"
    BY <2>1 DEF Report
  <2>3. Reports' = [Reports EXCEPT ![s] = "refused"] /\ Reports[s] = "pending"
    BY <1>0, <2>1, <2>2, ReportsOne
  <2>4. ackCh[s] = "err"
    BY <1>0, <1>4 DEF HearAck, TypeOK
  <2>5. s \in failed
    BY <2>4 DEF IInv, VerdictBacked
  <2>6. Promise!Refused(s)
    BY <1>1, <2>3, <2>5 DEF Promise!Refused, Promise!Report, Reports
  <2>. QED BY <2>6 DEF Promise!Next
<1>. QED BY <1>2, <1>3, <1>4 DEF FileSender

LEMMA ReceiverRefines ==
  ASSUME IInv, NEW c \in Streams, Receiver(c)
  PROVE  Promise!Next \/ UNCHANGED Promise!vars
<1>0. TypeOK
  BY DEF IInv, TypeInv
<1>1. pc' = pc
  BY DEF Receiver, RecvText, RecvStart, CannotCreate, SkipFrame, RecvChunk, RecvEnd,
         ChecksumMismatch, UnexpectedFrame, CannotWrite, EndInsideFile,
         EndBetweenFrames, Discard, FailFile, senderVars
<1>2. Reports' = Reports
  BY <1>1, ReportsSame
<1>3. ASSUME NEW t \in Files, FailFile(c, t), t \notin saved \cup failed
      PROVE  Promise!Next
  <2>1. Promise!Fail(t)
    BY <1>2, <1>3 DEF FailFile, Promise!Fail, Promise!Undecided, Reports
  <2>. QED BY <2>1 DEF Promise!Next
<1>4. CASE RecvEnd(c)
  <2>1. reader[c] \in Files /\ reader[c] \notin saved \cup failed
    BY <1>4 DEF RecvEnd, Reading, IInv, Once, ReadOnce
  <2>2. Promise!Save(reader[c])
    BY <1>2, <1>4, <2>1 DEF RecvEnd, Promise!Save, Promise!Undecided, Reports
  <2>. QED BY <2>1, <2>2 DEF Promise!Next
<1>5. CASE CannotCreate(c)
  <2>1. Head(wire[c]) = wire[c][1] /\ 1 \in 1..Len(wire[c])
    BY <1>0, <1>5 DEF CannotCreate, Read, TypeOK
  <2>2. Head(wire[c]).id \in Files
    BY <1>0, <1>5, HeadType DEF CannotCreate, Read
  <2>3. Head(wire[c]).id \notin saved \cup failed
    BY <1>5, <2>1 DEF CannotCreate, Read, IInv, Once, QueuedOnce, StartAt, Untouched
  <2>. QED BY <1>3, <1>5, <2>2, <2>3 DEF CannotCreate
<1>6. CASE \/ ChecksumMismatch(c) \/ UnexpectedFrame(c)
           \/ CannotWrite(c) \/ EndInsideFile(c)
  BY <1>3, <1>6 DEF ChecksumMismatch, UnexpectedFrame, CannotWrite, EndInsideFile,
                    Reading, IInv, Once, ReadOnce
<1>7. CASE saved' = saved /\ failed' = failed
  BY <1>2, <1>7 DEF Promise!vars, Reports
<1>. QED BY <1>4, <1>5, <1>6, <1>7
       DEF Receiver, RecvText, RecvStart, SkipFrame, RecvChunk,
           EndBetweenFrames, Discard, receiverVars

LEMMA NextRefines == IInv /\ [Next]_vars => Promise!Next \/ UNCHANGED Promise!vars
<1> SUFFICES ASSUME IInv, [Next]_vars PROVE Promise!Next \/ UNCHANGED Promise!vars
  OBVIOUS
<1>1. ASSUME pc' = pc, saved' = saved, failed' = failed
      PROVE  UNCHANGED Promise!vars
  BY <1>1, ReportsSame DEF Promise!vars, Reports
<1>2. CASE (\E a \in Ack : TakeAck(a) \/ PutAck(a) \/ LoseAck(a)) \/ LinkDown
           \/ (\E c \in Streams : LoseFrame(c)) \/ UNCHANGED vars
  BY <1>1, <1>2 DEF TakeAck, PutAck, LoseAck, LinkDown, LoseFrame, vars, senderVars,
                    receiverVars
<1>. QED BY <1>2, SenderRefines, FileSenderRefines, ReceiverRefines DEF Next

(* The frame-level protocol implements the promise of TransferPromise on   *)
(* every transport: one verdict per transfer at the receiver, and a sender *)
(* that reports that verdict or nothing.                                   *)
THEOREM Implements == Spec => KeepsPromise
<1>1. Init => Promise!Init
  BY DEF Init, Promise!Init, Report, Sends
<1>2. IInv /\ [Next]_vars => [Promise!Next]_Promise!vars
  BY NextRefines
<1>. QED BY <1>1, <1>2, Invariance, PTL DEF Spec, KeepsPromise, Promise!Spec
===========================================================================
