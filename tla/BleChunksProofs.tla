-------------------------- MODULE BleChunksProofs --------------------------
(***************************************************************************)
(* Theorems about BleChunks, for every set of messages and peers and every *)
(* form of sender and receiver.                                            *)
(***************************************************************************)
EXTENDS BleChunks, TLAPS

(* The radio of a peer holds chunks that are meant for it, unless chunks   *)
(* are broadcast.                                                          *)
Addressed ==
  ~Session => \A p \in Peers : \A i \in 1..Len(air[p]) : To[air[p][i].msg] = p

(* A message in progress has chunks left, and is sent to its recipient; no *)
(* chunk has left of a message that is still to do.                        *)
InProgress(p) ==
  current[p] # None =>
    To[current[p]] = p /\ current[p] \notin todo /\ next[current[p]] < Total[current[p]]
Sending ==
  /\ \A p \in Peers : InProgress(p)
  /\ \A m \in todo : next[m] = 0

(* What a receiver has put together so far.                                *)
Run(p, buf) ==
  /\ buf \in Seq(Chunks)
  /\ \A i \in 1..Len(buf) :
       /\ buf[i].idx = i - 1
       /\ To[buf[i].msg] = p
       /\ ChecksTotal => Total[buf[i].msg] = Total[buf[1].msg]

(* And what it passes on.                                                  *)
Whole(p, buf) == Run(p, buf) /\ buf # <<>> /\ IsLast(buf[Len(buf)])

IInv ==
  /\ TypeOK
  /\ Sending
  /\ Addressed
  /\ \A p \in Peers : Run(p, asm[p])
  /\ \A d \in delivered : Whole(d.to, d.buf)

(* Feed keeps a run a run.                                                 *)
LEMMA FeedRun ==
  ASSUME NEW p \in Peers, NEW buf, Run(p, buf), NEW c \in Chunks, To[c.msg] = p
  PROVE  Run(p, Feed(buf, c)) /\ (Feed(buf, c) # <<>> => Feed(buf, c)[Len(Feed(buf, c))] = c)
<1>0. c.idx \in Nat /\ c.msg \in Msgs /\ buf \in Seq(Chunks)
  BY DEF Chunks, Run
<1>1. CASE c.idx = 0
  <2>1. Feed(buf, c) = <<c>>
    BY <1>1 DEF Feed
  <2>. QED BY <1>0, <1>1, <2>1 DEF Run
<1>2. CASE c.idx # 0 /\ Continues(buf, c)
  <2>1. Feed(buf, c) = Append(buf, c)
    BY <1>2 DEF Feed
  <2>2. /\ Append(buf, c) \in Seq(Chunks)
        /\ Len(Append(buf, c)) = Len(buf) + 1
        /\ \A i \in 1..Len(buf) : Append(buf, c)[i] = buf[i]
        /\ Append(buf, c)[Len(buf) + 1] = c
        /\ Len(buf) \in Nat /\ Len(buf) # 0
    BY <1>0, <1>2 DEF Continues
  <2>3. Append(buf, c)[1] = buf[1]
    BY <2>2
  <2>4. ASSUME NEW i \in 1..(Len(buf) + 1)
        PROVE  /\ Append(buf, c)[i].idx = i - 1
               /\ To[Append(buf, c)[i].msg] = p
               /\ ChecksTotal => Total[Append(buf, c)[i].msg] = Total[buf[1].msg]
    <3>1. CASE i \in 1..Len(buf)
      BY <2>2, <3>1 DEF Run
    <3>2. CASE i = Len(buf) + 1
      BY <1>0, <1>2, <2>2, <3>2 DEF Continues
    <3>. QED BY <2>2, <3>1, <3>2
  <2>. HIDE DEF Run
  <2>5. Run(p, Append(buf, c))
    BY <2>2, <2>3, <2>4 DEF Run
  <2>. QED BY <2>1, <2>2, <2>5
<1>3. CASE c.idx # 0 /\ ~Continues(buf, c)
  <2>1. Feed(buf, c) = <<>>
    BY <1>3 DEF Feed
  <2>. QED BY <2>1 DEF Run
<1>. QED BY <1>1, <1>2, <1>3

(* What the sender hands over is a chunk of its message.                   *)
LEMMA ThisChunkType ==
  ASSUME TypeOK, Sending, NEW p \in Peers, current[p] # None
  PROVE  /\ ThisChunk(p) \in Chunks
         /\ ThisChunk(p).msg = current[p]
         /\ ThisChunk(p).idx = next[current[p]]
  BY DEF ThisChunk, Chunks, TypeOK, Sending, InProgress

(* The radio keeps its type and its addresses.                             *)
LEMMA PutKeeps ==
  ASSUME TypeOK, Addressed, NEW c \in Chunks, Put(c)
  PROVE  air' \in [Peers -> Seq(Chunks)] /\ Addressed'
<1>1. ASSUME NEW q \in Peers
      PROVE  /\ air'[q] \in Seq(Chunks)
             /\ ~Session => \A i \in 1..Len(air'[q]) : To[air'[q][i].msg] = q
  <2>1. air[q] \in Seq(Chunks)
    BY DEF TypeOK
  <2>2. CASE q \in Audience(c) /\ up[q] /\ HasRoom(q)
    <3>1. air'[q] = Append(air[q], c)
      BY <2>2 DEF Put
    <3>2. ~Session => To[c.msg] = q
      BY <2>2 DEF Audience
    <3>. QED BY <2>1, <3>1, <3>2 DEF Addressed
  <2>3. CASE ~(q \in Audience(c) /\ up[q] /\ HasRoom(q))
    <3>1. air'[q] = air[q]
      BY <2>3 DEF Put
    <3>. QED BY <2>1, <3>1 DEF Addressed
  <2>. QED BY <2>2, <2>3
<1>2. DOMAIN air' = Peers /\ air' = [q \in Peers |-> air'[q]]
  BY DEF Put
<1>. QED BY <1>1, <1>2 DEF Addressed

LEMMA TailKeeps ==
  ASSUME TypeOK, Addressed, NEW p \in Peers, air[p] # <<>>,
         air' = [air EXCEPT ![p] = Tail(@)]
  PROVE  air' \in [Peers -> Seq(Chunks)] /\ Addressed'
<1>1. air[p] \in Seq(Chunks)
  BY DEF TypeOK
<1>2. /\ Tail(air[p]) \in Seq(Chunks)
      /\ \A i \in 1..Len(Tail(air[p])) :
           i + 1 \in 1..Len(air[p]) /\ Tail(air[p])[i] = air[p][i + 1]
  BY <1>1
<1>3. ~Session => \A i \in 1..Len(Tail(air[p])) : To[Tail(air[p])[i].msg] = p
  BY <1>2 DEF Addressed
<1>4. \A q \in Peers : air'[q] = IF q = p THEN Tail(air[p]) ELSE air[q]
  BY DEF TypeOK
<1>5. air' \in [Peers -> Seq(Chunks)]
  BY <1>2 DEF TypeOK
<1>. QED BY <1>3, <1>4, <1>5 DEF Addressed

LEMMA InitIInv == Init => IInv
<1> SUFFICES ASSUME Init PROVE IInv
  OBVIOUS
<1>1. <<>> \in Seq(Chunks) /\ Len(<<>>) = 0
  OBVIOUS
<1>2. TypeOK
  BY <1>1, MessagesAssumption DEF Init, TypeOK
<1>. QED BY <1>1, <1>2 DEF Init, IInv, Sending, InProgress, Addressed, Run

(* Chunks handed over one by one.                                          *)
LEMMA SendIInv ==
  ASSUME IInv, NEW p \in Peers, SendChunk(p) \/ NotifyChunk(p)
  PROVE  IInv'
<1>. DEFINE c == ThisChunk(p)
<1>0. TypeOK /\ Sending /\ Addressed /\ current[p] # None
  BY DEF IInv, SendChunk, NotifyChunk
<1>1. c \in Chunks /\ c.msg = current[p] /\ c.idx = next[current[p]]
  BY <1>0, ThisChunkType
<1>2. /\ Put(c) /\ Sent(p, c)
      /\ UNCHANGED <<todo, pending, refused, draining, up, receiverVars>>
  BY DEF SendChunk, NotifyChunk
<1>. HIDE DEF c
<1>3. air' \in [Peers -> Seq(Chunks)] /\ Addressed'
  BY <1>0, <1>1, <1>2, PutKeeps
<1>4. /\ current' \in [Peers -> Msgs \cup {None}]
      /\ next' \in [Msgs -> Nat]
  BY <1>0, <1>1, <1>2 DEF Sent, TypeOK, Chunks
<1>5. ~IsLast(c) => c.idx + 1 < Total[c.msg]
  BY <1>1, MessagesAssumption DEF Chunks, IsLast
<1>6. ASSUME NEW q \in Peers, current'[q] # None
      PROVE  /\ To[current'[q]] = q /\ current'[q] \notin todo'
             /\ next'[current'[q]] < Total[current'[q]]
  <2>1. current'[q] = current[q] /\ current[q] \in Msgs
    BY <1>0, <1>2, <1>6 DEF Sent, TypeOK
  <2>2. CASE q = p
    <3>1. ~IsLast(c) /\ next'[c.msg] = c.idx + 1
      BY <1>0, <1>1, <1>2, <1>6, <2>2 DEF Sent, TypeOK, Chunks
    <3>. QED BY <1>0, <1>1, <1>5, <1>2, <2>1, <2>2, <3>1 DEF Sending, InProgress
  <2>3. CASE q # p
    <3>1. current[q] # c.msg
      BY <1>0, <1>1, <1>6, <2>1, <2>3 DEF Sending, InProgress
    <3>2. next'[current[q]] = next[current[q]]
      BY <1>0, <1>2, <2>1, <3>1 DEF Sent, TypeOK
    <3>. QED BY <1>0, <1>2, <1>6, <2>1, <3>2 DEF Sending, InProgress
  <2>. QED BY <2>2, <2>3
<1>7. TypeOK'
  BY <1>0, <1>2, <1>3, <1>4 DEF TypeOK, receiverVars
<1>8. Sending'
  <2>1. \A m \in todo : m # c.msg
    BY <1>0, <1>1 DEF Sending, InProgress
  <2>2. \A m \in todo' : next'[m] = 0
    BY <1>0, <1>2, <2>1 DEF Sent, Sending, TypeOK
  <2>. QED BY <1>6, <2>2 DEF Sending, InProgress
<1>. QED BY <1>2, <1>3, <1>7, <1>8 DEF IInv, receiverVars, Run, Whole

(* A refused message goes to the queue, chunk by chunk.                    *)
LEMMA QueueIInv ==
  ASSUME IInv, NEW p \in Peers, QueueRest(p)
  PROVE  IInv'
<1>. DEFINE m == current[p]
            n == Total[m] - next[m]
            rest == [i \in 1..n |-> [msg |-> m, idx |-> next[m] + i - 1]]
<1>0. TypeOK /\ Sending /\ m # None
  BY DEF IInv, QueueRest
<1>1. /\ m \in Msgs /\ m \notin todo
      /\ next[m] \in Nat /\ Total[m] \in Nat /\ next[m] < Total[m]
  BY <1>0, MessagesAssumption DEF TypeOK, Sending, InProgress
<1>2. n \in Nat
  BY <1>1
<1>3. ASSUME NEW i \in 1..n PROVE [msg |-> m, idx |-> next[m] + i - 1] \in Chunks
  <2>1. next[m] + i - 1 \in Nat /\ next[m] + i - 1 < Total[m]
    BY <1>1
  <2>. QED BY <1>1, <2>1 DEF Chunks
<1>4. rest \in Seq(Chunks)
  <2>1. rest \in [1..n -> Chunks]
    BY <1>3
  <2>. HIDE DEF rest, n
  <2>. QED BY <1>2, <2>1
<1>5. /\ pending' = pending \o rest
      /\ refused' = TRUE
      /\ next' = [next EXCEPT ![m] = Total[m]]
      /\ current' = [current EXCEPT ![p] = None]
      /\ UNCHANGED <<todo, draining, up, air, receiverVars>>
  BY DEF QueueRest
<1>. HIDE DEF rest
<1>6. pending' \in Seq(Chunks)
  BY <1>0, <1>4, <1>5 DEF TypeOK
<1>7. TypeOK'
  BY <1>0, <1>1, <1>5, <1>6 DEF TypeOK, receiverVars
<1>8. Sending'
  <2>0. \A u \in todo' : next'[u] = 0
    BY <1>0, <1>1, <1>5 DEF Sending, TypeOK
  <2> SUFFICES ASSUME NEW q \in Peers, current'[q] # None
               PROVE  /\ To[current'[q]] = q /\ current'[q] \notin todo'
                      /\ next'[current'[q]] < Total[current'[q]]
    BY <2>0 DEF Sending, InProgress
  <2>1. q # p /\ current'[q] = current[q] /\ current[q] # None /\ current[q] \in Msgs
    BY <1>0, <1>5 DEF TypeOK
  <2>2. current[q] # m
    BY <1>0, <2>1 DEF Sending, InProgress
  <2>. QED BY <1>0, <1>5, <2>1, <2>2 DEF Sending, InProgress, TypeOK
<1>. QED BY <1>5, <1>7, <1>8 DEF IInv, InProgress, Addressed, Run, Whole, receiverVars

(* The ready callback and its loop.                                        *)
LEMMA DrainIInv ==
  ASSUME IInv, Ready \/ DrainChunk \/ DrainEnds
  PROVE  IInv'
<1>0. TypeOK /\ Sending /\ Addressed
  BY DEF IInv
<1>1. CASE Ready \/ DrainEnds
  <2>1. /\ refused' \in BOOLEAN /\ draining' \in BOOLEAN
        /\ UNCHANGED <<todo, current, next, pending, up, air, receiverVars>>
    BY <1>1 DEF Ready, DrainEnds
  <2>. QED BY <2>1
         DEF IInv, TypeOK, Sending, InProgress, Addressed, Run, Whole, receiverVars
<1>2. CASE DrainChunk
  <2>. DEFINE c == Head(pending)
  <2>1. /\ pending # <<>> /\ Put(c) /\ pending' = Tail(pending)
        /\ UNCHANGED <<todo, current, next, refused, draining, up, receiverVars>>
    BY <1>2 DEF DrainChunk
  <2>2. c \in Chunks /\ Tail(pending) \in Seq(Chunks)
    BY <1>0, <2>1 DEF TypeOK
  <2>. HIDE DEF c
  <2>3. air' \in [Peers -> Seq(Chunks)] /\ Addressed'
    BY <1>0, <2>1, <2>2, PutKeeps
  <2>4. TypeOK'
    BY <1>0, <2>1, <2>2, <2>3 DEF TypeOK, receiverVars
  <2>. QED BY <2>1, <2>3, <2>4 DEF IInv, Sending, InProgress, Run, Whole, receiverVars
<1>. QED BY <1>1, <1>2

(* A chunk is heard.                                                       *)
LEMMA HearIInv ==
  ASSUME IInv, NEW p \in Peers, Hear(p)
  PROVE  IInv'
<1>. DEFINE c == Head(air[p])
            buf == Feed(asm[p], c)
            whole == buf # <<>> /\ IsLast(c)
<1>0. TypeOK /\ Sending /\ Addressed /\ Run(p, asm[p])
  BY DEF IInv
<1>1. /\ air[p] # <<>>
      /\ air' = [air EXCEPT ![p] = Tail(@)]
      /\ UNCHANGED <<senderVars, up>>
  BY DEF Hear
<1>2. air' \in [Peers -> Seq(Chunks)] /\ Addressed'
  BY <1>0, <1>1, TailKeeps
<1>3. c \in Chunks /\ c = air[p][1] /\ 1 \in 1..Len(air[p])
  BY <1>0, <1>1 DEF TypeOK
<1>4. CASE IsFor(p, c)
  <2>1. To[c.msg] = p
    BY <1>0, <1>3, <1>4 DEF IsFor, Addressed
  <2>2. Run(p, buf) /\ (buf # <<>> => buf[Len(buf)] = c)
    BY <1>0, <1>3, <2>1, FeedRun
  <2>3. /\ asm' = [asm EXCEPT ![p] = IF whole THEN <<>> ELSE buf]
        /\ delivered' = IF whole THEN delivered \cup {[to |-> p, buf |-> buf]} ELSE delivered
        /\ started' = IF c.idx = 0 THEN started \cup {c.msg} ELSE started
    BY <1>4 DEF Hear
  <2>4. c.msg \in Msgs
    BY <1>3 DEF Chunks
  <2>. HIDE DEF c, buf
  <2>5. buf \in Seq(Chunks) /\ <<>> \in Seq(Chunks)
    BY <2>2 DEF Run
  <2>6. asm' \in [Peers -> Seq(Chunks)] /\ started' \subseteq Msgs
    BY <1>0, <2>3, <2>4, <2>5 DEF TypeOK
  <2>7. delivered' \subseteq [to : Peers, buf : Seq(Chunks)]
    BY <1>0, <2>3, <2>5 DEF TypeOK
  <2>8. TypeOK'
    BY <1>0, <1>1, <1>2, <2>6, <2>7 DEF TypeOK, senderVars
  <2>9. Run(p, <<>>)
    BY <2>5 DEF Run
  <2>10. \A q \in Peers : Run(q, asm'[q])
    <3>1. \A q \in Peers : asm'[q] = IF q = p THEN (IF whole THEN <<>> ELSE buf) ELSE asm[q]
      BY <1>0, <2>3 DEF TypeOK
    <3>. QED BY <2>2, <2>9, <3>1 DEF IInv
  <2>11. whole => Whole(p, buf)
    BY <2>2 DEF Whole
  <2>12. \A d \in delivered' : Whole(d.to, d.buf)
    BY <2>3, <2>11 DEF IInv
  <2>. QED BY <1>0, <1>1, <1>2, <2>8, <2>10, <2>12 DEF IInv, Sending, InProgress, senderVars, Run, Whole
<1>5. CASE ~IsFor(p, c)
  <2>1. UNCHANGED receiverVars
    BY <1>5 DEF Hear
  <2>2. TypeOK'
    BY <1>0, <1>1, <1>2, <2>1 DEF TypeOK, senderVars, receiverVars
  <2>. QED BY <1>1, <1>2, <2>1, <2>2 DEF IInv, Sending, InProgress, senderVars, receiverVars, Run, Whole
<1>. QED BY <1>4, <1>5

(* The radio loses chunks and connections.                                 *)
LEMMA RadioIInv ==
  ASSUME IInv, NEW p \in Peers, LoseChunk(p) \/ Disconnect(p) \/ Reconnect(p)
  PROVE  IInv'
<1>0. TypeOK /\ Sending /\ Addressed
  BY DEF IInv
<1>1. CASE LoseChunk(p)
  <2>1. air' \in [Peers -> Seq(Chunks)] /\ Addressed'
    BY <1>0, <1>1, TailKeeps DEF LoseChunk
  <2>2. TypeOK'
    BY <1>0, <1>1, <2>1 DEF LoseChunk, TypeOK, senderVars, receiverVars
  <2>. QED BY <1>1, <2>1, <2>2 DEF LoseChunk, IInv, Sending, InProgress, senderVars, receiverVars, Run, Whole
<1>2. CASE Disconnect(p)
  <2>1. <<>> \in Seq(Chunks) /\ Run(p, <<>>)
    BY DEF Run
  <2>2. /\ up' = [up EXCEPT ![p] = FALSE]
        /\ air' = [air EXCEPT ![p] = <<>>]
        /\ asm' = asm \/ asm' = [asm EXCEPT ![p] = <<>>]
        /\ UNCHANGED <<senderVars, started, delivered>>
    BY <1>2 DEF Disconnect
  <2>3. TypeOK'
    BY <1>0, <2>1, <2>2 DEF TypeOK, senderVars
  <2>4. Addressed'
    <3>1. \A q \in Peers : air'[q] = IF q = p THEN <<>> ELSE air[q]
      BY <1>0, <2>2 DEF TypeOK
    <3>. QED BY <1>0, <3>1 DEF Addressed
  <2>5. \A q \in Peers : asm'[q] = asm[q] \/ (q = p /\ asm'[q] = <<>>)
    BY <1>0, <2>2 DEF TypeOK
  <2>6. \A q \in Peers : Run(q, asm'[q])
    BY <2>1, <2>5 DEF IInv
  <2>. QED BY <1>0, <2>2, <2>3, <2>4, <2>6 DEF IInv, Sending, InProgress, senderVars, Run, Whole
<1>3. CASE Reconnect(p)
  BY <1>0, <1>3
    DEF Reconnect, IInv, TypeOK, Sending, InProgress, Addressed, Run, Whole, senderVars, receiverVars
<1>. QED BY <1>1, <1>2, <1>3

LEMMA BeginIInv == ASSUME IInv, NEW m \in Msgs, Begin(m) PROVE IInv'
<1>0. TypeOK /\ Sending /\ To[m] \in Peers
  BY MessagesAssumption DEF IInv
<1>1. /\ m \in todo
      /\ \A q \in Peers : current'[q] = current[q] \/ (q = To[m] /\ current'[q] = m)
      /\ current' \in [Peers -> Msgs \cup {None}]
      /\ todo' = todo \ {m}
      /\ UNCHANGED <<next, pending, refused, draining, up, air, receiverVars>>
  BY <1>0 DEF Begin, TypeOK
<1>2. TypeOK'
  BY <1>0, <1>1 DEF TypeOK, receiverVars
<1>3. next[m] = 0 /\ next[m] < Total[m]
  BY <1>0, <1>1, MessagesAssumption DEF Sending
<1>4. Sending'
  BY <1>0, <1>1, <1>3 DEF Sending, InProgress
<1>. QED BY <1>1, <1>2, <1>4 DEF IInv, Addressed, Run, Whole, receiverVars

LEMMA NextIInv == IInv /\ [Next]_vars => IInv'
<1> SUFFICES ASSUME IInv, [Next]_vars PROVE IInv'
  OBVIOUS
<1>1. CASE UNCHANGED vars
  BY <1>1 DEF vars, senderVars, receiverVars, IInv, TypeOK, Sending, InProgress, Addressed, Run, Whole
<1>. QED BY <1>1, BeginIInv, SendIInv, QueueIInv, DrainIInv, HearIInv, RadioIInv DEF Next

LEMMA Invariance == Spec => []IInv
  BY InitIInv, NextIInv, PTL DEF Spec

(* All state keeps its type.                                               *)
THEOREM TypeCorrect == Spec => []TypeOK
<1>1. IInv => TypeOK
  BY DEF IInv
<1>. QED BY <1>1, Invariance, PTL

(* Whatever is lost, reordered or cut off, what a receiver passes on is a  *)
(* run of chunks from index 0 to the last chunk of a message.              *)
THEOREM DeliversRuns == Spec => []Consecutive
<1>1. IInv => Consecutive
  <2> SUFFICES ASSUME IInv, NEW d \in delivered
               PROVE  /\ d.buf # <<>>
                      /\ \A i \in DOMAIN d.buf : d.buf[i].idx = i - 1
                      /\ IsLast(d.buf[Len(d.buf)])
    BY DEF Consecutive
  <2>1. Whole(d.to, d.buf) /\ d.buf \in Seq(Chunks)
    BY DEF IInv, Whole, Run
  <2>2. DOMAIN d.buf = 1..Len(d.buf)
    BY <2>1
  <2>. QED BY <2>1, <2>2 DEF Whole, Run
<1>. QED BY <1>1, Invariance, PTL

(* An assembler that compares totals joins no messages of different        *)
(* lengths.                                                                *)
THEOREM DeliversOneLength == Spec => []OneLength
<1>1. IInv => OneLength
  <2> SUFFICES ASSUME IInv, ChecksTotal, NEW d \in delivered, NEW i \in DOMAIN d.buf
               PROVE  Total[d.buf[i].msg] = Len(d.buf)
    BY DEF OneLength
  <2>1. d.buf \in Seq(Chunks) /\ d.buf # <<>>
    BY DEF IInv, Whole, Run
  <2>2. Len(d.buf) \in 1..Len(d.buf) /\ i \in 1..Len(d.buf)
    BY <2>1
  <2>3. d.buf[Len(d.buf)].idx = Len(d.buf) - 1 /\ IsLast(d.buf[Len(d.buf)])
    BY <2>2 DEF IInv, Whole, Run
  <2>4. Total[d.buf[Len(d.buf)].msg] = Len(d.buf)
    BY <2>1, <2>3 DEF IsLast
  <2>5. Total[d.buf[i].msg] = Total[d.buf[Len(d.buf)].msg]
    BY <2>2 DEF IInv, Whole, Run
  <2>. QED BY <2>4, <2>5
<1>. QED BY <1>1, Invariance, PTL

(* A device passes on only what was sent to it.                            *)
THEOREM DeliversOwn == Spec => []Mine
<1>1. IInv => Mine
  <2> SUFFICES ASSUME IInv, NEW d \in delivered, NEW i \in DOMAIN d.buf
               PROVE  To[d.buf[i].msg] = d.to
    BY DEF Mine
  <2>1. Run(d.to, d.buf)
    BY DEF IInv, Whole
  <2>2. i \in 1..Len(d.buf)
    BY <2>1 DEF Run
  <2>. QED BY <2>1, <2>2 DEF Run
<1>. QED BY <1>1, Invariance, PTL
---------------------------------------------------------------------------
(* Order. Where chunks are not queued, those of one message reach a peer   *)
(* in the order of their indexes, and those of two messages do not mix:    *)
(* once the first chunk of a message was heard, the buffer is that         *)
(* message's until it has gone by. What follows says so of the chunks on   *)
(* their way, which alone can still put bytes into a buffer.               *)
Ours(p) == {i \in 1..Len(air[p]) : To[air[p][i].msg] = p}

(* A chunk of message m is in a receiver's buffer, or was in one passed on. *)
Holds(buf, m) == \E i \in 1..Len(buf) : buf[i].msg = m
Taken == {m \in Msgs : \/ \E d \in delivered : Holds(d.buf, m)
                       \/ \E p \in Peers : Holds(asm[p], m)}

Owns(buf, m) == buf # <<>> => buf[1].msg = m

Line(p) ==
  /\ \A i \in Ours(p) :
       /\ next[air[p][i].msg] # 0
       /\ air[p][i].idx = 0 => air[p][i].msg \notin Taken
       /\ air[p][i].msg \in started => Owns(asm[p], air[p][i].msg)
  /\ \A i, j \in Ours(p) :
       /\ i < j /\ air[p][i].msg = air[p][j].msg => air[p][j].idx # 0
       /\ j <= i /\ air[p][i].msg \in started => air[p][j].idx # 0
       /\ i < j /\ air[p][i].idx = 0 /\ air[p][i].msg = current[p] => air[p][j].idx # 0
  /\ \A i, j, k \in Ours(p) :
       i < j /\ j < k /\ air[p][i].idx = 0 /\ air[p][i].msg = air[p][k].msg => air[p][j].idx # 0
  /\ current[p] \in started =>
       Owns(asm[p], current[p]) /\ \A j \in Ours(p) : air[p][j].idx # 0

Clean(buf, begun) ==
  \A i \in 1..Len(buf) : buf[i].msg # buf[1].msg => buf[i].msg \notin begun

Begun == \A m \in Msgs : m \in started \/ m \in Taken => next[m] # 0

OrderInv ==
  /\ ~refused /\ ~draining
  /\ \A p \in Peers : Line(p) /\ Clean(asm[p], started)
  /\ \A d \in delivered : Clean(d.buf, started)
  /\ Begun

(* Chunks and buffers may be lost: what is left is in the same order.      *)
LEMMA ThinOrder ==
  ASSUME OrderInv,
         \A q \in Peers : \E s \in Nat : \A i \in Ours(q)' :
           i \in Nat /\ i + s \in Ours(q) /\ air'[q][i] = air[q][i + s],
         \A q \in Peers : asm'[q] = asm[q] \/ asm'[q] = <<>>,
         UNCHANGED <<next, current, refused, draining, started, delivered>>
  PROVE  OrderInv'
<1>1. \A q \in Peers : \A m : Holds(asm'[q], m) => Holds(asm[q], m)
  BY DEF Holds
<1>2. Taken' \subseteq Taken
  BY <1>1 DEF Taken
<1>3. Begun'
  BY <1>2 DEF OrderInv, Begun
<1>4. ASSUME NEW q \in Peers
      PROVE  Line(q)' /\ Clean(asm'[q], started')
  <2>1. PICK s \in Nat : \A i \in Ours(q)' :
          i \in Nat /\ i + s \in Ours(q) /\ air'[q][i] = air[q][i + s]
    OBVIOUS
  <2>2. \A m : Owns(asm[q], m) => Owns(asm'[q], m)
    BY DEF Owns
  <2>3. Line(q)
    BY DEF OrderInv
  <2>4. /\ \A i \in Ours(q)' :
             /\ next'[air'[q][i].msg] # 0
             /\ air'[q][i].idx = 0 => air'[q][i].msg \notin Taken'
             /\ air'[q][i].msg \in started' => Owns(asm'[q], air'[q][i].msg)
    BY <1>2, <2>1, <2>2, <2>3 DEF Line
  <2>5. \A i, j \in Ours(q)' :
          /\ i < j /\ air'[q][i].msg = air'[q][j].msg => air'[q][j].idx # 0
          /\ j <= i /\ air'[q][i].msg \in started' => air'[q][j].idx # 0
          /\ i < j /\ air'[q][i].idx = 0 /\ air'[q][i].msg = current'[q] => air'[q][j].idx # 0
    <3>. SUFFICES ASSUME NEW i \in Ours(q)', NEW j \in Ours(q)'
                  PROVE  /\ i < j /\ air'[q][i].msg = air'[q][j].msg => air'[q][j].idx # 0
                         /\ j <= i /\ air'[q][i].msg \in started' => air'[q][j].idx # 0
                         /\ i < j /\ air'[q][i].idx = 0 /\ air'[q][i].msg = current'[q]
                              => air'[q][j].idx # 0
      OBVIOUS
    <3>1. /\ i \in Nat /\ j \in Nat /\ i + s \in Ours(q) /\ j + s \in Ours(q)
          /\ air'[q][i] = air[q][i + s] /\ air'[q][j] = air[q][j + s]
          /\ (i < j) = (i + s < j + s) /\ (j <= i) = (j + s <= i + s)
      BY <2>1
    <3>. QED BY <2>3, <3>1 DEF Line
  <2>6. \A i, j, k \in Ours(q)' :
          i < j /\ j < k /\ air'[q][i].idx = 0 /\ air'[q][i].msg = air'[q][k].msg
            => air'[q][j].idx # 0
    <3>. SUFFICES ASSUME NEW i \in Ours(q)', NEW j \in Ours(q)', NEW k \in Ours(q)',
                         i < j, j < k, air'[q][i].idx = 0, air'[q][i].msg = air'[q][k].msg
                  PROVE  air'[q][j].idx # 0
      OBVIOUS
    <3>1. /\ i + s \in Ours(q) /\ j + s \in Ours(q) /\ k + s \in Ours(q)
          /\ air'[q][i] = air[q][i + s] /\ air'[q][j] = air[q][j + s] /\ air'[q][k] = air[q][k + s]
          /\ i + s < j + s /\ j + s < k + s
      BY <2>1
    <3>. QED BY <2>3, <3>1 DEF Line
  <2>7. current'[q] \in started' =>
          Owns(asm'[q], current'[q]) /\ \A j \in Ours(q)' : air'[q][j].idx # 0
    BY <2>1, <2>2, <2>3 DEF Line
  <2>8. Line(q)'
    BY <2>4, <2>5, <2>6, <2>7 DEF Line
  <2>9. Clean(asm'[q], started')
    BY DEF OrderInv, Clean
  <2>. QED BY <2>8, <2>9
<1>5. \A d \in delivered' : Clean(d.buf, started')
  BY DEF OrderInv, Clean
<1>. QED BY <1>3, <1>4, <1>5 DEF OrderInv

(* A chunk taken off the air of p.                                         *)
LEMMA TailOurs ==
  ASSUME TypeOK, NEW p \in Peers, air[p] # <<>>, air' = [air EXCEPT ![p] = Tail(@)]
  PROVE  /\ \A i \in Ours(p)' : i \in Nat /\ i >= 1 /\ i + 1 \in Ours(p) /\ air'[p][i] = air[p][i + 1]
         /\ \A q \in Peers \ {p} : air'[q] = air[q] /\ Ours(q)' = Ours(q)
<1>1. air[p] \in Seq(Chunks)
  BY DEF TypeOK
<1>2. air'[p] = Tail(air[p]) /\ \A q \in Peers \ {p} : air'[q] = air[q]
  BY DEF TypeOK
<1>3. \A i \in 1..Len(Tail(air[p])) :
        i + 1 \in 1..Len(air[p]) /\ Tail(air[p])[i] = air[p][i + 1]
  BY <1>1
<1>4. \A i \in 1..Len(Tail(air[p])) : i \in Nat /\ i >= 1
  BY <1>1
<1>. QED BY <1>2, <1>3, <1>4 DEF Ours

LEMMA RadioOrder ==
  ASSUME TypeOK, OrderInv, NEW p \in Peers, LoseChunk(p) \/ Disconnect(p) \/ Reconnect(p)
  PROVE  OrderInv'
<1>1. UNCHANGED <<next, current, refused, draining, started, delivered>>
  BY DEF LoseChunk, Disconnect, Reconnect, senderVars, receiverVars
<1>2. \A q \in Peers : asm'[q] = asm[q] \/ asm'[q] = <<>>
  BY DEF TypeOK, LoseChunk, Disconnect, Reconnect, receiverVars
<1>3. \A q \in Peers : \A i \in Ours(q) : i \in Nat /\ i = i + 0
  BY DEF Ours, TypeOK
<1>4. ASSUME NEW q \in Peers
      PROVE  \E s \in Nat : \A i \in Ours(q)' :
               i \in Nat /\ i + s \in Ours(q) /\ air'[q][i] = air[q][i + s]
  <2>1. CASE air'[q] = air[q]
    <3>1. Ours(q)' = Ours(q)
      BY <2>1 DEF Ours
    <3>2. \A i \in Ours(q)' : i \in Nat /\ i + 0 \in Ours(q) /\ air'[q][i] = air[q][i + 0]
      BY <1>3, <2>1, <3>1
    <3>. QED BY <3>2
  <2>2. CASE q = p /\ LoseChunk(p)
    <3>1. \A i \in Ours(q)' : i \in Nat /\ i + 1 \in Ours(q) /\ air'[q][i] = air[q][i + 1]
      BY <2>2, TailOurs DEF LoseChunk
    <3>. QED BY <3>1
  <2>3. CASE q = p /\ Disconnect(p)
    <3>1. air'[q] = <<>>
      BY <2>3 DEF TypeOK, Disconnect
    <3>2. Ours(q)' = {}
      BY <3>1 DEF Ours
    <3>. QED BY <3>2
  <2>. QED BY <2>1, <2>2, <2>3 DEF TypeOK, LoseChunk, Disconnect, Reconnect
<1>. QED BY <1>1, <1>2, <1>4, ThinOrder

(* The next chunk of the message in progress joins the end of the line.    *)
LEMMA SendOrder ==
  ASSUME IInv, OrderInv, NEW p \in Peers, SendChunk(p)
  PROVE  OrderInv'
<1>. DEFINE c == ThisChunk(p)
            m == current[p]
<1>0. TypeOK /\ Sending /\ m # None /\ m \in Msgs /\ To[m] = p
  BY DEF IInv, SendChunk, TypeOK, Sending, InProgress
<1>1. c \in Chunks /\ c.msg = m /\ c.idx = next[m] /\ next[m] \in Nat
  BY <1>0, ThisChunkType DEF TypeOK
<1>2. Put(c) /\ Sent(p, c) /\ UNCHANGED <<todo, pending, refused, draining, up, receiverVars>>
  BY DEF SendChunk
<1>. HIDE DEF c
<1>3. /\ next'[m] = c.idx + 1 /\ \A x \in Msgs \ {m} : next'[x] = next[x]
      /\ \A q \in Peers : current'[q] = current[q] \/ current'[q] = None
  BY <1>0, <1>1, <1>2 DEF TypeOK, Sent
<1>4. \A x \in Msgs : next[x] # 0 => next'[x] # 0
  BY <1>1, <1>3
<1>5. Taken' = Taken /\ UNCHANGED <<started, asm, delivered, refused, draining>>
  BY <1>2 DEF Taken, receiverVars
<1>6. None \notin started /\ None \notin Msgs /\ started \subseteq Msgs
  BY <1>0, MessagesAssumption DEF TypeOK
<1>7. ASSUME NEW q \in Peers
      PROVE  Line(q)' /\ Clean(asm'[q], started')
  <2>. DEFINE n == Len(air[q]) + 1
  <2>0. air[q] \in Seq(Chunks) /\ n \in Nat
    BY <1>0 DEF TypeOK
  <2>1. \A i \in Ours(q) : i \in Nat /\ i < n /\ air[q][i].msg \in Msgs
    BY <2>0 DEF Ours, Chunks
  <2>2. \A i \in Ours(q)' : \/ i \in Ours(q) /\ air'[q][i] = air[q][i]
                            \/ i = n /\ q = p /\ air'[q][i] = c
    <3>1. CASE air'[q] = Append(air[q], c)
      <4>1. \A i \in 1..Len(air'[q]) : \/ i \in 1..Len(air[q]) /\ air'[q][i] = air[q][i]
                                       \/ i = n /\ air'[q][i] = c
        BY <1>1, <2>0, <3>1
      <4>. QED BY <1>0, <1>1, <4>1 DEF Ours
    <3>2. CASE air'[q] = air[q]
      BY <3>2 DEF Ours
    <3>. QED BY <1>2, <3>1, <3>2 DEF Put
  <2>. HIDE DEF n, m
  <2>3. Line(q) /\ Line(p) /\ Begun
    BY DEF OrderInv
  <2>4. next[m] = 0 => m \notin Taken /\ m \notin started
    BY <1>0, <2>3 DEF Begun
  <2>5. q = p => \A i \in Ours(q) : air[q][i].msg = m => next[m] # 0
    BY <2>3 DEF Line
  <2>6. q = p /\ m \in started => Owns(asm[q], m) /\ \A j \in Ours(q) : air[q][j].idx # 0
    BY <2>3 DEF Line, m
  <2>7. current'[q] \in Msgs => current'[q] = current[q]
    BY <1>3, <1>6
  <2>8. \A i \in Ours(q)' :
          /\ next'[air'[q][i].msg] # 0
          /\ air'[q][i].idx = 0 => air'[q][i].msg \notin Taken'
          /\ air'[q][i].msg \in started' => Owns(asm'[q], air'[q][i].msg)
    <3>. SUFFICES ASSUME NEW i \in Ours(q)'
                  PROVE  /\ next'[air'[q][i].msg] # 0
                         /\ air'[q][i].idx = 0 => air'[q][i].msg \notin Taken
                         /\ air'[q][i].msg \in started => Owns(asm[q], air'[q][i].msg)
      BY <1>5
    <3>1. CASE i \in Ours(q) /\ air'[q][i] = air[q][i]
      BY <1>4, <2>1, <2>3, <3>1 DEF Line
    <3>2. CASE q = p /\ air'[q][i] = c
      BY <1>1, <1>3, <2>4, <2>6, <3>2
    <3>. QED BY <2>2, <3>1, <3>2
  <2>9. \A i, j \in Ours(q)' :
          /\ i < j /\ air'[q][i].msg = air'[q][j].msg => air'[q][j].idx # 0
          /\ j <= i /\ air'[q][i].msg \in started' => air'[q][j].idx # 0
          /\ i < j /\ air'[q][i].idx = 0 /\ air'[q][i].msg = current'[q] => air'[q][j].idx # 0
    <3>. SUFFICES ASSUME NEW i \in Ours(q)', NEW j \in Ours(q)'
                  PROVE  /\ i < j /\ air'[q][i].msg = air'[q][j].msg => air'[q][j].idx # 0
                         /\ j <= i /\ air'[q][i].msg \in started => air'[q][j].idx # 0
                         /\ i < j /\ air'[q][i].idx = 0 /\ air'[q][i].msg = current'[q]
                              => air'[q][j].idx # 0
      BY <1>5
    <3>1. CASE i \in Ours(q) /\ air'[q][i] = air[q][i] /\ j \in Ours(q) /\ air'[q][j] = air[q][j]
      BY <2>1, <2>3, <2>7, <3>1 DEF Line
    <3>2. CASE i \in Ours(q) /\ air'[q][i] = air[q][i] /\ j = n /\ q = p /\ air'[q][j] = c
      <4>1. ~(j <= i) /\ air[q][i].msg \in Msgs
        BY <2>0, <2>1, <3>2
      <4>2. air[q][i].msg = current'[q] => air[q][i].msg = m
        BY <2>7, <3>2, <4>1 DEF m
      <4>. QED BY <1>1, <2>5, <3>2, <4>1, <4>2
    <3>3. CASE i = n /\ q = p /\ air'[q][i] = c /\ j \in Ours(q) /\ air'[q][j] = air[q][j]
      <4>1. ~(i < j)
        BY <2>0, <2>1, <3>3
      <4>. QED BY <1>1, <2>6, <3>3, <4>1
    <3>4. CASE i = n /\ j = n /\ q = p /\ air'[q][i] = c
      <4>1. ~(i < j)
        BY <2>0, <3>4
      <4>. QED BY <1>1, <2>4, <3>4, <4>1
    <3>. QED BY <2>2, <3>1, <3>2, <3>3, <3>4
  <2>10. \A i, j, k \in Ours(q)' :
          i < j /\ j < k /\ air'[q][i].idx = 0 /\ air'[q][i].msg = air'[q][k].msg
            => air'[q][j].idx # 0
    <3>. SUFFICES ASSUME NEW i \in Ours(q)', NEW j \in Ours(q)', NEW k \in Ours(q)',
                         i < j, j < k, air'[q][i].idx = 0, air'[q][i].msg = air'[q][k].msg
                  PROVE  air'[q][j].idx # 0
      OBVIOUS
    <3>0. \A x \in Ours(q)' : x \in Nat /\ x <= n
      BY <2>0, <2>1, <2>2
    <3>1. i \in Ours(q) /\ air'[q][i] = air[q][i] /\ j \in Ours(q) /\ air'[q][j] = air[q][j]
      <4>1. i # n /\ j # n
        BY <2>0, <3>0
      <4>. QED BY <2>2, <4>1
    <3>2. CASE k \in Ours(q) /\ air'[q][k] = air[q][k]
      BY <2>3, <3>1, <3>2 DEF Line
    <3>3. CASE k = n /\ q = p /\ air'[q][k] = c
      <4>1. air[q][i].msg = current[q]
        BY <1>1, <3>1, <3>3 DEF m
      <4>. QED BY <2>3, <3>1, <4>1 DEF Line
    <3>. QED BY <2>2, <3>2, <3>3
  <2>11. current'[q] \in started' =>
           Owns(asm'[q], current'[q]) /\ \A j \in Ours(q)' : air'[q][j].idx # 0
    <3>. SUFFICES ASSUME current'[q] \in started
                  PROVE  Owns(asm[q], current'[q]) /\ \A j \in Ours(q)' : air'[q][j].idx # 0
      BY <1>5
    <3>1. current'[q] = current[q] /\ Owns(asm[q], current[q])
          /\ \A j \in Ours(q) : air[q][j].idx # 0
      BY <1>6, <2>3, <2>7 DEF Line
    <3>2. q = p => c.idx # 0
      BY <1>1, <2>4, <3>1 DEF m
    <3>. QED BY <2>2, <3>1, <3>2
  <2>12. Line(q)'
    BY <2>8, <2>9, <2>10, <2>11 DEF Line
  <2>13. Clean(asm'[q], started')
    BY <1>5 DEF OrderInv, Clean
  <2>. QED BY <2>12, <2>13
<1>8. \A d \in delivered' : Clean(d.buf, started')
  BY <1>5 DEF OrderInv, Clean
<1>9. Begun'
  BY <1>4, <1>5 DEF OrderInv, Begun
<1>. QED BY <1>5, <1>7, <1>8, <1>9 DEF OrderInv
(* A receiver takes a chunk that is not for it off the air, or feeds it to *)
(* its buffer.                                                             *)
LEMMA SkipOrder ==
  ASSUME TypeOK, OrderInv, NEW p \in Peers, Hear(p), ~IsFor(p, Head(air[p]))
  PROVE  OrderInv'
<1>1. UNCHANGED <<next, current, refused, draining, asm, started, delivered>>
  BY DEF Hear, senderVars, receiverVars
<1>2. \A q \in Peers : \A i \in Ours(q) : i \in Nat /\ i = i + 0
  BY DEF Ours, TypeOK
<1>3. /\ \A i \in Ours(p)' : i \in Nat /\ i + 1 \in Ours(p) /\ air'[p][i] = air[p][i + 1]
      /\ \A q \in Peers \ {p} : air'[q] = air[q] /\ Ours(q)' = Ours(q)
  BY TailOurs DEF Hear
<1>4. \A q \in Peers : \E s \in Nat : \A i \in Ours(q)' :
        i \in Nat /\ i + s \in Ours(q) /\ air'[q][i] = air[q][i + s]
  <2>. TAKE q \in Peers
  <2>1. CASE q = p
    BY <1>3, <2>1
  <2>2. CASE q # p
    <3>1. \A i \in Ours(q)' : i \in Nat /\ i + 0 \in Ours(q) /\ air'[q][i] = air[q][i + 0]
      BY <1>2, <1>3, <2>2
    <3>. QED BY <3>1
  <2>. QED BY <2>1, <2>2
<1>. QED BY <1>1, <1>4, ThinOrder

(* What Feed leaves in a buffer: the chunk, and only behind one that was   *)
(* there already unless it is a first one.                                 *)
LEMMA FeedHolds ==
  ASSUME NEW buf \in Seq(Chunks), NEW c \in Chunks
  PROVE  /\ \A m : Holds(Feed(buf, c), m) => Holds(buf, m) \/ m = c.msg
         /\ Feed(buf, c) # <<>> =>
              IF c.idx = 0 THEN Feed(buf, c)[1].msg = c.msg
              ELSE buf # <<>> /\ Feed(buf, c)[1] = buf[1]
         /\ \A i \in 1..Len(Feed(buf, c)) : 
              Feed(buf, c)[i] = c \/ (Feed(buf, c)[i] = buf[i] /\ i \in 1..Len(buf))
<1>. DEFINE f == Feed(buf, c)
<1>1. CASE c.idx = 0
  <2>1. f = <<c>>
    BY <1>1 DEF Feed
  <2>2. Len(f) = 1 /\ f[1] = c /\ \A i \in 1..Len(f) : i = 1
    BY <2>1
  <2>. HIDE DEF f
  <2>3. \A m : Holds(f, m) => m = c.msg
    BY <2>2 DEF Holds
  <2>. QED BY <1>1, <2>2, <2>3 DEF f
<1>2. CASE c.idx # 0 /\ Continues(buf, c)
  <2>1. f = Append(buf, c) /\ buf # <<>>
    BY <1>2 DEF Feed, Continues
  <2>2. /\ Len(Append(buf, c)) = Len(buf) + 1 /\ Len(buf) \in Nat /\ Len(buf) # 0
        /\ \A i \in 1..Len(buf) : Append(buf, c)[i] = buf[i]
        /\ Append(buf, c)[Len(buf) + 1] = c
    BY <2>1
  <2>3. \A i \in 1..(Len(buf) + 1) : i = Len(buf) + 1 \/ i \in 1..Len(buf)
    BY <2>2
  <2>4. Append(buf, c)[1] = buf[1]
    BY <2>2
  <2>. HIDE DEF f
  <2>5. Len(f) = Len(buf) + 1 /\ f[1] = buf[1]
        /\ \A i \in 1..Len(f) : f[i] = c \/ (f[i] = buf[i] /\ i \in 1..Len(buf))
    BY <2>1, <2>2, <2>3, <2>4
  <2>6. \A m : Holds(f, m) => Holds(buf, m) \/ m = c.msg
    BY <2>5 DEF Holds
  <2>. QED BY <1>2, <2>1, <2>5, <2>6 DEF f
<1>3. CASE c.idx # 0 /\ ~Continues(buf, c)
  <2>1. Feed(buf, c) = <<>>
    BY <1>3 DEF Feed
  <2>. QED BY <2>1 DEF Holds
<1>. QED BY <1>1, <1>2, <1>3

LEMMA HearOrder ==
  ASSUME IInv, OrderInv, NEW p \in Peers, Hear(p), IsFor(p, Head(air[p]))
  PROVE  OrderInv'
<1>. DEFINE c == Head(air[p])
            buf == Feed(asm[p], c)
            whole == buf # <<>> /\ IsLast(c)
<1>0. /\ TypeOK /\ Sending /\ Addressed /\ air[p] # <<>>
      /\ air' = [air EXCEPT ![p] = Tail(@)]
      /\ UNCHANGED <<senderVars, up>>
  BY DEF IInv, Hear
<1>1. c \in Chunks /\ c.msg \in Msgs /\ c = air[p][1] /\ 1 \in 1..Len(air[p])
  BY <1>0 DEF TypeOK, Chunks
<1>2. To[c.msg] = p /\ 1 \in Ours(p)
  BY <1>0, <1>1 DEF IsFor, Addressed, Ours
<1>3. /\ \A i \in Ours(p)' : i \in Nat /\ i >= 1 /\ i + 1 \in Ours(p) /\ air'[p][i] = air[p][i + 1]
      /\ \A q \in Peers \ {p} : air'[q] = air[q] /\ Ours(q)' = Ours(q)
  BY <1>0, TailOurs
<1>4. /\ asm'[p] = IF whole THEN <<>> ELSE buf
      /\ \A q \in Peers \ {p} : asm'[q] = asm[q]
      /\ delivered' = IF whole THEN delivered \cup {[to |-> p, buf |-> buf]} ELSE delivered
      /\ started' = IF c.idx = 0 THEN started \cup {c.msg} ELSE started
  BY <1>0 DEF Hear, TypeOK
<1>5. /\ \A m : Holds(buf, m) => Holds(asm[p], m) \/ m = c.msg
      /\ buf # <<>> =>
           IF c.idx = 0 THEN buf[1].msg = c.msg ELSE asm[p] # <<>> /\ buf[1] = asm[p][1]
      /\ \A i \in 1..Len(buf) : buf[i] = c \/ (buf[i] = asm[p][i] /\ i \in 1..Len(asm[p]))
  <2>1. asm[p] \in Seq(Chunks)
    BY <1>0 DEF TypeOK
  <2>. QED BY <1>1, <2>1, FeedHolds
<1>6. /\ next[c.msg] # 0
      /\ c.idx = 0 => c.msg \notin Taken
      /\ c.msg \in started => Owns(asm[p], c.msg) /\ c.idx # 0
      /\ Line(p)
  <2>1. 1 <= 1
    OBVIOUS
  <2>. QED BY <1>1, <1>2, <2>1 DEF OrderInv, Line
<1>. HIDE DEF c, buf
<1>7. Taken' \subseteq Taken \cup {c.msg}
  <2>. SUFFICES ASSUME NEW m \in Taken', m # c.msg
                PROVE  m \in Taken
    OBVIOUS
  <2>0. ~Holds(<<>>, m)
    BY DEF Holds
  <2>1. CASE \E d \in delivered' : Holds(d.buf, m)
    BY <1>4, <1>5, <2>1 DEF Taken
  <2>2. CASE \E q \in Peers : Holds(asm'[q], m)
    BY <1>4, <1>5, <2>0, <2>2 DEF Taken
  <2>. QED BY <2>1, <2>2 DEF Taken
<1>8. Begun'
  BY <1>0, <1>4, <1>6, <1>7 DEF OrderInv, Begun, senderVars
<1>9. ASSUME NEW m \in Taken, m \notin started
      PROVE  m \notin started'
  BY <1>4, <1>6, <1>9
<1>10. ASSUME NEW b, Clean(b, started), \A m : Holds(b, m) => m \in Taken
       PROVE  Clean(b, started')
  BY <1>9, <1>10 DEF Clean, Holds
<1>11. /\ \A d \in delivered : Clean(d.buf, started')
       /\ \A q \in Peers : Clean(asm[q], started')
  <2>1. ASSUME NEW b, \/ \E d \in delivered : b = d.buf
                      \/ \E q \in Peers : b = asm[q]
        PROVE  \A m : Holds(b, m) => m \in Taken
    <3>. SUFFICES ASSUME NEW m, Holds(b, m)
                  PROVE  m \in Msgs
      BY <2>1 DEF Taken
    <3>1. b \in Seq(Chunks)
      BY <1>0, <2>1 DEF TypeOK
    <3>. QED BY <3>1 DEF Holds, Chunks
  <2>. QED BY <1>10, <2>1 DEF OrderInv
<1>12. Clean(buf, started')
  <2>. SUFFICES ASSUME NEW i \in 1..Len(buf), buf[i].msg # buf[1].msg
                PROVE  buf[i].msg \notin started'
    BY DEF Clean
  <2>1. buf # <<>>
    OBVIOUS
  <2>2. CASE c.idx = 0
    <3>1. i = 1 \/ i # 1
      OBVIOUS
    <3>2. buf = <<c>>
      BY <2>2 DEF buf, Feed
    <3>. QED BY <3>2
  <2>3. CASE c.idx # 0
    <3>1. asm[p] # <<>> /\ buf[1] = asm[p][1] /\ started' = started
      BY <1>4, <1>5, <2>1, <2>3
    <3>2. CASE buf[i] = c
      BY <1>6, <3>1, <3>2 DEF Owns
    <3>3. CASE buf[i] = asm[p][i] /\ i \in 1..Len(asm[p])
      BY <3>1, <3>3 DEF OrderInv, Clean
    <3>. QED BY <1>5, <3>2, <3>3
  <2>. QED BY <2>2, <2>3
<1>13. /\ \A d \in delivered' : Clean(d.buf, started')
       /\ \A q \in Peers : Clean(asm'[q], started')
  <2>1. Clean(<<>>, started')
    BY DEF Clean
  <2>2. \A d \in delivered' : d \in delivered \/ d.buf = buf
    BY <1>4
  <2>3. \A q \in Peers : asm'[q] \in {asm[q], buf, <<>>}
    BY <1>4
  <2>. QED BY <1>11, <1>12, <2>1, <2>2, <2>3
<1>14. ASSUME NEW q \in Peers \ {p}
       PROVE  Line(q)'
  <2>1. /\ air'[q] = air[q] /\ Ours(q)' = Ours(q) /\ asm'[q] = asm[q]
        /\ next' = next /\ current' = current
    BY <1>0, <1>3, <1>4 DEF senderVars
  <2>2. \A i \in Ours(q) : air[q][i].msg # c.msg
    BY <1>2 DEF Ours
  <2>3. current[q] # c.msg
    BY <1>1, <1>2, MessagesAssumption, <1>0 DEF Sending, InProgress
  <2>4. \A m : m # c.msg => (m \in started' => m \in started) /\ (m \in Taken' => m \in Taken)
    BY <1>4, <1>7
  <2>5. Line(q)
    BY DEF OrderInv
  <2>. QED BY <2>1, <2>2, <2>3, <2>4, <2>5 DEF Line
<1>15. Line(p)'
  <2>0. /\ next' = next /\ current' = current
        /\ \A i \in Ours(p)' : 1 < i + 1
        /\ \A i, j \in Ours(p)' : (i < j) = (i + 1 < j + 1) /\ (j <= i) = (j + 1 <= i + 1)
        /\ 1 <= 1
    BY <1>0, <1>3 DEF senderVars
  <2>1. \A m : m \in started /\ Owns(asm[p], m) /\ c.idx # 0 => Owns(asm'[p], m)
    BY <1>4, <1>5 DEF Owns
  <2>2. c.idx = 0 => Owns(asm'[p], c.msg)
    BY <1>4, <1>5 DEF Owns
  <2>3. \A i \in Ours(p) : air[p][i].msg \in started => c.idx # 0 /\ Owns(asm[p], air[p][i].msg)
    <3>. SUFFICES ASSUME NEW i \in Ours(p), air[p][i].msg \in started
                  PROVE  c.idx # 0 /\ Owns(asm[p], air[p][i].msg)
      OBVIOUS
    <3>1. 1 <= i
      BY DEF Ours
    <3>. QED BY <1>1, <1>2, <1>6, <3>1 DEF Line
  <2>4. \A i \in Ours(p)' :
          /\ next'[air'[p][i].msg] # 0
          /\ air'[p][i].idx = 0 => air'[p][i].msg \notin Taken'
          /\ air'[p][i].msg \in started' => Owns(asm'[p], air'[p][i].msg)
    <3>. SUFFICES ASSUME NEW i \in Ours(p)'
                  PROVE  /\ next[air'[p][i].msg] # 0
                         /\ air'[p][i].idx = 0 => air'[p][i].msg \notin Taken'
                         /\ air'[p][i].msg \in started' => Owns(asm'[p], air'[p][i].msg)
      BY <2>0
    <3>1. i + 1 \in Ours(p) /\ air'[p][i] = air[p][i + 1] /\ 1 < i + 1
      BY <1>3, <2>0
    <3>2. air'[p][i].msg = c.msg => air'[p][i].idx # 0
      BY <1>1, <1>2, <1>6, <3>1 DEF Line
    <3>3. air'[p][i].msg \in started' => Owns(asm'[p], air'[p][i].msg)
      BY <1>4, <2>1, <2>2, <2>3, <3>1
    <3>. QED BY <1>6, <1>7, <3>1, <3>2, <3>3 DEF Line
  <2>5. \A i, j \in Ours(p)' :
          /\ i < j /\ air'[p][i].msg = air'[p][j].msg => air'[p][j].idx # 0
          /\ j <= i /\ air'[p][i].msg \in started' => air'[p][j].idx # 0
          /\ i < j /\ air'[p][i].idx = 0 /\ air'[p][i].msg = current'[p] => air'[p][j].idx # 0
    <3>. SUFFICES ASSUME NEW i \in Ours(p)', NEW j \in Ours(p)'
                  PROVE  /\ i < j /\ air'[p][i].msg = air'[p][j].msg => air'[p][j].idx # 0
                         /\ j <= i /\ air'[p][i].msg \in started' => air'[p][j].idx # 0
                         /\ i < j /\ air'[p][i].idx = 0 /\ air'[p][i].msg = current[p]
                              => air'[p][j].idx # 0
      BY <2>0
    <3>1. /\ i + 1 \in Ours(p) /\ air'[p][i] = air[p][i + 1]
          /\ j + 1 \in Ours(p) /\ air'[p][j] = air[p][j + 1]
          /\ 1 < i + 1 /\ 1 < j + 1
          /\ (i < j) = (i + 1 < j + 1) /\ (j <= i) = (j + 1 <= i + 1)
      BY <1>3, <2>0
    <3>2. ASSUME j <= i, air'[p][i].msg \in started', air'[p][i].msg \notin started
          PROVE  air'[p][j].idx # 0
      <4>1. c.idx = 0 /\ air'[p][i].msg = c.msg
        BY <1>4, <3>2
      <4>2. CASE i = j
        BY <1>1, <1>2, <1>6, <3>1, <4>1, <4>2 DEF Line
      <4>3. CASE i # j
        <5>1. j + 1 < i + 1
          BY <1>3, <3>2, <4>3
        <5>. QED BY <1>1, <1>2, <1>6, <3>1, <4>1, <5>1 DEF Line
      <4>. QED BY <4>2, <4>3
    <3>. QED BY <1>6, <3>1, <3>2 DEF Line
  <2>6. \A i, j, k \in Ours(p)' :
          i < j /\ j < k /\ air'[p][i].idx = 0 /\ air'[p][i].msg = air'[p][k].msg
            => air'[p][j].idx # 0
    <3>. SUFFICES ASSUME NEW i \in Ours(p)', NEW j \in Ours(p)', NEW k \in Ours(p)',
                         i < j, j < k, air'[p][i].idx = 0, air'[p][i].msg = air'[p][k].msg
                  PROVE  air'[p][j].idx # 0
      OBVIOUS
    <3>1. /\ i + 1 \in Ours(p) /\ j + 1 \in Ours(p) /\ k + 1 \in Ours(p)
          /\ air'[p][i] = air[p][i + 1] /\ air'[p][j] = air[p][j + 1] /\ air'[p][k] = air[p][k + 1]
          /\ i + 1 < j + 1 /\ j + 1 < k + 1
      BY <1>3, <2>0
    <3>. QED BY <1>6, <3>1 DEF Line
  <2>7. current'[p] \in started' =>
          Owns(asm'[p], current'[p]) /\ \A j \in Ours(p)' : air'[p][j].idx # 0
    <3>. SUFFICES ASSUME current[p] \in started'
                  PROVE  Owns(asm'[p], current[p]) /\ \A j \in Ours(p)' : air'[p][j].idx # 0
      BY <2>0
    <3>1. CASE current[p] \in started
      <4>1. Owns(asm[p], current[p]) /\ \A j \in Ours(p) : air[p][j].idx # 0
        BY <1>6, <3>1 DEF Line
      <4>2. c.idx # 0
        BY <1>1, <1>2, <4>1
      <4>. QED BY <1>3, <2>1, <3>1, <4>1, <4>2
    <3>2. CASE current[p] \notin started
      <4>1. current[p] = c.msg /\ c.idx = 0
        BY <1>4, <3>2
      <4>2. \A j \in Ours(p)' : air'[p][j].idx # 0
        BY <1>1, <1>2, <1>3, <1>6, <2>0, <4>1 DEF Line
      <4>. QED BY <2>2, <4>1, <4>2
    <3>. QED BY <3>1, <3>2
  <2>. QED BY <2>4, <2>5, <2>6, <2>7 DEF Line
<1>16. ~refused' /\ ~draining'
  BY <1>0 DEF OrderInv, senderVars
<1>. QED BY <1>8, <1>13, <1>14, <1>15, <1>16 DEF OrderInv

(* A message is begun: nobody has heard of it.                             *)
LEMMA BeginOrder ==
  ASSUME IInv, OrderInv, NEW m \in Msgs, Begin(m)
  PROVE  OrderInv'
<1>1. /\ UNCHANGED <<next, refused, draining, air, asm, started, delivered>>
      /\ \A q \in Peers : current'[q] = current[q] \/ current'[q] = m
      /\ next[m] = 0
  BY DEF IInv, TypeOK, Sending, Begin, receiverVars
<1>2. Taken' = Taken /\ \A q \in Peers : Ours(q)' = Ours(q)
  BY <1>1 DEF Taken, Ours
<1>3. m \notin started
  BY <1>1 DEF OrderInv, Begun
<1>4. ASSUME NEW q \in Peers
      PROVE  Line(q)'
  <2>1. Line(q)
    BY DEF OrderInv
  <2>2. \A i \in Ours(q) : air[q][i].msg # m
    BY <1>1, <2>1 DEF Line
  <2>. QED BY <1>1, <1>2, <1>3, <2>1, <2>2 DEF Line
<1>. QED BY <1>1, <1>2, <1>4 DEF OrderInv, Begun

LEMMA StepOrder == ASSUME ~Queues, IInv, OrderInv, [Next]_vars PROVE OrderInv'
<1>1. CASE UNCHANGED vars
  BY <1>1 DEF vars, senderVars, receiverVars, OrderInv, Line, Ours, Taken, Begun
<1>2. \A p \in Peers : ~NotifyChunk(p) /\ ~QueueRest(p)
  BY DEF NotifyChunk, QueueRest
<1>3. ~Ready /\ ~DrainChunk /\ ~DrainEnds
  BY DEF OrderInv, Ready, DrainChunk, DrainEnds
<1>4. TypeOK
  BY DEF IInv
<1>. QED BY <1>1, <1>2, <1>3, <1>4, BeginOrder, SendOrder, SkipOrder, HearOrder, RadioOrder DEF Next

(* Where chunks are not queued (all but a Mac's notifications), a message  *)
(* whose first chunk arrived takes no bytes of an older one, whatever the  *)
(* radio loses and however connections break.                              *)
THEOREM StaleBytesStayOut == ASSUME ~(Serial /\ Path = "notify") PROVE Spec => []StaleStaysOut
<1>0. ~Queues
  BY DEF Queues
<1>1. Init => OrderInv
  <2>. SUFFICES ASSUME Init
                PROVE  OrderInv
    OBVIOUS
  <2>1. ~refused /\ ~draining /\ started = {} /\ delivered = {}
        /\ \A p \in Peers : air[p] = <<>> /\ asm[p] = <<>>
    BY DEF Init
  <2>2. Taken = {} /\ \A p \in Peers : Ours(p) = {}
    BY <2>1 DEF Taken, Holds, Ours
  <2>. QED BY <2>1, <2>2 DEF OrderInv, Line, Clean, Begun
<1>2. IInv /\ OrderInv => StaleStaysOut
  <2>. SUFFICES ASSUME IInv, OrderInv, NEW d \in delivered, NEW i \in DOMAIN d.buf,
                       d.buf[i].msg # d.buf[1].msg
                PROVE  d.buf[i].msg \notin started
    BY DEF StaleStaysOut
  <2>1. i \in 1..Len(d.buf)
    BY DEF IInv, Whole, Run
  <2>. QED BY <2>1 DEF OrderInv, Clean
<1>3. IInv /\ OrderInv /\ [Next]_vars => OrderInv'
  BY <1>0, StepOrder
<1>. QED BY <1>1, <1>2, <1>3, Invariance, PTL DEF Spec
===========================================================================
