------------------------- MODULE ConnectTableProofs -------------------------
(***************************************************************************)
(* Theorems about ConnectTable for any addresses, sessions, goroutines and *)
(* senders, on either build.                                               *)
(***************************************************************************)
EXTENDS ConnectTable, FiniteSetTheorems, TLAPS

---------------------------------------------------------------------------
(* Type correctness.                                                       *)
LEMMA CleanupType ==
  ASSUME TypeOK, NEW a \in Addrs, NEW known \in BOOLEAN, Cleanup(a, known)
  PROVE  /\ connecting' \subseteq Addrs
         /\ chars' \in [Addrs \cup Sessions -> Addrs \cup {None, "pending"}]
BY DEF TypeOK, Cleanup

LEMMA BeginType ==
  ASSUME TypeOK, NEW w \in Workers, NEW a \in Addrs, Begin(w, a)
  PROVE  TypeOK'
<1>1. chars' \in [Addrs \cup Sessions -> Addrs \cup {None, "pending"}]
      /\ connecting' \subseteq Addrs /\ cand' \subseteq Addrs
  BY DEF TypeOK, Begin
<1>2. at' \in [Workers -> {"idle", "connect", "discover", "subscribe"}]
      /\ addr' \in [Workers -> Addrs \cup {None}]
  BY DEF TypeOK, Begin, Start
<1>. QED BY <1>1, <1>2 DEF TypeOK, Begin, sendVars

(* A goroutine that connects has an address.                               *)
Placed == \A w \in Workers : at[w] # "idle" => addr[w] \in Addrs

LEMMA AttemptType ==
  ASSUME TypeOK, Placed, NEW w \in Workers, Connect(w) \/ Discover(w) \/ Subscribe(w)
  PROVE  TypeOK'
<1>. DEFINE a == addr[w]
<1>1. a \in Addrs /\ Key(a) \in Addrs \cup Sessions
  <2>1. a \in Addrs
    BY DEF Placed, Connect, Discover, Subscribe
  <2>. QED BY <2>1, KeysAssumption DEF Key
<1>2. at' \in [Workers -> {"idle", "connect", "discover", "subscribe"}]
      /\ addr' \in [Workers -> Addrs \cup {None}]
  BY DEF TypeOK, Connect, Discover, Subscribe, Goto, Finish
<1>3. link' \in [Addrs -> {"off", "up", "subscribed"}]
  BY <1>1 DEF TypeOK, Connect, Discover, Subscribe, SetLink
<1>4. chars' \in [Addrs \cup Sessions -> Addrs \cup {None, "pending"}] /\ connecting' \subseteq Addrs
  BY <1>1, CleanupType DEF TypeOK, Connect, Discover, Subscribe, Key
<1>5. attached' \subseteq Addrs \cup Sessions
  <2>1. attached' \subseteq attached \cup {Key(a)}
    BY DEF Connect, Discover, Subscribe
  <2>. QED BY <1>1, <2>1 DEF TypeOK
<1>6. backoff' \subseteq Addrs
  BY <1>1 DEF TypeOK, Connect, Discover, Subscribe, loopVars
<1>7. UNCHANGED <<build, phase, cand, lost, send, dest, suppress, calm>>
  BY DEF Connect, Discover, Subscribe, loopVars, sendVars
<1>. QED BY <1>2, <1>3, <1>4, <1>5, <1>6, <1>7 DEF TypeOK

LEMMA SendType ==
  ASSUME TypeOK, NEW n \in Senders, LookupSend(n) \/ WriteChunk(n) \/ Suppress(n) \/ Echo(n)
  PROVE  TypeOK'
<1>1. send' \in [Senders -> {"idle", "write", "notify", "echo"}]
  BY DEF TypeOK, LookupSend, WriteChunk, Suppress, Echo, EndSend
<1>2. dest' \in [Senders -> Addrs \cup {None, "pending"}]
  BY DEF TypeOK, LookupSend, WriteChunk, Suppress, Echo, EndSend
<1>3. suppress' \in Nat
  BY DEF TypeOK, LookupSend, WriteChunk, Suppress, Echo
<1>4. UNCHANGED <<build, loopVars, connVars, calm>>
  BY DEF LookupSend, WriteChunk, Suppress, Echo
<1>. QED BY <1>1, <1>2, <1>3, <1>4 DEF TypeOK, loopVars, connVars

LEMMA StepType == TypeOK /\ Placed /\ [Next]_vars => TypeOK'
<1>. SUFFICES ASSUME TypeOK, Placed, [Next]_vars
              PROVE  TypeOK'
  OBVIOUS
<1>1. CASE Scan \/ NextWindow \/ Calm
  BY <1>1 DEF TypeOK, Scan, NextWindow, Calm, loopVars, connVars, sendVars
<1>2. ASSUME NEW a \in Addrs, Expire(a) \/ Skip(a)
      PROVE  TypeOK'
  BY <1>2 DEF TypeOK, Expire, Skip, connVars, sendVars
<1>3. ASSUME NEW a \in Addrs, Lose(a)
      PROVE  TypeOK'
  BY <1>3 DEF TypeOK, Lose, SetLink, loopVars, sendVars
<1>4. ASSUME NEW a \in Addrs, Notified(a)
      PROVE  TypeOK'
  BY <1>4, KeysAssumption DEF TypeOK, Notified, Key, loopVars, sendVars
<1>5. ASSUME NEW s \in Sessions, Written(s)
      PROVE  TypeOK'
  BY <1>5 DEF TypeOK, Written, loopVars
<1>6. CASE UNCHANGED vars
  BY <1>6 DEF TypeOK, vars, loopVars, connVars, sendVars
<1>. QED BY <1>1, <1>2, <1>3, <1>4, <1>5, <1>6, BeginType, AttemptType, SendType DEF Next

---------------------------------------------------------------------------
(* Marks. A goroutine that connects has marked its address, no other has   *)
(* the same one, and a mark is never left alone.                           *)
Owned == \A w \in Workers : at[w] # "idle" => addr[w] \in Addrs /\ Marked(addr[w])
Marks == Owned /\ OneConnector /\ NoMarkLeft

LEMMA CleanupMarks ==
  ASSUME TypeOK, NEW a \in Addrs, NEW known \in BOOLEAN, Cleanup(a, known), build' = build
  PROVE  ~Marked(a)' /\ \A b \in Addrs \ {a} : Marked(b)' <=> Marked(b)
BY KeysAssumption DEF TypeOK, Cleanup, Marked, Windows, Key

LEMMA BeginMarks ==
  ASSUME TypeOK, Marks, NEW w \in Workers, NEW a \in Addrs, Begin(w, a)
  PROVE  Marks'
<1>1. Marked(a)' /\ \A b \in Addrs \ {a} : Marked(b)' <=> Marked(b)
  BY KeysAssumption DEF TypeOK, Begin, Marked, Windows
<1>2. at' = [at EXCEPT ![w] = "connect"] /\ addr' = [addr EXCEPT ![w] = a]
      /\ UNCHANGED <<link, lost>>
  BY DEF Begin, Start
<1>3. \A v \in Workers : at[v] # "idle" => addr[v] # a
  BY DEF Marks, Owned, Begin
<1>4. Owned' /\ OneConnector'
  BY <1>1, <1>2, <1>3 DEF TypeOK, Marks, Owned, OneConnector
<1>5. NoMarkLeft'
  <2>1. at'[w] # "idle" /\ addr'[w] = a /\ \A v \in Workers \ {w} : at'[v] = at[v] /\ addr'[v] = addr[v]
    BY <1>2 DEF TypeOK
  <2>2. at[w] = "idle"
    BY DEF Begin
  <2>. QED BY <1>1, <1>2, <2>1, <2>2 DEF Marks, NoMarkLeft
<1>. QED BY <1>4, <1>5 DEF Marks

(* A step of goroutine w either goes on with its address, and changes no   *)
(* mark, or ends, with the address subscribed or the mark gone.            *)
GoesOn(w) ==
  /\ at'[w] # "idle" /\ addr' = addr
  /\ \A b \in Addrs : Marked(b)' <=> Marked(b)
Ends(w) ==
  /\ at'[w] = "idle"
  /\ \A b \in Addrs : Marked(b)' => \/ b # addr[w] /\ Marked(b)
                                    \/ b = addr[w] /\ link'[b] = "subscribed"
  /\ \A b \in Addrs : Marked(b) => b = addr[w] \/ Marked(b)'

LEMMA AttemptEffect ==
  ASSUME TypeOK, Marks, NEW w \in Workers, Connect(w) \/ Discover(w) \/ Subscribe(w)
  PROVE  /\ GoesOn(w) \/ Ends(w)
         /\ \A v \in Workers \ {w} : at'[v] = at[v] /\ addr'[v] = addr[v]
         /\ \A b \in Addrs \ {addr[w]} : link'[b] = link[b]
         /\ at[w] # "idle" /\ lost' = lost /\ build' = build
<1>. DEFINE a == addr[w]
<1>1. a \in Addrs /\ at[w] # "idle" /\ Marked(a) /\ lost' = lost /\ build' = build
  BY DEF Marks, Owned, Connect, Discover, Subscribe, loopVars
<1>2. \A v \in Workers \ {w} : at'[v] = at[v] /\ addr'[v] = addr[v]
  BY DEF TypeOK, Connect, Discover, Subscribe, Goto, Finish
<1>3. \A b \in Addrs \ {a} : link'[b] = link[b]
  BY DEF TypeOK, Connect, Discover, Subscribe, SetLink
<1>4. ASSUME NEW known \in BOOLEAN, Cleanup(a, known), Finish(w)
      PROVE  Ends(w)
  <2>1. at'[w] = "idle"
    BY <1>4 DEF TypeOK, Finish
  <2>2. \A b \in Addrs : Marked(b)' => b # a /\ Marked(b)
    BY <1>1, <1>4, CleanupMarks
  <2>3. \A b \in Addrs : Marked(b) => b = a \/ Marked(b)'
    BY <1>1, <1>4, CleanupMarks
  <2>. QED BY <2>1, <2>2, <2>3 DEF Ends
<1>5. ASSUME NEW l \in {"discover", "subscribe"}, Goto(w, l), \A b \in Addrs : Marked(b)' <=> Marked(b)
      PROVE  GoesOn(w)
  <2>1. at'[w] = l /\ addr' = addr
    BY <1>5 DEF TypeOK, Goto
  <2>. QED BY <1>5, <2>1 DEF GoesOn
<1>6. ASSUME Connect(w)
      PROVE  GoesOn(w) \/ Ends(w)
  <2>1. CASE Goto(w, "discover") /\ UNCHANGED <<connecting, chars>>
    <3>1. \A b \in Addrs : Marked(b)' <=> Marked(b)
      BY <1>1, <2>1 DEF Marked, Windows
    <3>. QED BY <1>5, <2>1, <3>1
  <2>2. CASE Cleanup(a, FALSE) /\ Finish(w)
    BY <1>4, <2>2
  <2>. QED BY <1>6, <2>1, <2>2 DEF Connect
<1>7. ASSUME Discover(w)
      PROVE  GoesOn(w) \/ Ends(w)
  <2>1. CASE Goto(w, "subscribe") /\ chars' = [chars EXCEPT ![Key(a)] = a] /\ UNCHANGED connecting
    <3>1. \A b \in Addrs : Marked(b)' <=> Marked(b)
      BY <1>1, <2>1, KeysAssumption DEF TypeOK, Marked, Windows, Key
    <3>. QED BY <1>5, <2>1, <3>1
  <2>2. CASE \E known \in BOOLEAN : Cleanup(a, known) /\ Finish(w)
    BY <1>4, <2>2
  <2>. QED BY <1>7, <2>1, <2>2 DEF Discover
<1>8. ASSUME Subscribe(w)
      PROVE  GoesOn(w) \/ Ends(w)
  <2>1. CASE SetLink(a, "subscribed") /\ UNCHANGED <<connecting, chars>>
    <3>1. at'[w] = "idle" /\ link'[a] = "subscribed"
      BY <1>1, <1>8, <2>1 DEF TypeOK, Subscribe, Finish, SetLink
    <3>2. \A b \in Addrs : Marked(b)' <=> Marked(b)
      BY <1>1, <2>1 DEF Marked, Windows
    <3>. QED BY <3>1, <3>2 DEF Ends
  <2>2. CASE Cleanup(a, TRUE) /\ Finish(w)
    BY <1>4, <2>2
  <2>. QED BY <1>8, <2>1, <2>2 DEF Subscribe
<1>. QED BY <1>1, <1>2, <1>3, <1>6, <1>7, <1>8

LEMMA AttemptMarks ==
  ASSUME TypeOK, Marks, NEW w \in Workers, Connect(w) \/ Discover(w) \/ Subscribe(w)
  PROVE  Marks'
<1>1. /\ GoesOn(w) \/ Ends(w)
      /\ \A v \in Workers \ {w} : at'[v] = at[v] /\ addr'[v] = addr[v]
      /\ \A b \in Addrs \ {addr[w]} : link'[b] = link[b]
      /\ at[w] # "idle" /\ lost' = lost
  BY AttemptEffect
<1>2. addr[w] \in Addrs /\ \A v \in Workers \ {w} : at[v] # "idle" => addr[v] # addr[w]
  BY <1>1 DEF Marks, Owned, OneConnector
<1>3. CASE GoesOn(w)
  <2>1. \A v \in Workers : (at'[v] # "idle" <=> at[v] # "idle") /\ addr'[v] = addr[v]
    BY <1>1, <1>3 DEF GoesOn
  <2>2. Owned' /\ OneConnector'
    BY <1>3, <2>1 DEF Marks, Owned, OneConnector, GoesOn
  <2>3. ASSUME NEW b \in Addrs, Marked(b)'
        PROVE  \/ \E v \in Workers : at'[v] # "idle" /\ addr'[v] = b
               \/ link'[b] = "subscribed" \/ b \in lost'
    <3>1. CASE b = addr[w]
      BY <1>1, <2>1, <3>1
    <3>2. CASE b # addr[w]
      BY <1>1, <1>3, <2>1, <2>3, <3>2 DEF Marks, NoMarkLeft, GoesOn
    <3>. QED BY <3>1, <3>2
  <2>4. NoMarkLeft'
    BY <2>3 DEF NoMarkLeft
  <2>. QED BY <2>2, <2>4 DEF Marks
<1>4. CASE Ends(w)
  <2>1. \A v \in Workers : at'[v] # "idle" => v # w /\ at[v] # "idle" /\ addr'[v] = addr[v]
    BY <1>1, <1>4 DEF Ends
  <2>2. Owned' /\ OneConnector'
    BY <1>2, <1>4, <2>1 DEF Marks, Owned, OneConnector, Ends
  <2>3. ASSUME NEW b \in Addrs, Marked(b)'
        PROVE  \/ \E v \in Workers : at'[v] # "idle" /\ addr'[v] = b
               \/ link'[b] = "subscribed" \/ b \in lost'
    <3>1. CASE b = addr[w]
      BY <1>4, <2>3, <3>1 DEF Ends
    <3>2. CASE b # addr[w]
      <4>1. \/ \E v \in Workers : at[v] # "idle" /\ addr[v] = b
            \/ link[b] = "subscribed" \/ b \in lost
        BY <1>4, <2>3, <3>2 DEF Marks, NoMarkLeft, Ends
      <4>. QED BY <1>1, <3>2, <4>1
    <3>. QED BY <3>1, <3>2
  <2>4. NoMarkLeft'
    BY <2>3 DEF NoMarkLeft
  <2>. QED BY <2>2, <2>4 DEF Marks
<1>. QED BY <1>1, <1>3, <1>4

LEMMA StepMarks == TypeOK /\ Marks /\ [Next]_vars => Marks'
<1>. SUFFICES ASSUME TypeOK, Marks, [Next]_vars
              PROVE  Marks'
  OBVIOUS
<1>1. CASE UNCHANGED <<build, connecting, chars, link, lost, at, addr>>
  BY <1>1 DEF Marks, Owned, OneConnector, NoMarkLeft, Marked, Windows
<1>2. ASSUME NEW a \in Addrs, Lose(a)
      PROVE  Marks'
  <2>1. lost' = lost \cup {a} /\ (\A b \in Addrs \ {a} : link'[b] = link[b])
        /\ UNCHANGED <<build, connecting, chars, at, addr>>
    BY <1>2 DEF TypeOK, Lose, SetLink
  <2>2. Owned' /\ OneConnector'
    BY <2>1 DEF Marks, Owned, OneConnector, Marked, Windows
  <2>3. NoMarkLeft'
    BY <2>1 DEF Marks, NoMarkLeft, Marked, Windows
  <2>. QED BY <2>2, <2>3 DEF Marks
<1>3. \/ UNCHANGED <<build, connecting, chars, link, lost, at, addr>>
      \/ \E a \in Addrs : Lose(a) \/ \E w \in Workers : Begin(w, a)
      \/ \E w \in Workers : Connect(w) \/ Discover(w) \/ Subscribe(w)
  BY DEF Next, vars, connVars, Scan, NextWindow, Calm, Expire, Skip, Notified, Written, LookupSend,
         WriteChunk, Suppress, Echo
<1>. QED BY <1>1, <1>2, <1>3, BeginMarks, AttemptMarks

Basic == TypeOK /\ Marks
LEMMA StepBasic == Basic /\ [Next]_vars => Basic'
<1>1. Marks => Placed
  BY DEF Marks, Owned, Placed
<1>. QED BY <1>1, StepType, StepMarks DEF Basic

LEMMA AlwaysBasic == Spec => []Basic
<1>1. Init => TypeOK
  <2>. SUFFICES ASSUME Init
                PROVE  TypeOK
    OBVIOUS
  <2>1. /\ build \in {"windows", "linux"} /\ phase \in {"scan", "connect"} /\ calm \in BOOLEAN
        /\ cand \subseteq Addrs /\ backoff \subseteq Addrs /\ connecting \subseteq Addrs
        /\ lost \subseteq Addrs /\ attached \subseteq Addrs \cup Sessions
    BY DEF Init
  <2>2. /\ chars \in [Addrs \cup Sessions -> Addrs \cup {None, "pending"}]
        /\ link \in [Addrs -> {"off", "up", "subscribed"}]
    BY DEF Init
  <2>3. /\ at \in [Workers -> {"idle", "connect", "discover", "subscribe"}]
        /\ addr \in [Workers -> Addrs \cup {None}]
    BY DEF Init
  <2>4. /\ send \in [Senders -> {"idle", "write", "notify", "echo"}]
        /\ dest \in [Senders -> Addrs \cup {None, "pending"}]
    BY DEF Init
  <2>5. suppress \in Nat
    BY DEF Init
  <2>. QED BY <2>1, <2>2, <2>3, <2>4, <2>5 DEF TypeOK
<1>2. Init => Marks
  <2>1. Init => \A a \in Addrs : ~Marked(a)
    BY DEF Init, Marked, Windows
  <2>2. Init => \A w \in Workers : at[w] = "idle"
    BY DEF Init
  <2>. QED BY <2>1, <2>2 DEF Marks, Owned, OneConnector, NoMarkLeft
<1>. QED BY <1>1, <1>2, StepBasic, PTL DEF Spec, Basic

(* Every variable keeps its type.                                          *)
THEOREM TypeCorrect == Spec => []TypeOK
<1>1. Basic => TypeOK
  BY DEF Basic
<1>. QED BY <1>1, AlwaysBasic, PTL

(* However many advertisements of an address come in at once, one          *)
(* goroutine at most connects to it.                                       *)
THEOREM ConnectsOnce == Spec => []OneConnector
<1>1. Basic => OneConnector
  BY DEF Basic, Marks
<1>. QED BY <1>1, AlwaysBasic, PTL

(* No failure leaves a mark that would keep an address from being tried.   *)
THEOREM MarksEnd == Spec => []NoMarkLeft
<1>1. Basic => NoMarkLeft
  BY DEF Basic, Marks
<1>. QED BY <1>1, AlwaysBasic, PTL

---------------------------------------------------------------------------
(* The Windows loop: one address at a time, none of those still to come,   *)
(* and neither it nor they are in back-off. Linux has no back-off.         *)
Loop ==
  /\ ~Windows => backoff = {}
  /\ Windows =>
       /\ \A v, w \in Workers : at[v] # "idle" /\ at[w] # "idle" => v = w
       /\ \A w \in Workers : at[w] # "idle" => phase = "connect" /\ addr[w] \notin cand
       /\ cand \cap backoff = {}
  /\ BackoffKept

LEMMA StepLoop == Basic /\ Loop /\ [Next]_vars => Loop'
<1>. SUFFICES ASSUME TypeOK, Placed, Loop, [Next]_vars
              PROVE  Loop'
  BY DEF Basic, Marks, Owned, Placed
<1>1. CASE UNCHANGED <<build, loopVars, at, addr>>
  BY <1>1 DEF Loop, BackoffKept, Windows, loopVars
<1>2. CASE Scan
  <2>1. /\ Windows /\ phase = "scan" /\ phase' = "connect"
        /\ cand' \subseteq Addrs \ backoff /\ UNCHANGED <<build, backoff, at, addr>>
    BY <1>2 DEF Scan, connVars
  <2>. QED BY <2>1 DEF Loop, BackoffKept, Windows
<1>3. CASE NextWindow
  <2>1. AllIdle /\ UNCHANGED <<build, cand, backoff, at, addr>>
    BY <1>3 DEF NextWindow, connVars
  <2>. QED BY <2>1 DEF Loop, BackoffKept, Windows, AllIdle
<1>4. ASSUME NEW a \in Addrs, Expire(a) \/ Skip(a)
      PROVE  Loop'
  <2>1. /\ cand' \subseteq cand /\ backoff' \subseteq backoff
        /\ UNCHANGED <<build, phase, at, addr>>
    BY <1>4 DEF Expire, Skip, connVars
  <2>. QED BY <2>1 DEF Loop, BackoffKept, Windows
<1>5. ASSUME NEW w \in Workers, NEW a \in Addrs, Begin(w, a)
      PROVE  Loop'
  <2>1. /\ at[w] = "idle" /\ at'[w] = "connect" /\ addr'[w] = a
        /\ \A v \in Workers \ {w} : at'[v] = at[v] /\ addr'[v] = addr[v]
        /\ UNCHANGED <<build, phase, backoff>>
    BY <1>5 DEF TypeOK, Begin, Start
  <2>2. CASE Windows
    <3>1. phase = "connect" /\ AllIdle /\ a \in cand /\ cand' = cand \ {a}
      BY <1>5, <2>2 DEF Begin
    <3>. QED BY <2>1, <2>2, <3>1 DEF Loop, BackoffKept, Windows, AllIdle
  <2>3. CASE ~Windows
    BY <2>1, <2>3 DEF Loop, BackoffKept, Windows
  <2>. QED BY <2>2, <2>3
<1>6. ASSUME NEW w \in Workers, Connect(w) \/ Discover(w) \/ Subscribe(w)
      PROVE  Loop'
  <2>1. /\ at[w] # "idle" /\ at'[w] # "connect" /\ UNCHANGED <<build, phase, cand>>
        /\ at'[w] # "idle" => addr'[w] = addr[w]
        /\ \A v \in Workers \ {w} : at'[v] = at[v] /\ addr'[v] = addr[v]
    BY <1>6 DEF TypeOK, Connect, Discover, Subscribe, Goto, Finish, loopVars
  <2>2. backoff' \subseteq backoff \cup (IF Windows THEN {addr[w]} ELSE {})
    BY <1>6 DEF Connect, Discover, Subscribe, loopVars
  <2>3. CASE Windows
    <3>1. \A v \in Workers \ {w} : at'[v] = "idle"
      BY <2>1, <2>3 DEF TypeOK, Loop
    <3>2. cand' \cap backoff' = {}
      BY <2>1, <2>2, <2>3 DEF Loop
    <3>. QED BY <2>1, <2>3, <3>1, <3>2 DEF Loop, BackoffKept, Windows
  <2>4. CASE ~Windows
    BY <2>1, <2>2, <2>4 DEF Loop, BackoffKept, Windows
  <2>. QED BY <2>3, <2>4
<1>7. \/ UNCHANGED <<build, loopVars, at, addr>> \/ Scan \/ NextWindow
      \/ \E a \in Addrs : Expire(a) \/ Skip(a) \/ \E w \in Workers : Begin(w, a)
      \/ \E w \in Workers : Connect(w) \/ Discover(w) \/ Subscribe(w)
  BY DEF Next, vars, connVars, Calm, Lose, Notified, Written, LookupSend, WriteChunk, Suppress, Echo
<1>. QED BY <1>1, <1>2, <1>3, <1>4, <1>5, <1>6, <1>7

(* No address is tried while it is in back-off.                            *)
THEOREM KeepsBackoff == Spec => []BackoffKept
<1>1. Init => Loop
  BY DEF Init, Loop, BackoffKept, Windows
<1>2. Loop => BackoffKept
  BY DEF Loop
<1>. QED BY <1>1, <1>2, StepLoop, AlwaysBasic, PTL DEF Spec

---------------------------------------------------------------------------
(* Entries. A Linux peer that data came from, or may come from, has its    *)
(* characteristic and is not being connected to; Windows keeps no sentinel. *)
Entries ==
  /\ Windows => \A k \in Addrs \cup Sessions : chars[k] # "pending"
  /\ ~Windows =>
       /\ attached \subseteq Addrs
       /\ \A w \in Workers : at[w] = "subscribe" => chars[addr[w]] = addr[w]
       /\ \A a \in Addrs : link[a] = "subscribed" \/ a \in lost \/ a \in attached =>
            chars[a] = a /\ \A w \in Workers : at[w] # "idle" => addr[w] # a
  /\ NoSendToSentinel

LEMMA AttemptEntries ==
  ASSUME Basic, Entries, NEW w \in Workers, Connect(w) \/ Discover(w) \/ Subscribe(w)
  PROVE  Entries'
<1>. DEFINE a == addr[w]
<1>1. /\ a \in Addrs /\ at[w] # "idle" /\ lost' = lost /\ build' = build /\ UNCHANGED dest
      /\ \A v \in Workers \ {w} : at[v] # "idle" => addr[v] # a
  BY DEF Basic, Marks, Owned, OneConnector, Connect, Discover, Subscribe, loopVars, sendVars
<1>2. \A v \in Workers \ {w} : at'[v] = at[v] /\ addr'[v] = addr[v]
  BY DEF Basic, TypeOK, Connect, Discover, Subscribe, Goto, Finish
<1>3. at'[w] # "idle" => addr'[w] = a
  BY DEF Basic, TypeOK, Connect, Discover, Subscribe, Goto, Finish
<1>4. \A b \in Addrs \ {a} : link'[b] = link[b]
  BY DEF Basic, TypeOK, Connect, Discover, Subscribe, SetLink
<1>5. CASE Windows
  <2>1. \A k \in Addrs \cup Sessions : chars'[k] \in {chars[k], None, a}
    BY <1>1 DEF Basic, TypeOK, Connect, Discover, Subscribe, Cleanup
  <2>2. a # "pending" /\ None # "pending"
    BY <1>1, KeysAssumption
  <2>. QED BY <1>1, <1>5, <2>1, <2>2 DEF Entries, NoSendToSentinel, Windows
<1>6. CASE ~Windows
  <2>1. /\ \A b \in Addrs \ {a} : chars'[b] = chars[b]
        /\ attached' = attached
    BY <1>1, <1>6 DEF Basic, TypeOK, Connect, Discover, Subscribe, Cleanup, Key
  <2>2. link[a] # "subscribed" /\ a \notin lost /\ a \notin attached
    BY <1>1, <1>6 DEF Entries
  <2>3. at'[w] = "subscribe" => chars'[a] = a
    BY <1>1, <1>6 DEF Basic, TypeOK, Connect, Discover, Subscribe, Goto, Finish, Key
  <2>4. link'[a] = "subscribed" => at'[w] = "idle" /\ chars'[a] = a
    <3>1. CASE Connect(w) \/ Discover(w)
      BY <1>1, <2>2, <3>1 DEF Basic, TypeOK, Connect, Discover, SetLink
    <3>2. CASE Subscribe(w)
      <4>1. at[w] = "subscribe" /\ chars[a] = a /\ at'[w] = "idle"
        BY <1>6, <3>2 DEF Basic, TypeOK, Entries, Subscribe, Finish
      <4>. QED BY <1>1, <2>2, <3>2, <4>1 DEF Basic, TypeOK, Subscribe, SetLink
    <3>. QED BY <3>1, <3>2
  <2>5. \A v \in Workers : at'[v] = "subscribe" => chars'[addr'[v]] = addr'[v]
    <3>. SUFFICES ASSUME NEW v \in Workers, at'[v] = "subscribe"
                  PROVE  chars'[addr'[v]] = addr'[v]
      OBVIOUS
    <3>1. CASE v = w
      BY <1>3, <2>3, <3>1
    <3>2. CASE v # w
      <4>1. addr[v] \in Addrs \ {a} /\ chars[addr[v]] = addr[v]
        BY <1>1, <1>2, <1>6, <3>2 DEF Basic, Marks, Owned, Entries
      <4>. QED BY <1>2, <2>1, <3>2, <4>1
    <3>. QED BY <3>1, <3>2
  <2>6. \A b \in Addrs : link'[b] = "subscribed" \/ b \in lost' \/ b \in attached' =>
          chars'[b] = b /\ \A v \in Workers : at'[v] # "idle" => addr'[v] # b
    <3>. SUFFICES ASSUME NEW b \in Addrs, link'[b] = "subscribed" \/ b \in lost' \/ b \in attached'
                  PROVE  chars'[b] = b /\ \A v \in Workers : at'[v] # "idle" => addr'[v] # b
      OBVIOUS
    <3>1. CASE b = a
      BY <1>1, <1>2, <2>1, <2>2, <2>4, <3>1
    <3>2. CASE b # a
      <4>1. chars[b] = b /\ \A v \in Workers : at[v] # "idle" => addr[v] # b
        BY <1>1, <1>4, <1>6, <2>1, <3>2 DEF Entries
      <4>. QED BY <1>2, <1>3, <2>1, <3>2, <4>1
    <3>. QED BY <3>1, <3>2
  <2>. QED BY <1>1, <1>6, <2>1, <2>5, <2>6 DEF Entries, NoSendToSentinel, Windows
<1>. QED BY <1>5, <1>6

LEMMA BeginEntries ==
  ASSUME Basic, Entries, NEW w \in Workers, NEW a \in Addrs, Begin(w, a)
  PROVE  Entries'
<1>1. /\ at[w] = "idle" /\ at'[w] = "connect" /\ addr'[w] = a
      /\ \A v \in Workers \ {w} : at'[v] = at[v] /\ addr'[v] = addr[v]
      /\ UNCHANGED <<build, link, lost, attached, dest>>
  BY DEF Basic, TypeOK, Begin, Start, sendVars
<1>2. CASE Windows
  BY <1>1, <1>2 DEF Begin, Entries, NoSendToSentinel, Windows
<1>3. CASE ~Windows
  <2>1. chars[a] = None /\ chars' = [chars EXCEPT ![a] = "pending"] /\ a # None
    BY <1>3, KeysAssumption DEF Begin, Marked
  <2>2. \A b \in Addrs \ {a} : chars'[b] = chars[b]
    BY <2>1 DEF Basic, TypeOK
  <2>3. link[a] # "subscribed" /\ a \notin lost /\ a \notin attached
    BY <1>3, <2>1 DEF Entries
  <2>4. \A v \in Workers : at'[v] = "subscribe" => chars'[addr'[v]] = addr'[v]
    <3>. SUFFICES ASSUME NEW v \in Workers, at'[v] = "subscribe"
                  PROVE  chars'[addr'[v]] = addr'[v]
      OBVIOUS
    <3>1. v # w /\ at[v] = "subscribe" /\ addr'[v] = addr[v]
      BY <1>1
    <3>2. addr[v] \in Addrs /\ chars[addr[v]] = addr[v]
      BY <1>3, <3>1 DEF Basic, Marks, Owned, Entries
    <3>. QED BY <2>1, <2>2, <3>1, <3>2
  <2>5. \A b \in Addrs : link'[b] = "subscribed" \/ b \in lost' \/ b \in attached' =>
          chars'[b] = b /\ \A v \in Workers : at'[v] # "idle" => addr'[v] # b
    BY <1>1, <1>3, <2>2, <2>3 DEF Entries
  <2>. QED BY <1>1, <1>3, <2>4, <2>5 DEF Entries, NoSendToSentinel, Windows
<1>. QED BY <1>2, <1>3

LEMMA StepEntries == Basic /\ Entries /\ [Next]_vars => Entries'
<1>. SUFFICES ASSUME Basic, Entries, [Next]_vars
              PROVE  Entries'
  OBVIOUS
<1>1. CASE UNCHANGED <<build, connVars, dest>>
  BY <1>1 DEF Entries, NoSendToSentinel, Windows, connVars
<1>2. ASSUME NEW a \in Addrs, Lose(a)
      PROVE  Entries'
  <2>1. /\ link[a] = "subscribed" /\ lost' = lost \cup {a} /\ link'[a] = "off"
        /\ (\A b \in Addrs \ {a} : link'[b] = link[b])
        /\ UNCHANGED <<build, chars, at, addr, attached, dest>>
    BY <1>2 DEF Basic, TypeOK, Lose, SetLink, sendVars
  <2>. QED BY <2>1 DEF Entries, NoSendToSentinel, Windows
<1>3. ASSUME NEW a \in Addrs, Notified(a)
      PROVE  Entries'
  <2>1. /\ link[a] = "subscribed" /\ attached' = attached \cup {Key(a)}
        /\ UNCHANGED <<build, chars, link, lost, at, addr, dest>>
    BY <1>3 DEF Notified, sendVars
  <2>. QED BY <2>1 DEF Entries, NoSendToSentinel, Windows, Key
<1>4. ASSUME NEW s \in Sessions, Written(s)
      PROVE  Entries'
  <2>1. Windows /\ UNCHANGED <<build, chars, dest>>
    BY <1>4 DEF Written
  <2>. QED BY <2>1 DEF Entries, NoSendToSentinel, Windows
<1>5. ASSUME NEW n \in Senders, LookupSend(n) \/ WriteChunk(n) \/ Echo(n)
      PROVE  Entries'
  <2>1. /\ UNCHANGED <<build, connVars>>
        /\ \A m \in Senders : \/ dest'[m] = dest[m] \/ dest'[m] = None
                              \/ \E k \in attached : dest'[m] = chars[k]
    BY <1>5 DEF Basic, TypeOK, LookupSend, WriteChunk, Echo, EndSend
  <2>2. \A k \in attached : chars[k] # "pending"
    BY KeysAssumption DEF Basic, TypeOK, Entries
  <2>3. NoSendToSentinel'
    BY <2>1, <2>2, KeysAssumption DEF Entries, NoSendToSentinel
  <2>. QED BY <2>1, <2>3 DEF Entries, Windows, connVars
<1>6. \/ UNCHANGED <<build, connVars, dest>>
      \/ \E a \in Addrs : Lose(a) \/ Notified(a) \/ \E w \in Workers : Begin(w, a)
      \/ \E w \in Workers : Connect(w) \/ Discover(w) \/ Subscribe(w)
      \/ \E s \in Sessions : Written(s)
      \/ \E n \in Senders : LookupSend(n) \/ WriteChunk(n) \/ Echo(n)
  BY DEF Next, vars, sendVars, Scan, NextWindow, Calm, Expire, Skip, Suppress
<1>. QED BY <1>1, <1>2, <1>3, <1>4, <1>5, <1>6, BeginEntries, AttemptEntries

(* No Send writes to the characteristic that stands for a connection in    *)
(* progress.                                                               *)
THEOREM SentinelUnused == Spec => []NoSendToSentinel
<1>1. Init => Entries
  BY KeysAssumption DEF Init, Entries, NoSendToSentinel, Windows
<1>2. Entries => NoSendToSentinel
  BY DEF Entries
<1>. QED BY <1>1, <1>2, StepEntries, AlwaysBasic, PTL DEF Spec
---------------------------------------------------------------------------
(* Suppression. The senders whose notification is being written are        *)
(* finitely many at any time, and are counted.                             *)
Echoing == {n \in Senders : send[n] = "echo"}
Counted == IsFiniteSet(Echoing) /\ suppress <= Cardinality(Echoing)

LEMMA StepCounted == TypeOK /\ Counted /\ [Next]_vars => Counted'
<1>. SUFFICES ASSUME TypeOK, Counted, [Next]_vars
              PROVE  Counted'
  OBVIOUS
<1>0. Cardinality(Echoing) \in Nat /\ suppress \in Nat
  BY FS_CardinalityType DEF Counted, TypeOK
<1>1. CASE UNCHANGED <<send, suppress>>
  BY <1>1 DEF Counted, Echoing
<1>2. ASSUME NEW s \in Sessions, Written(s)
      PROVE  Counted'
  <2>1. Echoing' = Echoing /\ suppress' <= suppress /\ suppress' \in Nat
    BY <1>0, <1>2 DEF Written, Echoing
  <2>. QED BY <1>0, <2>1 DEF Counted
<1>3. ASSUME NEW n \in Senders, LookupSend(n) \/ WriteChunk(n)
      PROVE  Counted'
  <2>1. Echoing' = Echoing /\ suppress' = suppress
    BY <1>3 DEF TypeOK, LookupSend, WriteChunk, EndSend, Echoing
  <2>. QED BY <2>1 DEF Counted
<1>4. ASSUME NEW n \in Senders, Suppress(n)
      PROVE  Counted'
  <2>1. n \notin Echoing /\ Echoing' = Echoing \cup {n} /\ suppress' = suppress + 1
    BY <1>4 DEF TypeOK, Suppress, Echoing
  <2>2. IsFiniteSet(Echoing') /\ Cardinality(Echoing') = Cardinality(Echoing) + 1
    BY <2>1, FS_AddElement DEF Counted
  <2>. QED BY <1>0, <2>1, <2>2 DEF Counted
<1>5. ASSUME NEW n \in Senders, Echo(n)
      PROVE  Counted'
  <2>1. n \in Echoing /\ Echoing' = Echoing \ {n}
    BY <1>5 DEF TypeOK, Echo, EndSend, Echoing
  <2>2. suppress' = IF suppress > 0 THEN suppress - 1 ELSE 0
    BY <1>5 DEF Echo
  <2>3. IsFiniteSet(Echoing') /\ Cardinality(Echoing') = Cardinality(Echoing) - 1
    BY <2>1, FS_RemoveElement DEF Counted
  <2>4. Cardinality(Echoing') \in Nat
    BY <2>3, FS_CardinalityType
  <2>. QED BY <1>0, <2>2, <2>3, <2>4 DEF Counted
<1>6. \/ UNCHANGED <<send, suppress>>
      \/ \E s \in Sessions : Written(s)
      \/ \E n \in Senders : LookupSend(n) \/ WriteChunk(n) \/ Suppress(n) \/ Echo(n)
  <2>1. CASE \E a \in Addrs : Expire(a) \/ Skip(a) \/ Lose(a) \/ Notified(a)
    BY <2>1 DEF Expire, Skip, Lose, Notified, sendVars
  <2>2. CASE \E w \in Workers : \/ \E a \in Addrs : Begin(w, a)
                                \/ Connect(w) \/ Discover(w) \/ Subscribe(w)
    BY <2>2 DEF Begin, Connect, Discover, Subscribe, sendVars
  <2>3. CASE Scan \/ NextWindow \/ Calm \/ UNCHANGED vars
    BY <2>3 DEF Scan, NextWindow, Calm, vars, sendVars
  <2>. QED BY <2>1, <2>2, <2>3 DEF Next
<1>. QED BY <1>1, <1>2, <1>3, <1>4, <1>5, <1>6

(* A peer's write is taken for an echo only while an echo is due: nothing  *)
(* that was suppressed once stays suppressed for good, for any number of   *)
(* senders.                                                                *)
THEOREM SuppressionIsCounted == Spec => []SuppressionEnds
<1>1. Init => Counted
  <2>. SUFFICES ASSUME Init
                PROVE  Counted
    OBVIOUS
  <2>1. Echoing = {} /\ suppress = 0
    BY DEF Init, Echoing
  <2>. QED BY <2>1, FS_EmptySet DEF Counted
<1>2. Counted => SuppressionEnds
  BY DEF Counted, SuppressionEnds, Echoing
<1>3. Basic => TypeOK
  BY DEF Basic
<1>. QED BY <1>1, <1>2, <1>3, StepCounted, AlwaysBasic, PTL DEF Spec
=============================================================================
