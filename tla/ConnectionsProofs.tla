------------------------- MODULE ConnectionsProofs -------------------------
(***************************************************************************)
(* Theorems about Connections for any number of connections at a time.     *)
(***************************************************************************)
EXTENDS Connections, TLAPS

---------------------------------------------------------------------------
(* Type correctness.                                                       *)
LEMMA OpensType ==
  ASSUME TypeOK, NEW c \in Conns, Opens(c), dht' \in BOOLEAN, backoff' \in 0..Rounds
  PROVE  TypeOK'
<1>1. hook' \in [Conns -> {"none", "register", "hello"}]
      /\ hello' \in [Conns -> {"none", "due", "read"}]
  BY DEF TypeOK, Opens
<1>2. open' \subseteq Conns /\ unseen' \subseteq open'
  BY DEF TypeOK, Opens
<1>. QED BY <1>1, <1>2 DEF TypeOK, Opens, peerVars, routeVars, rowVars

LEMMA ConnType ==
  ASSUME TypeOK, NEW c \in Conns, Open(c) \/ Close(c) \/ Goroutine(c)
  PROVE  TypeOK'
<1>1. CASE Open(c)
  <2>1. dht' \in BOOLEAN /\ backoff' \in 0..Rounds
    BY <1>1 DEF TypeOK, Open, dhtVars
  <2>. QED BY <1>1, <2>1, OpensType DEF Open
<1>2. CASE Close(c)
  <2>1. gone' \in [Conns -> {"none", "forget", "unregister"}]
        /\ hello' \in [Conns -> {"none", "due", "read"}]
    BY <1>2 DEF TypeOK, Close
  <2>. QED BY <1>2, <2>1 DEF TypeOK, Close, routeVars, dhtVars
<1>3. CASE Register(c) \/ SendHello(c)
  BY <1>3 DEF TypeOK, Register, SendHello, GiveRoute, Hook, peerVars, routeVars, rowVars, dhtVars
<1>4. CASE Forget(c) \/ Unregister(c)
  BY <1>4 DEF TypeOK, Forget, Unregister, TakeRoute, Connected, Gone, peerVars, routeVars, rowVars, dhtVars
<1>5. CASE ReadHello(c) \/ NotifyHello(c)
  BY <1>5 DEF TypeOK, ReadHello, NotifyHello, HelloGoes, peerVars, routeVars, rowVars, dhtVars
<1>. QED BY <1>1, <1>2, <1>3, <1>4, <1>5 DEF Goroutine

LEMMA StepType == TypeOK /\ [Next]_vars => TypeOK'
<1>. SUFFICES ASSUME TypeOK, [Next]_vars
              PROVE  TypeOK'
  OBVIOUS
<1>1. CASE Attach \/ Calm \/ OtherSighting
  BY <1>1 DEF TypeOK, Attach, Calm, OtherSighting, connVars, peerVars, routeVars, rowVars, dhtVars
<1>2. CASE Lookup \/ OpenStream \/ ForgetRoute
  BY <1>2 DEF TypeOK, Lookup, OpenStream, ForgetRoute, TakeRoute, Connected, connVars, routeVars, rowVars, dhtVars
<1>3. CASE Find \/ Round
  <2>1. backoff' \in 0..Rounds
    BY <1>3, RoundsAssumption DEF TypeOK, Find, Round
  <2>2. dht' \in BOOLEAN
    BY <1>3 DEF TypeOK, Find, Round
  <2>. QED BY <1>3, <2>1, <2>2 DEF TypeOK, Find, Round, connVars, peerVars, routeVars, rowVars
<1>4. CASE Dial
  <2>1. dht' \in BOOLEAN /\ backoff' \in 0..Rounds
    <3>1. dht' = FALSE /\ backoff' \in {0, Rounds}
      BY <1>4 DEF Dial
    <3>2. 0 \in 0..Rounds /\ Rounds \in 0..Rounds
      BY RoundsAssumption
    <3>3. backoff' \in 0..Rounds
      BY <3>1, <3>2
    <3>. QED BY <3>1, <3>3
  <2>2. CASE \E c \in Conns : Opens(c)
    BY <2>1, <2>2, OpensType
  <2>3. CASE UNCHANGED <<attached, connVars, peerVars, calm>>
    BY <2>1, <2>3 DEF TypeOK, connVars, peerVars, routeVars, rowVars
  <2>. QED BY <1>4, <2>2, <2>3 DEF Dial
<1>5. CASE UNCHANGED vars
  BY <1>5 DEF TypeOK, vars, connVars, peerVars, routeVars, rowVars, dhtVars
<1>. QED BY <1>1, <1>2, <1>3, <1>4, <1>5, ConnType DEF Next

(* Every variable keeps its type.                                          *)
THEOREM TypeCorrect == Spec => []TypeOK
<1>1. Init => TypeOK
  <2>1. 0 \in 0..Rounds
    BY RoundsAssumption
  <2>. QED BY <2>1 DEF Init, TypeOK
<1>. QED BY <1>1, StepType, PTL DEF Spec

---------------------------------------------------------------------------
(* A relay says no Hello, and only a Hello lists a peer.                   *)
Silent == kind = "relay" => ~listed /\ \A c \in Conns : hello[c] = "none"

LEMMA StepSilent == TypeOK /\ Silent /\ [Next]_vars => Silent'
<1>. SUFFICES ASSUME TypeOK, Silent, [Next]_vars
              PROVE  Silent'
  OBVIOUS
<1>1. ASSUME NEW c \in Conns, Opens(c)
      PROVE  Silent'
  BY <1>1 DEF TypeOK, Silent, Opens, peerVars, rowVars
<1>2. ASSUME NEW c \in Conns, Close(c)
      PROVE  Silent'
  BY <1>2 DEF TypeOK, Silent, Close
<1>3. ASSUME NEW c \in Conns, Goroutine(c)
      PROVE  Silent'
  BY <1>3 DEF TypeOK, Silent, Goroutine, Register, SendHello, Forget, Unregister, ReadHello, NotifyHello,
              Hook, Gone, HelloGoes, peerVars, rowVars
<1>4. CASE UNCHANGED <<kind, listed, hello>>
  BY <1>4 DEF Silent
<1>5. \/ UNCHANGED <<kind, listed, hello>>
      \/ \E c \in Conns : Opens(c) \/ Close(c) \/ Goroutine(c)
  BY DEF Next, vars, connVars, peerVars, rowVars, Attach, Calm, OtherSighting, Lookup, OpenStream,
         ForgetRoute, Find, Round, Dial, Open
<1>. QED BY <1>1, <1>2, <1>3, <1>4, <1>5

(* Bootstrap and relay peers are never listed.                             *)
THEOREM OnlyPeersListed == Spec => []StrangersStayOut
<1>1. Init => Silent
  BY DEF Init, Silent
<1>2. Silent => StrangersStayOut
  BY DEF Silent, StrangersStayOut
<1>. QED BY <1>1, <1>2, StepSilent, TypeCorrect, PTL DEF Spec

---------------------------------------------------------------------------
(* The route. OnConnected of a connection that was reported ends before    *)
(* its Disconnected does, or after it closed (`late`); and until it has    *)
(* run, or once another took the route (`robbed`), there need be none.     *)
Going == \E c \in Conns : gone[c] # "none"
Reported ==
  /\ ~attached => open \subseteq unseen /\ ~Going
  /\ \A c \in Conns : hook[c] # "none" => c \notin unseen
Given == route /\ ~late => open \ unseen # {} \/ Going
Awaited == ~route /\ ~robbed => \A c \in open \ unseen : hook[c] = "register"
RouteInv == Reported /\ Given /\ Awaited

LEMMA OpensRoute ==
  ASSUME TypeOK, RouteInv, NEW c \in Conns, Opens(c)
  PROVE  RouteInv'
<1>1. c \notin open /\ open' = open \cup {c} /\ UNCHANGED <<attached, gone, route, late, robbed>>
  BY DEF Opens, peerVars, routeVars
<1>2. \A d \in Conns \ {c} : hook'[d] = hook[d]
  BY DEF TypeOK, Opens
<1>3. CASE attached
  <2>1. unseen' = unseen /\ hook'[c] = "register" /\ c \notin unseen
    BY <1>3 DEF TypeOK, Opens
  <2>2. Reported'
    BY <1>1, <1>2, <1>3, <2>1 DEF RouteInv, Reported
  <2>3. Given'
    BY <1>1, <2>1 DEF RouteInv, Given
  <2>4. Awaited'
    BY <1>1, <1>2, <2>1 DEF TypeOK, RouteInv, Awaited
  <2>. QED BY <2>2, <2>3, <2>4 DEF RouteInv
<1>4. CASE ~attached
  <2>1. unseen' = open' /\ hook'[c] = "none"
    BY <1>4 DEF TypeOK, Opens
  <2>2. open \subseteq unseen /\ ~Going /\ \A d \in Conns : hook[d] # "none" => d \notin open
    BY <1>4 DEF RouteInv, Reported
  <2>. QED BY <1>1, <1>2, <1>4, <2>1, <2>2 DEF RouteInv, Reported, Given, Awaited, Going
<1>. QED BY <1>3, <1>4

LEMMA CloseRoute ==
  ASSUME TypeOK, RouteInv, NEW c \in Conns, Close(c)
  PROVE  RouteInv'
<1>1. /\ open' = open \ {c} /\ unseen' = unseen \ {c} /\ c \in open
      /\ UNCHANGED <<attached, hook, route, late, robbed>>
  BY DEF Close, routeVars
<1>2. gone' = [gone EXCEPT ![c] = IF attached THEN "forget" ELSE "none"]
  BY DEF Close
<1>3. CASE attached
  <2>1. Going'
    BY <1>2, <1>3 DEF TypeOK, Going
  <2>. QED BY <1>1, <1>3, <2>1 DEF RouteInv, Reported, Given, Awaited
<1>4. CASE ~attached
  <2>1. open \subseteq unseen /\ ~Going /\ ~Going'
    BY <1>2, <1>4 DEF TypeOK, RouteInv, Reported, Going
  <2>. QED BY <1>1, <1>4, <2>1 DEF RouteInv, Reported, Given, Awaited
<1>. QED BY <1>3, <1>4

LEMMA GoroutineRoute ==
  ASSUME TypeOK, RouteInv, NEW c \in Conns, Goroutine(c)
  PROVE  RouteInv'
<1>1. UNCHANGED <<attached, open, unseen>>
  BY DEF Goroutine, Register, SendHello, Forget, Unregister, ReadHello, NotifyHello, Hook, Gone, HelloGoes
<1>2. CASE Register(c)
  <2>1. c \notin unseen /\ hook' = [hook EXCEPT ![c] = "hello"] /\ gone' = gone
    BY <1>2 DEF RouteInv, Reported, Register, Hook
  <2>2. route' /\ late' = (c \notin open)
    BY <1>2 DEF Register, GiveRoute
  <2>. QED BY <1>1, <2>1, <2>2 DEF TypeOK, RouteInv, Reported, Given, Awaited, Going
<1>3. CASE SendHello(c)
  <2>1. hook[c] = "hello" /\ hook' = [hook EXCEPT ![c] = "none"] /\ UNCHANGED <<gone, route, late, robbed>>
    BY <1>3 DEF SendHello, Hook, peerVars, routeVars
  <2>. QED BY <1>1, <2>1 DEF TypeOK, RouteInv, Reported, Given, Awaited, Going
<1>4. CASE Forget(c)
  <2>1. /\ gone[c] = "forget" /\ gone' = [gone EXCEPT ![c] = "unregister"]
        /\ UNCHANGED <<hook, route, late, robbed>>
    BY <1>4 DEF Forget, Gone, routeVars
  <2>2. Going /\ Going'
    BY <2>1 DEF TypeOK, Going
  <2>. QED BY <1>1, <2>1, <2>2 DEF RouteInv, Reported, Given, Awaited
<1>5. CASE Unregister(c)
  <2>1. ~route' /\ robbed' = (open # {}) /\ hook' = hook
    BY <1>5 DEF Unregister, Gone, TakeRoute, Connected
  <2>2. Going
    BY <1>5 DEF Going, Unregister
  <2>. QED BY <1>1, <2>1, <2>2 DEF TypeOK, RouteInv, Reported, Given, Awaited
<1>6. CASE ReadHello(c) \/ NotifyHello(c)
  BY <1>1, <1>6 DEF RouteInv, Reported, Given, Awaited, Going, ReadHello, NotifyHello, HelloGoes, peerVars, routeVars
<1>. QED BY <1>2, <1>3, <1>4, <1>5, <1>6 DEF Goroutine

LEMMA StepRoute == TypeOK /\ RouteInv /\ [Next]_vars => RouteInv'
<1>. SUFFICES ASSUME TypeOK, RouteInv, [Next]_vars
              PROVE  RouteInv'
  OBVIOUS
<1>1. CASE Attach
  BY <1>1 DEF RouteInv, Reported, Given, Awaited, Going, Attach, connVars, peerVars, routeVars
<1>2. CASE ForgetRoute
  <2>1. ~route' /\ robbed' = (open # {}) /\ UNCHANGED <<attached, open, unseen, hook, gone>>
    BY <1>2 DEF ForgetRoute, TakeRoute, Connected, connVars
  <2>. QED BY <2>1 DEF TypeOK, RouteInv, Reported, Given, Awaited, Going
<1>3. CASE UNCHANGED <<attached, open, unseen, hook, gone, route, late, robbed>>
  BY <1>3 DEF RouteInv, Reported, Given, Awaited, Going
<1>4. \/ Attach \/ ForgetRoute
      \/ UNCHANGED <<attached, open, unseen, hook, gone, route, late, robbed>>
      \/ \E c \in Conns : Opens(c) \/ Close(c) \/ Goroutine(c)
  BY DEF Next, vars, connVars, peerVars, routeVars, Calm, OtherSighting, Lookup, OpenStream, Find, Round,
         Dial, Open
<1>. QED BY <1>1, <1>2, <1>3, <1>4, OpensRoute, CloseRoute, GoroutineRoute

(* For any number of connections, however they overlap and wherever a Send *)
(* fails: once their goroutines have run a peer without a connection has a *)
(* route only from an OnConnected that came too late, and a connected peer *)
(* that was reported lacks one only if somebody took it since.             *)
THEOREM RouteIsConnection == Spec => []RouteFollows
<1>1. Init => RouteInv
  BY DEF Init, RouteInv, Reported, Given, Awaited, Going
<1>2. TypeOK /\ RouteInv => RouteFollows
  <2>. SUFFICES ASSUME TypeOK, RouteInv, Settled
                PROVE  (route /\ ~Connected => late) /\ (~route => robbed \/ open \subseteq unseen)
    BY DEF RouteFollows
  <2>1. ~Going /\ \A c \in Conns : hook[c] # "register"
    BY DEF Going, Settled
  <2>2. open = {} => open \ unseen = {}
    OBVIOUS
  <2>. QED BY <2>1, <2>2 DEF TypeOK, RouteInv, Given, Awaited, Connected
<1>. QED BY <1>1, <1>2, StepRoute, TypeCorrect, PTL DEF Spec

---------------------------------------------------------------------------
(* The row. It outlives the last connection until Disconnected forgets it, *)
(* but for a Hello notified too late.                                      *)
Kept == listed /\ ~tardy => open # {} \/ \E c \in Conns : gone[c] = "forget"

LEMMA StepKept == TypeOK /\ Kept /\ [Next]_vars => Kept'
<1>. SUFFICES ASSUME TypeOK, Kept, [Next]_vars
              PROVE  Kept'
  OBVIOUS
<1>1. ASSUME NEW c \in Conns, Opens(c)
      PROVE  Kept'
  BY <1>1 DEF Kept, Opens, peerVars, rowVars
<1>2. ASSUME NEW c \in Conns, Close(c)
      PROVE  Kept'
  <2>1. /\ open' = open \ {c} /\ listed' = listed /\ tardy' = (tardy \/ (~attached /\ open = {c}))
        /\ gone' = [gone EXCEPT ![c] = IF attached THEN "forget" ELSE "none"]
    BY <1>2 DEF Close
  <2>2. CASE attached
    BY <2>1, <2>2 DEF TypeOK, Kept
  <2>3. CASE ~attached
    <3>1. open = {c} \/ open' # {}
      BY <1>2, <2>1 DEF Close
    <3>. QED BY <2>1, <2>3, <3>1 DEF Kept
  <2>. QED BY <2>2, <2>3
<1>3. ASSUME NEW c \in Conns, Forget(c)
      PROVE  Kept'
  BY <1>3 DEF Kept, Forget
<1>4. ASSUME NEW c \in Conns, Unregister(c)
      PROVE  Kept'
  BY <1>4 DEF TypeOK, Kept, Unregister, Gone, rowVars
<1>5. ASSUME NEW c \in Conns, NotifyHello(c)
      PROVE  Kept'
  BY <1>5 DEF Kept, NotifyHello, HelloGoes
<1>6. CASE UNCHANGED <<open, gone, listed, tardy>>
  BY <1>6 DEF Kept
<1>7. \/ UNCHANGED <<open, gone, listed, tardy>>
      \/ \E c \in Conns : Opens(c) \/ Close(c) \/ Forget(c) \/ Unregister(c) \/ NotifyHello(c)
  BY DEF Next, vars, connVars, peerVars, rowVars, Goroutine, Register, SendHello, ReadHello, Hook, HelloGoes,
         Attach, ForgetRoute, Calm, OtherSighting, Lookup, OpenStream, Find, Round, Dial, Open
<1>. QED BY <1>1, <1>2, <1>3, <1>4, <1>5, <1>6, <1>7

(* For any number of connections, however they overlap: once their         *)
(* goroutines have run a peer without a connection is listed under its ID  *)
(* only by a Hello that was notified after its connection had closed, or   *)
(* from before AttachDiscovery.                                            *)
THEOREM RowIsConnection == Spec => []RowGoes
<1>1. Init => Kept
  BY DEF Init, Kept
<1>2. Kept => RowGoes
  BY DEF Kept, RowGoes, Settled, Connected
<1>. QED BY <1>1, <1>2, StepKept, TypeCorrect, PTL DEF Spec
=============================================================================
