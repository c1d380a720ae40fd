---------------------------- MODULE Connections ----------------------------
(***************************************************************************)
(* libp2p connections with one remote peer and what the node makes of them *)
(* (host.go, service.go, libp2p.go): the route in transport.Registry, the  *)
(* entry of the discovery manager, the Hello of either side, and the DHT   *)
(* loop that connects again. libp2p may have several connections with a    *)
(* peer and reports each; OnConnected and OnDisconnected run in goroutines *)
(* of their own. User commands, LAN sightings and NewStream dial too: they *)
(* are the Open that can happen at any time. The manager keeps the peer    *)
(* under its libp2p ID; another channel may have listed the same nickname  *)
(* under a key of its own (`twin`), which is never forgotten. How such     *)
(* entries come about and merge is in Discovery.                           *)
(***************************************************************************)
EXTENDS Naturals

CONSTANTS
  Conns,       (* connections at one time, with what follows them (bound)    *)
  Rounds       (* rounds of the DHT loop in dhtConnectFailureBackoff         *)

ASSUME RoundsAssumption == Rounds \in Nat \ {0}

VARIABLES
  kind,        (* "peer", or "relay" for one that does not speak bdpeer      *)
  attached,    (* AttachDiscovery was called                                 *)
  open,        (* open connections                                           *)
  unseen,      (* those of them that opened before AttachDiscovery           *)
  hook,        (* OnConnected of each: "register", "hello", or "none"        *)
  gone,        (* Disconnected of each: "forget", "unregister", or "none"    *)
  hello,       (* the remote's Hello: "due", "read", or "none"               *)
  route,       (* the peer is in the registry                                *)
  listed,      (* the peer's ID is a key of Manager.seen                     *)
  twin,        (* its nickname is that of an entry with another key          *)
  send,        (* a Send call: "dial", "forget", or "none"                   *)
  dht,         (* the DHT loop is connecting to the peer                     *)
  backoff,     (* rounds until it may be tried again                         *)
  calm,        (* from here on the network works (environment)               *)
  late,        (* history: the connection that gave the route had closed     *)
  robbed,      (* history: the route was last taken while a connection was open *)
  tardy        (* history: the connection that listed the peer had closed, or *)
               (* the last one closed before AttachDiscovery                 *)

connVars == <<kind, open, unseen, hook, gone, hello>>
routeVars == <<route, late, robbed>>
rowVars == <<listed, twin, tardy>>
peerVars == <<routeVars, rowVars, send>>
dhtVars == <<dht, backoff>>
vars == <<attached, connVars, peerVars, dhtVars, calm>>

Connected == open # {}

Init ==
  /\ kind \in {"peer", "relay"} /\ attached = FALSE /\ open = {} /\ unseen = {}
  /\ hook = [c \in Conns |-> "none"] /\ gone = [c \in Conns |-> "none"]
  /\ hello = [c \in Conns |-> "none"]
  /\ route = FALSE /\ late = FALSE /\ robbed = FALSE
  /\ listed = FALSE /\ twin = FALSE /\ tardy = FALSE /\ send = "none"
  /\ dht = FALSE /\ backoff = 0 /\ calm = FALSE

(* AttachDiscovery, some time after the host began to accept connections.  *)
Attach ==
  /\ ~attached
  /\ attached' = TRUE
  /\ UNCHANGED <<connVars, peerVars, dhtVars, calm>>

---------------------------------------------------------------------------
(* Connections                                                             *)

(* A connection opens: Connected starts OnConnected. The remote does so as *)
(* well, and will send its Hello.                                          *)
Opens(c) ==
  /\ c \notin open /\ {hook[c], gone[c], hello[c]} = {"none"}
  /\ open' = open \cup {c}
  /\ hook' = [hook EXCEPT ![c] = IF attached THEN "register" ELSE "none"]
  /\ hello' = [hello EXCEPT ![c] = IF kind = "peer" THEN "due" ELSE "none"]
  /\ unseen' = IF attached THEN unseen ELSE open'
  /\ UNCHANGED <<attached, kind, gone, peerVars, calm>>
Open(c) == Opens(c) /\ UNCHANGED dhtVars

(* A connection closes: Disconnected follows, whatever else is open.       *)
Close(c) ==
  /\ c \in open /\ ~calm
  /\ open' = open \ {c} /\ unseen' = unseen \ {c}
  /\ gone' = [gone EXCEPT ![c] = IF attached THEN "forget" ELSE "none"]
  /\ hello' = [hello EXCEPT ![c] = IF @ = "due" THEN "none" ELSE @]
  /\ tardy' = (tardy \/ (~attached /\ open = {c}))
  /\ UNCHANGED <<attached, kind, hook, routeVars, listed, twin, send, dhtVars, calm>>

GiveRoute(c) == route' = TRUE /\ late' = (c \notin open) /\ robbed' = FALSE
TakeRoute == route' = FALSE /\ late' = FALSE /\ robbed' = Connected

Hook(c, l) == hook' = [hook EXCEPT ![c] = l] /\ UNCHANGED <<kind, open, unseen, gone, hello>>

(* Service.Start's OnConnected registers the peer ...                      *)
Register(c) ==
  /\ hook[c] = "register"
  /\ Hook(c, "hello")
  /\ GiveRoute(c)
  /\ UNCHANGED <<attached, rowVars, send, dhtVars, calm>>
(* ... and sends it a Hello, or fails to.                                  *)
SendHello(c) ==
  /\ hook[c] = "hello"
  /\ Hook(c, "none")
  /\ UNCHANGED <<attached, peerVars, dhtVars, calm>>

Gone(c, l) == gone' = [gone EXCEPT ![c] = l] /\ UNCHANGED <<kind, open, unseen, hook, hello>>

ForgetKeepsRow(c) ==               (* mutant: Forget under another key        *)
  /\ gone[c] = "forget"
  /\ Gone(c, "unregister")
  /\ UNCHANGED <<attached, peerVars, dhtVars, calm>>
(* Disconnected forgets the peer ...                                       *)
Forget(c) ==
  /\ gone[c] = "forget"
  /\ Gone(c, "unregister")
  /\ listed' = FALSE
  /\ UNCHANGED <<attached, routeVars, twin, tardy, send, dhtVars, calm>>
UnregisterOther(c) ==              (* mutant: Unregister under another key    *)
  /\ gone[c] = "unregister"
  /\ Gone(c, "none")
  /\ UNCHANGED <<attached, peerVars, dhtVars, calm>>
(* ... and starts OnDisconnected, which takes its route.                   *)
Unregister(c) ==
  /\ gone[c] = "unregister"
  /\ Gone(c, "none")
  /\ TakeRoute
  /\ UNCHANGED <<attached, rowVars, send, dhtVars, calm>>

(* onInboundStream reads a Hello, and then notifies the manager, which      *)
(* gives a nickname it has under another key no second entry. The          *)
(* connection may have closed in between.                                  *)
HelloGoes(c, l) == hello' = [hello EXCEPT ![c] = l] /\ UNCHANGED <<kind, open, unseen, hook, gone>>
ReadHello(c) ==
  /\ hello[c] = "due"
  /\ HelloGoes(c, "read")
  /\ UNCHANGED <<attached, peerVars, dhtVars, calm>>
NotifyHello(c) ==
  /\ hello[c] = "read"
  /\ HelloGoes(c, "none")
  /\ IF twin THEN UNCHANGED <<listed, tardy>> ELSE listed' = TRUE /\ tardy' = (c \notin open)
  /\ UNCHANGED <<attached, routeVars, twin, send, dhtVars, calm>>

(* Another channel lists the nickname; once the peer is listed under its ID *)
(* the sighting merges into that entry instead.                            *)
OtherSighting ==
  /\ kind = "peer" /\ ~twin /\ ~listed
  /\ twin' = TRUE
  /\ UNCHANGED <<attached, connVars, routeVars, listed, tardy, send, dhtVars, calm>>

---------------------------------------------------------------------------
(* Send: a stream that cannot be opened, for whatever reason, costs the    *)
(* peer its route.                                                         *)
Lookup ==
  /\ send = "none" /\ route
  /\ send' = "dial"
  /\ UNCHANGED <<attached, connVars, routeVars, rowVars, dhtVars, calm>>
OpenStream ==
  /\ send = "dial"
  /\ \/ Connected /\ send' = "none"
     \/ ~(calm /\ Connected) /\ send' = "forget"
  /\ UNCHANGED <<attached, connVars, routeVars, rowVars, dhtVars, calm>>
ForgetRoute ==
  /\ send = "forget"
  /\ send' = "none" /\ TakeRoute
  /\ UNCHANGED <<attached, connVars, rowVars, dhtVars, calm>>

---------------------------------------------------------------------------
(* findAndConnectDHTPeers: a peer that is connected, or failed within the  *)
(* back-off, is left out.                                                  *)
Find ==
  /\ kind = "peer" /\ attached
  /\ ~dht /\ ~Connected /\ backoff = 0
  /\ dht' = TRUE
  /\ UNCHANGED <<attached, connVars, peerVars, backoff, calm>>
Dial ==
  /\ dht /\ dht' = FALSE
  /\ \/ backoff' = 0 /\ \E c \in Conns : ~Connected /\ Opens(c)
     \/ backoff' = 0 /\ Connected /\ UNCHANGED <<attached, connVars, peerVars, calm>>
     \/ ~calm /\ backoff' = Rounds /\ UNCHANGED <<attached, connVars, peerVars, calm>>
RoundNever == backoff > 0 /\ UNCHANGED vars         (* mutant: for ever        *)
Round ==
  /\ backoff > 0
  /\ backoff' = backoff - 1
  /\ UNCHANGED <<attached, connVars, peerVars, dht, calm>>

Calm == ~calm /\ calm' = TRUE /\ UNCHANGED <<attached, connVars, peerVars, dhtVars>>

Goroutine(c) ==
  Register(c) \/ SendHello(c) \/ Forget(c) \/ Unregister(c) \/ ReadHello(c) \/ NotifyHello(c)
Next ==
  \/ Attach \/ Lookup \/ OpenStream \/ ForgetRoute \/ Find \/ Dial \/ Round
  \/ OtherSighting \/ Calm
  \/ \E c \in Conns : Open(c) \/ Close(c) \/ Goroutine(c)

Spec == Init /\ [][Next]_vars

(* Goroutines run on and the DHT loop goes round.                          *)
Fairness ==
  /\ WF_vars(Attach) /\ WF_vars(OpenStream) /\ WF_vars(ForgetRoute)
  /\ WF_vars(Find) /\ WF_vars(Dial) /\ WF_vars(Round)
  /\ \A c \in Conns :
       /\ WF_vars(Register(c)) /\ WF_vars(SendHello(c)) /\ WF_vars(Forget(c))
       /\ WF_vars(Unregister(c)) /\ WF_vars(ReadHello(c)) /\ WF_vars(NotifyHello(c))
FairSpec == Spec /\ Fairness

---------------------------------------------------------------------------
TypeOK ==
  /\ kind \in {"peer", "relay"} /\ send \in {"none", "dial", "forget"}
  /\ {attached, route, late, robbed, listed, twin, tardy, dht, calm} \subseteq BOOLEAN
  /\ open \subseteq Conns /\ unseen \subseteq open /\ backoff \in 0..Rounds
  /\ hook \in [Conns -> {"none", "register", "hello"}]
  /\ gone \in [Conns -> {"none", "forget", "unregister"}]
  /\ hello \in [Conns -> {"none", "due", "read"}]

Settled == \A c \in Conns : hook[c] # "register" /\ gone[c] = "none"

(* Once the goroutines of its connections have run, however many there are  *)
(* and however they overlap, a peer without a connection has no route, but *)
(* for one an OnConnected gave after its connection had closed; and a peer *)
(* with a connection that OnConnected was called for has one, unless the   *)
(* Disconnected of another connection or a failed Send took it since       *)
(* (service.go:184-198, 419-425, host.go:198-216).                         *)
RouteFollows == Settled =>
  /\ route /\ ~Connected => late
  /\ ~route => robbed \/ open \subseteq unseen

(* By then the manager has forgotten a peer without a connection, but for a *)
(* Hello that was read before the connection closed and notified after, or *)
(* a last connection that closed before AttachDiscovery: nothing forgets   *)
(* these (host.go:206-212, service.go:306-321). An entry of the nickname   *)
(* under another key stays whatever happens.                               *)
RowGoes == Settled /\ ~Connected /\ listed => tardy

(* Bootstrap and relay peers never reach the list, in whatever order their *)
(* connections come and go (host.go:200-201).                              *)
StrangersStayOut == kind = "relay" => ~listed

(* Once the network works, a peer that was lost, with no call, goroutine or *)
(* route of it left, is found again by the DHT loop, connected, routed and  *)
(* listed, under its ID or another key, and stays so, whatever happened    *)
(* before (host.go:315-363).                                               *)
Quiet ==
  /\ attached /\ ~Connected /\ ~route /\ send = "none"
  /\ \A c \in Conns : hook[c] = "none" /\ gone[c] = "none"
Rejoins ==
  kind = "peer" /\ <>(calm /\ Quiet) => <>[](Connected /\ route /\ (listed \/ twin))
=============================================================================
