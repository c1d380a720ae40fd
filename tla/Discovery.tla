----------------------------- MODULE Discovery -----------------------------
(***************************************************************************)
(* discovery.Manager and the peer list of the TUI. Every discovery channel *)
(* (mDNS, SSDP, WSD, BLE, the Hello of a connection) reports what it saw   *)
(* from a goroutine of its own; the Manager merges the reports under its   *)
(* lock, and calls OnPeerFound / OnPeerLost after it has released it. The  *)
(* callbacks of two goroutines may therefore reach the TUI in an order     *)
(* other than that of the changes they announce.                           *)
(***************************************************************************)
EXTENDS PeerList

CONSTANTS
  Reports,    (* the DiscoveredPeer values the channels may report           *)
  Callers,    (* goroutines that call the Manager                            *)
  Reporter,   (* [Reports -> Callers], whose goroutine reports it            *)
  Swarm,      (* the caller that reports disconnections                      *)
  Hosts,      (* libp2p peer IDs whose connections may close                 *)
  Self        (* the user's own nickname                                     *)

(* None is also: no entry, no callback.                                    *)

(* The key of a report: its ID, else its first multiaddr, else its BLE     *)
(* address qualified by the source.                                        *)
peerKey(p) ==
  CASE p.id # None -> p.id
    [] p.id = None /\ p.addrs # None -> p.addrs
    [] p.id = None /\ p.addrs = None /\ p.addr # None -> <<p.source, p.addr>>
    [] OTHER -> None

Keys == {peerKey(p) : p \in Reports} \ {None}
Field(f) == {p[f] : p \in Reports} \cup {None}

(* A DiscoveredPeer. Addrs is None or one multiaddr: the code looks at its *)
(* length and at its first element only.                                   *)
Entry == [id : Field("id"), nick : Field("nick"), addrs : Field("addrs"),
          addr : Field("addr"), source : Field("source")]

ASSUME ReportsAssumption ==
  /\ \A p \in Reports : DOMAIN p = {"id", "nick", "addrs", "addr", "source"}
  /\ Reports \subseteq Entry
  /\ Reporter \in [Reports -> Callers]
  /\ Swarm \in Callers
ASSUME NoneAssumption == None \notin Entry /\ None \notin [kind : {"found", "lost"}, peer : Entry]
(* A peer ID is never the text of a multiaddr or of a BLE address.         *)
ASSUME HostsAssumption ==
  /\ None \notin Hosts
  /\ \A p \in Reports : peerKey(p) \in Hosts => p.id = peerKey(p)

VARIABLES
  seen,       (* [Keys -> Entry or None], the Manager's map                  *)
  call        (* [Callers -> callback or None], computed but not yet made    *)

vars == <<seen, call, rows>>

Init ==
  /\ seen = [k \in Keys |-> None]
  /\ call = [c \in Callers |-> None]
  /\ rows = <<>>

---------------------------------------------------------------------------
(* The Manager                                                             *)

(* What OnPeerFound passes on to the TUI (bnet.PeerInfo).                  *)
Info(e) == [id |-> e.id, nick |-> e.nick, addrs |-> e.addrs, source |-> e.source]

FoundInfo(e) == [kind |-> "found", peer |-> Info(e)]   (* mutant: addr lost *)
Found(e) == [kind |-> "found", peer |-> e]
Lost(e) == [kind |-> "lost", peer |-> e]

TwinsNone(p) == {}                       (* mutant: no merge by nickname    *)

(* Entries under another key with the nickname of p.                       *)
Twins(p) ==
  {k \in Keys \ {peerKey(p)} :
     seen[k] # None /\ p.nick # None /\ seen[k].nick = p.nick}

(* p is looked at: not the user itself, and it has a key.                  *)
Heard(p) ==
  /\ call[Reporter[p]] = None
  /\ p.nick # Self
  /\ peerKey(p) # None

(* The entry under k becomes e; the callback is made if it says so.        *)
Store(p, k, e, changed) ==
  /\ seen' = [seen EXCEPT ![k] = e]
  /\ call' = IF changed THEN [call EXCEPT ![Reporter[p]] = Found(e)] ELSE call
  /\ UNCHANGED rows

MergeWithId(p) ==                        (* mutant: the ID is merged too    *)
  /\ Heard(p)
  /\ \E k \in Twins(p) : Store(p, k, [p EXCEPT !.addrs = Or(@, seen[k].addrs)], TRUE)

(* Notify, same nickname under another key: that entry keeps its key and   *)
(* its ID and takes over the source and the addresses.                     *)
MergeByNickname(p) ==
  /\ Heard(p)
  /\ \E k \in Twins(p) :
       LET old == seen[k]
           merged == [id |-> old.id, nick |-> old.nick, addrs |-> Or(p.addrs, old.addrs),
                      addr |-> Or(p.addr, old.addr), source |-> Or(p.source, old.source)]
       IN Store(p, k, merged,
                \/ merged.source # old.source
                \/ (merged.addrs = None) # (old.addrs = None)
                \/ merged.addr # old.addr)

InsertQuietly(p) ==                      (* mutant: OnPeerFound not called  *)
  /\ Heard(p)
  /\ Twins(p) = {}
  /\ seen[peerKey(p)] = None
  /\ Store(p, peerKey(p), p, FALSE)

(* Notify, a key not seen before.                                          *)
Insert(p) ==
  /\ Heard(p)
  /\ Twins(p) = {}
  /\ seen[peerKey(p)] = None
  /\ Store(p, peerKey(p), p, TRUE)

(* Notify, the same key again: "dht" does not replace another source.      *)
MergeByKey(p) ==
  LET k == peerKey(p)
      old == seen[k]
      source == IF p.source = "dht" THEN Or(old.source, p.source)
                ELSE Or(p.source, old.source)
      merged == [id |-> old.id, nick |-> Or(p.nick, old.nick),
                 addrs |-> Or(p.addrs, old.addrs), addr |-> old.addr, source |-> source]
  IN
  /\ Heard(p)
  /\ Twins(p) = {}
  /\ old # None
  /\ Store(p, k, merged,
           \/ merged.source # old.source
           \/ merged.nick # old.nick
           \/ (merged.addrs = None) # (old.addrs = None))

Notify(p) == MergeByNickname(p) \/ Insert(p) \/ MergeByKey(p)

(* Disconnected: a connection of libp2p peer h closed.                     *)
Forget(h) ==
  /\ call[Swarm] = None
  /\ h \in Keys
  /\ seen[h] # None
  /\ seen' = [seen EXCEPT ![h] = None]
  /\ call' = [call EXCEPT ![Swarm] = Lost(seen[h])]
  /\ UNCHANGED rows

---------------------------------------------------------------------------
(* The TUI's list. The event channel between the two is first in, first    *)
(* out, so OnPeerFound / OnPeerLost of caller c and the TUI's handling of it    *)
(* are one step.                                                           *)
Callback(c) ==
  /\ call[c] # None
  /\ rows' = IF call[c].kind = "found" THEN appendOrUpdate(rows, Info(call[c].peer))
             ELSE removePeer(rows, call[c].peer.id)
  /\ call' = [call EXCEPT ![c] = None]
  /\ UNCHANGED seen

---------------------------------------------------------------------------
Next ==
  \/ \E p \in Reports : Notify(p)
  \/ \E h \in Hosts : Forget(h)
  \/ \E c \in Callers : Callback(c)

Spec == Init /\ [][Next]_vars

---------------------------------------------------------------------------
Row == [id : Field("id"), nick : Field("nick"), addrs : Field("addrs"),
        source : Field("source")]

Call == [kind : {"found", "lost"}, peer : Entry]

ManagerType ==
  /\ seen \in [Keys -> Entry \cup {None}]
  /\ call \in [Callers -> Call \cup {None}]
TypeOK == ManagerType /\ rows \in Seq(Row)

(* A nickname has one entry: two channels that saw the same person, under  *)
(* whatever keys and in whatever order, share it (manager.go:42-45).       *)
OneEntryPerNickname ==
  \A j, k \in Keys :
    /\ j # k
    /\ seen[j] # None
    /\ seen[k] # None
    /\ seen[j].nick # None
    => seen[j].nick # seen[k].nick

(* What is announced lost has an ID: removePeer would otherwise drop every *)
(* provisional row, of whatever peer (ui/app.go:551-559).                  *)
LostHasId ==
  \A c \in Callers : call[c] # None /\ call[c].kind = "lost" => call[c].peer.id # None

(* Every callback the Manager owes has been made.                          *)
Settled == \A c \in Callers : call[c] = None

(* Nicknames of the people whose libp2p connections stay open and whom     *)
(* every channel knows by name: no report with one of their keys or        *)
(* addresses has another nickname.                                         *)
Staying ==
  {n \in Field("nick") \ {None} :
     \A p \in {r \in Reports : r.nick = n} :
       /\ p.id \notin Hosts
       /\ \A q \in Reports :
            \/ peerKey(p) # None /\ peerKey(q) = peerKey(p)
            \/ p.addrs # None /\ q.addrs = p.addrs
            => q.nick = n}

(* Then none of them has two rows in the TUI, although callbacks overtake  *)
(* one another and other people leave (manager.go:42-45).                  *)
NoDuplicateRows ==
  Settled => \A i, j \in DOMAIN rows :
    i # j /\ rows[i].nick \in Staying => rows[i].nick # rows[j].nick

(* And then each of them the Manager knows has a row: the loss of somebody *)
(* else never takes it away.                                               *)
EveryoneShown ==
  Settled => \A k \in Keys : seen[k] # None /\ seen[k].nick \in Staying =>
    \E i \in DOMAIN rows : samePeer(rows[i], Info(seen[k]))
===========================================================================
