# bdpeer in TLA+

bdpeer is a peer-to-peer chat and file-transfer program for the terminal (Go,
with a CoreBluetooth part in Objective-C). Peers find one another by mDNS, SSDP,
WSD, BLE and a DHT, and talk over libp2p, over BLE GATT, or over a WebRTC
connection signalled through BLE. This directory holds TLA+ models of its
concurrent parts, the instances TLC checks, and theorems checked by TLAPS.

All source paths below are relative to `src/internal/` unless they begin with `src/`.

## 1. Inventory

| Component | State it keeps | Operations | Interacts with |
|---|---|---|---|
| File transfer, acks (`core/service.go`, `transfer/`) | `acks` table, one channel per Send, files in the receive directory | Send, onInboundStream, ReadFile, registerAck, deliverAck, dropAck, sendFileAck | a transport's stream; the UI's events |
| Registry and transports (`transport/`, `core/service_ble*.go`) | registry per peer; BLE entries with pipe and `writeMu`; WebRTC connections | Register, Unregister, Lookup, Attach, InboundData, OpenStream, Close, OnClose | BLE callbacks, the upgrader, Send |
| libp2p connections (`net/host.go`, `core/service.go`) | swarm connections, a route per peer, back-off of the DHT loop | Connected, Disconnected, each with a goroutine; Hello; the DHT loop | registry, manager, Send |
| Discovery manager (`discovery/manager.go`) | `seen`, entries by key | Add/Notify, Forget | every discovery channel; OnPeerFound, OnPeerLost |
| Peer list (`ui/app.go`) | `peers` | appendOrUpdate, samePeer, removePeer | event channel, selection |
| UI and program (`ui/app.go`, `ui/files.go`, `ui/setup.go`, `cmd/bdpeer/main.go`) | focus, active peer, file panel, dialog, `sendCh` | keys, set-up, dispatcher with a goroutine per request | peer list, core, Send |
| BLE chunks (`discovery/ble_chunk.go`, `.m`, `ble_linux.go`, `ble_windows.go`) | assemblers per peer, `_pendingNotifies` | Make*Chunks, Feed, notifyOrQueueChunk, the ready callback | the radio; BLE transport |
| CoreBluetooth lifecycle (`ble_corebluetooth.m`) | connecting / ready / retried sets, subscribed centrals | discover, connect, time out, retry, recover | Go callbacks |
| Windows and Linux BLE (`ble_windows.go`, `ble_linux.go`) | connecting set, data characteristics, back-off, echo suppression | scan window, connect, subscribe | Go callbacks |
| WebRTC upgrade (`net/webrtc_upgrade.go`) | `pendingOffers` per peer | OnBLEPeerFound, OnSDPReceived, timeouts | BLE signalling, handleWebRTCConn |
| WebRTC connection (`net/webrtc.go`) | pipe, drain and close channels | Read, Write with back-pressure, Close | WebRTC transport |
| mDNS, SSDP, WSD (`discovery/`) | timers | advertise, search | manager |
| UI views, config, update | one JSON file | sequential | - |

### What is hard here

* **Races between actors**: an ack against its timeout; callbacks the manager makes
  after it released its lock; BLE callbacks that replace an entry that a Send is
  using; OnClose goroutines that act on a peer key and not on their connection.
* **Loss and reordering**: BLE drops frames and chunks silently; queued notifications
  can be overtaken; a broadcast notification reaches every subscriber.
* **Partial failure**: a receive that fails while its sender keeps writing; a
  connection that breaks inside a file or before its OnClose is set.
* **Two receives of one file name**, which share a path.
* **Marks that keep an operation from running twice** (pendingOffers, windowsConnecting,
  linuxDataChars, _connectingPeripheralIDs): one that is left behind stops it for ever, and
  timers and callbacks of an earlier attempt arrive in a later one.
* **Connections of one peer that meet**: events carry the peer, not the connection.

### What makes each component correct

* *Transfer*: what the sender reports agrees with what the receiver decided; a file
  reported received is the file that was sent; no ack is lost to bookkeeping, no slot
  leaks; every Send returns, but for a write nobody reads any more.
* *Chunks*: what is passed on is a whole message, in order, of the right peer; no
  queued chunk is forgotten.
* *Discovery*: one entry and one row per person, everyone has a row, what is lost has
  an ID; labels and IDs are kept or gained, never lost.
* *Routing*: a route that exists can be used and is not lost; bytes of a peer reach one
  reader while it lasts; a dead connection is taken out.
* *libp2p connections*: a peer has a route and a row while it is connected, up to late
  goroutines, and one that was lost comes back.
* *Upgrade*: no slot and no connection is left behind, no connection takes two answers.
* *BLE connecting*: every mark belongs to an attempt that ends; whoever is not connected
  can be tried again.
* *UI*: what is sent goes to whom the user saw; nothing before the core is up.

## 2. Modules

| Module | Role |
|---|---|
| `FileTransfer` | Send, the frame loop, ReadFile and the ack protocol between two peers, over any of the three transports |
| `TransferPromise` | what a transfer promises its users; `FileTransfer` implements it |
| `PeerList` | the list of peers on the screen: `rows` and its operators, shared by `Discovery` and `App` |
| `Discovery` | the manager with its callbacks, and the peer list they change |
| `BleChunks` | how a message crosses BLE, in the four forms of the code |
| `Routing` | the registry, the BLE and WebRTC entries of one peer, their callbacks and their users |
| `Upgrader` | the WebRTC upgrade signalled over BLE: several initiators, a responder that broadcasts |
| `Connections` | libp2p connections with a peer, its route and row, the DHT loop |
| `ConnectTable` | how Windows and Linux connect to BLE addresses, and what a Send finds |
| `CentralConnect` | how a Mac finds, connects and keeps one BLE peripheral |
| `App` | keys, file panel, dialog, core start and dispatcher, over `PeerList` |
| `FileTransferProofs`, `PeerListProofs` (`Discovery` and `App`), `BleChunksProofs`, `RoutingProofs`, `UpgraderProofs`, `ConnectionsProofs`, `ConnectTableProofs`, `CentralConnectProofs` | the theorems about each |
| `MCFileTransfer`, `MCDiscovery`, `MCBleChunks`, `MCRouting`, `MCUpgrader`, `MCConnections`, `MCConnectTable`, `MCCentralConnect`, `MCApp` | give the constants their values for TLC |

An operator marked `mutant` is a plausible mistake in the definition after it, used to see that a
property notices it. No specification uses one.

### FileTransfer

A peer runs any number of `Send` calls (files and texts) to another peer. `pc[s]` is
where a call is, `pos[s]` how many frames it wrote, `wire[c]` the frames in stream `c`.
On libp2p each Send has its stream and its reader; on BLE and WebRTC all share one,
and `WriterFree` is `writeMu`. `reader[c]` says whether the handler of `c` waits for a
frame, is inside ReadFile of some file, or has returned. `disk` maps paths to contents,
with `linked[c]` telling whether the handler's open file is still the one at its path:
that is how two receives of one name are told apart. The ack table is `acks`; an ack that
was taken out of it and is not yet in the channel is in `taking` (deliverAck unlocks in
between). `Window` bounds what a reliable stream holds before its writer blocks; BLE
never blocks and `LoseFrame` may drop any frame. File contents are the sequence of
(file, chunk number) pairs, so the checksum of FILE_END is that sequence.

A file is never empty of frames: FILE_START, its chunks, FILE_END. Progress events,
sizes and the text of errors are left out.

### Discovery

`seen` is the manager's map, `call[c]` the callback goroutine `c` has computed and not
yet made, `rows` the list on the screen. A report is a record of the five fields that
matter; `Addrs` is one address or none because the code looks at its length and at its
first element only. `Staying` are the people who stay and whom every channel knows by name. `Notify` has one action per branch of Add: merge by nickname,
insert, merge by key. What appendOrUpdate and removePeer make of a row is in `PeerList`.

### BleChunks

`current[p]` and `next[m]` are the sending loop, `pending`, `refused` and `draining` are
`_pendingNotifies` and the ready callback, `air[p]` the chunks on their way, `asm[p]` the
assembler. The constants choose the form: `Serial` (everything on bleQueue), `Path`
(write without response or notify), `Session` (Windows chunks with recipient),
`ChecksTotal` (Go's assemblers compare totals, handleChunk in the `.m` does not),
`Forgets` (a disconnect clears the assembler: Mac). A chunk is (message, index); bytes
and headers are left out.

### Routing

One peer stands for all, because no operation touches two keys. Each BLE callback is a
process: `attach`, `register`, then `use` (send a Hello, or deliver data). On a Mac one
callback runs at a time (bleQueue); on Windows they interleave and look the peer up first.
`handleWebRTCConn` is the steps Hook, AttachRtc, RegisterRtc, Supersede and ClosePipe of a
connection: BLETransport.Close takes the entry out of the map under the lock and closes its pipe after
it, so a callback may attach the peer in between. OnClose is two steps (Unregister, then webrtcT.Close),
one goroutine per state change; a connection that is Disconnected may come back. `open` are the
entries whose pipe no Attach or Close has closed, `ended` those whose reader returned by itself (a
message that is no frame, a failed file): `ReaderEnds` closes the reading end and leaves the entry. A
stream looks up, opens, waits for `writeMu`, writes, closes.

### Upgrader

`at[o]` is where the initiator's goroutine of attempt `o` is, `pc[o]` its connection, `far[o]` the
responder's end, `pending[i]` the slot of initiator `i` for the responder. OnBLEPeerFound looks at the
slot in one action and fills it in another, up to 15 s later; OnSDPReceived takes the slot and sets
the answer in two (`hold`). Setting it may fail, and
then closes the connection. Answers go into every initiator's `inbox`. Messages may never arrive:
nothing forces `Receive` or `Take`. `select` with both cases ready may choose either.

### Connections

`open` are the connections with one remote peer (or a relay, which speaks no bdpeer), `hook` and
`gone` the goroutines of OnConnected and OnDisconnected of each, `hello` the remote's Hello, `send` a
Send on its way, `dht` and `backoff` the loop of `findAndConnectDHTPeers`. User commands, LAN sightings
and incoming connections are `Open`, at any time. `unseen` are the open connections from before
AttachDiscovery, which nobody registers. `listed` is the entry under the peer's ID; `twin` says that
another channel listed the nickname under a key of its own, into which a Hello merges. Three
histories name how route and row may come to differ from the connections: `late`, an OnConnected gave
the route after its connection had closed; `robbed`, the route was last taken while a connection was
open, by the Disconnected of another or by a failed Send; `tardy`, a Hello was announced after its
connection had closed, or the last connection closed before AttachDiscovery. `calm` is the
environment's promise that connections stay up.

### ConnectTable

`build` is chosen in Init, since both programs share one shape: an address is marked
(`windowsConnecting`, or the sentinel in `linuxDataChars`), then Connect, Discover, Subscribe, each of
which may fail and clean up. The Windows loop scans and then connects to what it found, one address
at a time; Linux starts a goroutine for each advertisement. `chars` is keyed by session on Windows, by
address on Linux. A sender looks its peer up and writes later; on Windows it may notify, which raises
the suppression counter around a write that calls WriteEvent. `lost` remembers addresses whose
connection broke after it was subscribed: the code never removes their mark. `Nameless` are the
addresses without a nickname in their manufacturer data, which the Linux callback ignores
(`ble_linux.go:68-71`); `Refused` those that fail the checks after the connection for good: no data
characteristic, no session, the own nickname (`ble_windows.go:345-351`).

### CentralConnect

Every delegate callback and every `dispatch_after` block runs on the serial bleQueue, so each is one
action. `known`, `connecting`, `ready`, `retried`, `reasked` are the tables' entries of one peripheral, `os`
what CoreBluetooth makes of it, `owed` the connection callbacks that wait on the queue, `asked` the GATT
requests under way, `timers` the blocks that wait. PowerOff may end a connection with or without a
callback. `DidDiscover` may happen at any time of a scan and is assumed at none: with options:nil
CoreBluetooth reports a peripheral once and again when it sees fit. `OtherGivenUp` is a recovery scan
that another peripheral caused. A block is counted once more only up to `MaxTimers`; one more of a kind has no effect
a shorter count has not.

### App

One key or event is one step, as in Bubble Tea. `rows` is the list on the screen, `active` a copy of
one of its rows, `sendCh` the channel to the dispatcher, `sending` the goroutines it started. A request
keeps the name the user saw (`shown`, history). Left out: the text of the input line (Enter finds any),
the log, the progress of a transfer, and what the peers' directories do meanwhile.

### How they fit together

`Upgrader` ends where `Routing` begins: with OnConnected of a connection (`handleWebRTCConn`), and
`Routing`'s Found and `ConnectTable`'s `attached` are the callbacks BLE connecting makes.
`Discovery` lists a peer, `Connections` makes and unmakes its libp2p route, `App` chooses it and hands a
request to `FileTransfer`'s Send.
`FileTransfer` takes one entry and one reader of a shared transport as given; `Routing`
is about how these come and go. `BleChunks` is what lies under a BLE frame: a message there
is a frame here, and a message that is not delivered is `LoseFrame`.

## 3. Runs

Passing runs.

| Run | Instance | What it shows |
|---|---|---|
| `FT_libp2p` | 2 files (2 and 1 chunks), own paths | no verdict is lost or leaked, a file reported saved is intact, damage is always reported, every Send returns or is blocked on a full stream that nobody reads |
| `FT_ble` | the same and a text, over one lossy pipe | every step is one of `TransferPromise` or a stutter: no transfer is decided twice, "done" means saved |
| `D_lan` | 6 reports of 2 people by 4 goroutines, and one whose connections close | one entry per nickname; the person who stays has one row and keeps it; what is lost has an ID |
| `BC_mac_notify` | a Mac notifies 2 Linux centrals through a queue of 2 | gapless and of one length although overtaken; the queue always drains |
| `BC_windows` | notifications that reach every subscriber, losses, reconnections | each takes its own; a message whose start arrived takes nothing older |
| `R_upgrade` | 2 attach callbacks, a message, 1 connection, 1 Send, a Hello | no pipe of an old entry stays open, no callback closes a pipe under a message, the BLE route stays until the connection is handed over; one that breaks after it was attached leaves the map |
| `U_two` | 2 initiators, 2 attempts of one or both | a taken slot is always waited on, no connection takes two answers, every initiator's connection is handed over or closed |
| `CN_two` | 2 connections at a time, a back-off of 2 rounds | route and row differ from the connections only by a late OnConnected, a late Hello, a route that was taken, or connections from before AttachDiscovery; a lost peer rejoins for good |
| `CT_both` | 3 addresses, 2 of one device, one nameless, one refused; 2 workers, 2 senders, both builds | no mark outlives a failure, no Send to the sentinel, no attempt in back-off, no suppression beyond a notification, whoever is neither ignored nor refused and never lost a connection is reached |
| `CC_mac` | 1 peripheral, 2 connect time-outs, both scan modes, radio off and on | a connect mark is watched, ready means connected, no known peripheral is stuck: it gets ready or is forgotten |
| `APP_keys` | 3 peers, two of one name; 3 directories; 2 requests, a channel of 1 | requests go to the name the user saw and never before the core is up; the file cursor stays on what is shown; the channel drains although a Send hangs |

One run ends in a counterexample: what the code does against what a comment says. It is the finding of
`PROJECT.json`.

| Run | Violated | In short |
|---|---|---|
| `BC_notify_overtakes` | `StaleStaysOut` | a new message overtakes queued chunks, with no loss at all |

Types are invariants of the runs of `Discovery` and `App`, and theorems for every module.

### Where the properties end

Some properties are stated for less than one would wish, because the code does not have
more. The model shows it when the instance is widened:

* `ReturnsOrBlocked` has an exception, because that every Send returns does not hold. A receiver that
  failed a file stops reading (`core/service.go:352`); over WebRTC the pipe then fills, over libp2p a closed
  stream gets no more window (yamux), and the sender stays inside its write, which has neither a deadline nor
  a look at its context (`core/service.go:454`), before its ACK timer starts. The property says that
  this is the only place where a Send can stay, while the connection does.
* `SavedIntact` needs paths of their own and a stream that loses nothing: two receives of one
  name write into one path (`transfer/file.go:95`), and over BLE the next transfer's frames are
  written into the file whose end was lost.
* A replaced BLE entry has a `writeMu` of its own (`transport/ble.go:48`): a Send on the old stream and
  one on the new write at once, although the lock is there to serialise the sends of a peer (`:75`). No
  property claims that it does.
* `NoDuplicateRows` and `EveryoneShown` speak of people none of whose connections close, and who
  are always seen with their nickname (`Staying`). A loss that overtakes an older sighting leaves its person
  two rows or none; an advertisement without a nickname that follows one with it renames the
  entry, and the next sighting makes a second one.
* A delivered buffer of `BleChunks` is a run without gaps, but not always one message: the
  start of one and the end of another of the same length are joined when what lay between is lost.
* `DataReachesReader` leaves out the messages behind a reader that returned by itself
  (`core/service.go:299`, `:352`), whose entry stays in the map and swallows what comes until the peer is attached
  again, and those of an entry an upgrade took. It is checked and proved where callbacks are serial. On
  Windows two callbacks that look the peer up before either registered it both attach, and the
  second closes the pipe that the first one's message is on its way to.
* `FallbackStays` ends when a connection is handed over, and `BrokenLeaves` speaks of connections
  that were alive when attached: OnClose removes whatever route the peer has by then, and a
  connection that broke before OnClose was set (`core/service_ble.go:106`) stays in the map.
* `SlotWaits` and `EveryConnEnds` do not say that one offer is out at a time: the check of the slot and
  its filling are apart (`net/webrtc_upgrade.go:68-97`), so a second offer may overwrite the first, take its
  answer, or lose its slot to the first one's time-out. Both connections then end by their time-outs.
  `EveryConnEnds` is about the initiator's end of a connection.
* `RouteFollows` and `RowGoes` hold for connections that overlap in any way, and name what the code
  does not prevent. Any Disconnected forgets and unregisters a peer that has another connection, and a Send
  that fails, for whatever reason, takes the route of a connected peer (`robbed`); the DHT loop leaves
  connected peers alone. An OnConnected that runs after its connection closed gives a route that stays (`late`).
  A Hello read before its connection closed and announced after it lists a peer that nothing forgets, with
  one connection alone (`tardy`). Connections made before AttachDiscovery (`core/service.go:238`) are
  never registered (`unseen`), and their rows not forgotten.
* `NoMarkLeft` and `Reached` leave out addresses whose subscribed connection broke: neither build removes
  their mark, so they are not connected again (`discovery/ble_linux.go:83`).
* `Reached` leaves out what is refused for good, and on Linux the addresses without a nickname in their
  manufacturer data. No program of this version puts one there: a Mac advertises the service and a local name
  (`discovery/ble_corebluetooth.m:168-171`), Windows service data (`discovery/ble_windows.go:223-225`), and Linux does not
  advertise. So the Linux half of the property speaks of other or older programs, and Linux connects to none of
  this version, although `src/README.md:173` says that macOS and Linux communicate over BLE GATT.
* `Watched`, `ReadyIsConnected`, `NotStuck` and `Settles` leave out what was known when Bluetooth was
  switched off. `Settles` also leaves out a connect request that CoreBluetooth never answers and whose mark the late
  didFail of an earlier attempt removed. It says that a peripheral that failed is forgotten, and not that it is
  found again: not every failure schedules a recovery scan, and with the continuous scan none does
  (`discovery/ble_corebluetooth.m:348-350`), although `src/README.md:75` says that a recovery scan catches the peer
  again; the scan that runs has options:nil (`:317`) and need not report it a second time.
* `SentAsShown` is by name: of two peers with one nickname the other may be the one that gets the
  message. What is entered while `sendCh` is full is shown as sent and dropped (`ui/app.go:385`), and
  requests run in goroutines of their own, so their order is not kept (`cmd/bdpeer/main.go:141`).
* `App` shows more that no property is about: after the active peer left while others stay, Up and
  Down find no row and the selection is stuck (`Neighbour`); the dialog takes Ctrl-C as
  any other key (`ui/app.go:289`).

### Bounds

Two concurrent Sends are the least with which acks, paths and the shared pipe can be
confused; files of two and of one chunk have a first, an inner and a last frame and differ
in length; `Window = 2` lets a writer block in the middle of a file. Three BLE messages, two of
one length to one device, give every splice; room for 2 chunks makes updateValue refuse
inside a message. Of the two people in `D_lan` one is seen under four keys, with and without
an ID and a nickname, and leaves; the other is seen under two: every merge rule, and every
overtaking of two callbacks. In Routing two of each kind of callback and Send give each pairwise
race; a connection may be lost and come back, so its OnClose goroutines are bounded by `MaxLosses` (2 at a
time), and `Hellos` names the callbacks whose Hello goroutine gets a turn (one; the theorems hold for any). Two attempts in `Upgrader` are of one initiator or of two: an overwritten slot, a
foreign answer and a late time-out each take two. Two connections are what meeting takes; a
back-off of 2 rounds tells its start from its end. Two addresses of one session and two workers give every
race for a mark, a third one is refused, two senders give every overlap of a write and its echo. In `CentralConnect` the queue
holds two connection callbacks (`MaxOwed = 2`; the safety properties are proved for any number), so
that one of a new attempt crosses one of an old, and two connect time-outs can wait, so that one of an earlier
attempt falls into a later one. In `App` a channel of 1 is full after one request and empty again, as
one of 16 is after 16; three directories let a cursor be beyond the end of the next one.

Counters that are bounded by a guard: `Asks` (requests of the user), `MaxOwed` (the OS reports no more
while the queue is full), `MaxLosses`, `Rounds`; `MaxTimers` saturates. All else is finite because Sends, messages,
callbacks and connections are.

Deadlock is checked for `Discovery` and `BleChunks`, where something can always happen.
The others stop when all calls have returned, every attempt is over or the user has quit, so their
runs switch it off.

### Fairness

* `FileTransfer`: a goroutine that can write, close, hear an ack or time out does so; the
  handler of a stream goes on reading until it returns; after that only BLE drains the stream. A
  write on a live but full stream is not forced, and neither is loss. Timers do fire: that is `GiveUp`.
* `BleChunks`: blocks and callbacks of bleQueue run to their end, chunks on the air arrive,
  and the OS makes the ready callback it owes once it has room.
* `Routing`: an OnClose goroutine that was started runs on.
* `Upgrader`: goroutines run on and the timers of both ends fire; messages and ICE are not forced.
* `Connections`: goroutines run on, and the DHT loop goes round, finds the peer and dials it.
* `ConnectTable`: the loop, its workers and their calls go on, a back-off ends, an address that
  advertises is heard.
* `CentralConnect`: bleQueue runs its callbacks and blocks, and CoreBluetooth answers a GATT request of a
  connection that stays. No report of a scan and no answer to a connect request is assumed.
* `App`: the core's start and the dispatcher run; nothing is asked of the user, and a Send may hang.

Liveness that needs a working network or radio says so: `calm`, which the environment may set at any
time, after which nothing is lost any more.

## 4. Proofs

All theorems hold for every value of the constants that satisfies the named assumptions
(the kinds of processes are disjoint, `None` is not one of the values, sizes are natural
numbers); TLC evaluates these on the instances. A theorem with a further hypothesis names it below, and
section 3 says what goes wrong without it. Every module has its types proved, and every invariant a passing run
checks is the statement of a theorem.

**FileTransferProofs.** `TypeCorrect` needs one fact more than the type: a linked
descriptor has a file at its path. For the others the inductive invariant ties the ack's
way together: the places an ack of a Send can be (in the table, being taken, in the
channel) are exclusive and exactly one holds while the Send waits; an ack in flight
carries the verdict of the receiver; a transfer that is still on a wire or in a reader
has not been decided. From it follow `AckBookkeeping`, `AcksArriveInTime`,
`ReceiverDecidesOnce`, `DoneReflectsReceiver`, and `Implements`: with the Sends' reports as
refinement mapping every step is a step of `TransferPromise` or a stutter.

`SavedFilesWhole` and `DamageNeverSilent` suppose that no frame is lost (`Transport # "ble"`) and that no two
files have one name (`OnePathEach`). Their invariant `WholeInv` is about the frames on a stream, whoever writes
it: every frame but a first one comes right after the one before it (`Ordered`), the next one a call writes
continues what it wrote last (`Continued`), and one call at a time is in the middle of its frames (`OneWriter`), which is
what `writeMu` is for. So the FILE_END that ReadFile gets is of the transfer it reads, although it carries a
checksum and no ID; and the path holds exactly what was hashed (`OnDisk`).

**PeerListProofs.** First what the list operations do to any list: `UpdateProperties` (a row is appended, or the
first row of the same peer is updated in place), `PickedProperties` and `RemoveProperties` (the kept rows, each
once, in order). Since induction over data is out of reach, they rest on the rank of a position and a
least counterexample (`NatMin`, `RankExists`).

*Discovery.* `NicknamesUnique`: the three branches of Notify each keep entries
with different keys and equal nicknames apart, since a report that has a twin is merged
into it. `LostPeersHaveIds`: Forget looks up by libp2p ID, and an entry under such a key
has that ID (a merge keeps the ID of its entry). `NobodyTwice` and `NobodyMissing` need `PeopleInv`: whatever bears an
ID or an address of a person who stays bears the nickname too (`Belongs`), in the Manager, in every callback
under way and in every row; all of them have the ID of the one entry of that nickname, none is announced
lost (`OneId`); and whom the Manager knows has a row or a callback that will make one (`Announced`). Callbacks
may overtake one another because all that are under way for one person agree on the ID.

*App.* `SentToTheNameShown` keeps that every row, and the copy in `active`, speaks of one name only
(`OwnedInv`): two rows that samePeer takes for one have the same, so an update mixes nothing and the
target resolved at the last moment is of the name shown. `NoSendBeforeStart` keeps that before the core is up there are no rows, hence
no active peer, hence no request (`QuietInv`), and that the set-up screen never comes back. `CursorIsShown`
is inductive with the types: every key that changes what is shown puts the cursor on the first entry.

**BleChunksProofs.** An assembler holds chunks 0, 1, ... without gap and not yet the last
one; every chunk anywhere is one of a message; with `ChecksTotal` all have the length of
the first; and on a device's air there are only chunks whose audience includes it. From
it `DeliversRuns`, `DeliversOneLength`, `DeliversOwn`. `StaleBytesStayOut` holds for every form but one, a Mac's
notifications (`Serial /\ Path = "notify"`), where the queue lets a message overtake another. In the others no
first chunk is in the air behind a chunk of a message that began before it, and a chunk in the air of a message that was heard
from its start finds its own buffer or none (`OrderInv`), whatever the radio loses.

**RoutingProofs.** `NoReaderIsLeft` is inductive with the types: an Attach closes the pipe of the entry it
replaces, a Supersede remembers the one it takes (`removed`) until it has closed it. `FallbackKept` needs
that, as long as no connection was handed over, a registered peer and every callback about to
register it have an entry, so that no Send is refused one and none is about to unregister.
Both hold for `Serial = FALSE` too, the Windows callbacks on threads of their own, of which the
runs have no instance. `DataIsRead` supposes `Serial`. Its invariant `FlowInv`: one callback runs at a time
(`OneAtATime`), the entry in the map is open and no upgrade has taken it (`Current`), and the entry a message is aimed
at is the one in the map or one that an upgrade has taken since (`Aimed`).

**UpgraderProofs.** The invariant `Slots`: an attempt that is in a slot or in a callback's hands is that
initiator's, has no answer yet, and is in one of the two places only; one that has not been offered
has none, and one that is connected has one. That OnSDPReceived takes a slot and frees it under one lock
is what this rests on. From it follow `SlotsWait` and `OneAnswer`.

**ConnectionsProofs.** `RouteInv`, for connections that overlap in any way: what opened before
AttachDiscovery has no goroutine (`Reported`); a route that is not `late` has a reported connection or a Disconnected on
its way (`Given`); and where none is there and none was taken, every reported connection has its
OnConnected still to run (`Awaited`). From it follows `RouteIsConnection`. `Kept` is the same for the row, and gives
`RowIsConnection`. `OnlyPeersListed` needs only that a relay never says Hello.

**ConnectTableProofs.** `Owned`: a worker that is not idle has marked its address. With
`OneConnector` and `NoMarkLeft` this is inductive (`ConnectsOnce`, `MarksEnd`). `KeepsBackoff` adds `Loop`:
on Windows one worker connects at a time, in the connect phase, to an address that is not a candidate any
more, and no candidate is in back-off. `SentinelUnused` adds `Entries`: a Linux address that is or was
subscribed, or that the core knows, has its characteristic in the table and no worker on it.
`SuppressionIsCounted`: at any time finitely many senders write a notification, and the counter is at most
their number (`Counted`).

**CentralConnectProofs.** The invariant says that the last connection callback on the queue tells the
connection's state (`InStep`); that a mark is one of a known peripheral and has a connect time-out or a
callback that ends it (`MarkEnds`); that readiness and GATT answers belong to a connection whose
didDisconnect is still to come (`Lives`); and that a known peripheral has its way on, connected (`GoesOn`)
or not (`ComesBack`). Once Bluetooth was switched off only part of it is kept. From it follow
`MarksAreWatched`, `ReadyHolds` and `NeverStuck`, for queues and timers of any bound.

Only model-checked: the liveness properties (`ReturnsOrBlocked`, `PendingDrains`, `BrokenLeaves`,
`EveryConnEnds`, `Rejoins`, `Reached`, `Settles`, `Drains`), which the provers cannot reach, as they need fairness;
and that `BC_notify_overtakes` fails, which needs one behaviour and not a proof.

## 5. Plan

Done, in this order: `FileTransfer` with `TransferPromise`, `Discovery`, `BleChunks`, `Routing`, `Upgrader`,
`Connections`, `ConnectTable`, `CentralConnect`, `App` with `PeerList`.

What could follow: `SavedIntact` over BLE for the losses it survives; an instance of
`Routing` for the threads of Windows; the wait of a WebRTC write on `drainCh`; the advertising side of the Mac
peripheral.

## 6. Not modelled

* Formats: JSON frames, SDP, DNS-SD, SSDP and WSD packets, GATT headers. They are text and byte
  parsing without state.
* ICE, the DHT's routing table, CoreBluetooth, WinRT, BlueZ and `src/third_party/`: external, present as
  far as the code sees them.
* The wait on `drainCh` inside one WebRTC Write (`net/webrtc.go:241`): a callback between its look at
  BufferedAmount and its look at `drainCh` leaves it waiting on the next channel. To the models above it is
  a write that hangs.
* The UI's rendering and text editing, the configuration file, self update, flags and signals:
  sequential, one actor.
* Stop and the clean-up of each loop: the process ends with them.
