-------------------------------- MODULE App --------------------------------
(***************************************************************************)
(* What the user does with the TUI (ui/app.go, files.go, setup.go) and the *)
(* goroutines of main.go around it: the core starts when the nickname is   *)
(* known, its events change the list of peers, keys choose a peer and a    *)
(* file, and what is to be sent goes through a bounded channel to a        *)
(* goroutine per request. One key or event is one step, as in Bubble Tea.  *)
(* Text editing is left out: Enter finds any text in the input line.       *)
(***************************************************************************)
EXTENDS PeerList, Integers

CONSTANTS
  Named,       (* the configuration holds a nickname (a boolean, or both)     *)
  Sightings,   (* the PeerInfo values of EventPeerFound                       *)
  Name,        (* the nickname of each peer ID                                *)
  Owner,       (* the peer ID at each address                                 *)
  Home, Entries,  (* the first directory; the entries of each                 *)
  Filters, Matching,  (* the texts of the filter; the names each one keeps    *)
  SendCap,     (* capacity of sendCh: 16                                      *)
  Asks         (* requests the user makes (bound)                             *)

NoFilter == ""   (* the filter input is empty                              *)

(* An entry: its name, and the directory it leads to (None for a file).    *)
Dirs == DOMAIN Entries
ASSUME NamesAssumption ==
  \A s \in Sightings : \E n \in {Name[p] : p \in DOMAIN Name} :
    /\ s.id # None => Name[s.id] = n
    /\ s.nick \in {n, None}
    /\ s.addrs # None => Name[Owner[s.addrs]] = n
(* A row of the list of peers.                                             *)
ShownRow == [id : DOMAIN Name \cup {None}, nick : {Name[p] : p \in DOMAIN Name} \cup {None},
             addrs : DOMAIN Owner \cup {None}, source : {s.source : s \in Sightings}]
ASSUME RowsAssumption == Sightings \subseteq ShownRow /\ None \notin ShownRow
ASSUME EntriesAssumption ==
  \A d \in Dirs :
    Entries[d] \in Seq([name : {Entries[d][i].name : i \in DOMAIN Entries[d]},
                        to : Dirs \cup {None}])
ASSUME BoundsAssumption ==
  SendCap \in Nat \ {0} /\ Asks \in Nat /\ Home \in Dirs /\ Named \subseteq BOOLEAN

VARIABLES
  core,        (* "setup" until the nickname, "named", "starting", "up", or
                  "failed"                                                   *)
  focus,       (* where keys go: "setup", "peers", "chat", "files", "filter"
                  (fileFiltering), or "quit"                                 *)
  showLog,     (* the middle panel is the log                                *)
  active,      (* m.activePeer, a copy of a row, or None                     *)
  cwd, idx, filter, (* the file panel: directory, cursor, filter              *)
  confirm,     (* confirmPath, or None                                       *)
  sendCh,      (* requests in the channel                                    *)
  sending,     (* requests whose goroutines run                              *)
  asks         (* requests the user may still make                           *)

peerVars == <<rows, active>>
fileVars == <<cwd, idx, filter>>
sendVars == <<sendCh, sending, asks>>
appVars == <<core, focus, showLog, peerVars, fileVars, confirm, sendVars>>

AppInit ==
  /\ \E named \in Named : /\ core = IF named THEN "named" ELSE "setup"
                          /\ focus = IF named THEN "chat" ELSE "setup"
  /\ showLog = TRUE /\ rows = <<>> /\ active = None
  /\ cwd = Home /\ idx = 1 /\ filter = NoFilter /\ confirm = None
  /\ sendCh = <<>> /\ sending = {} /\ asks = Asks

---------------------------------------------------------------------------
(* main.go: the core and the dispatcher                                    *)

(* Enter in the set-up screen; a goroutine hands the nickname on.          *)
EnterNickname ==
  /\ focus = "setup"
  /\ focus' = "chat" /\ core' = "named"
  /\ UNCHANGED <<showLog, peerVars, fileVars, confirm, sendVars>>

(* The dispatcher receives the nickname and starts the core beside itself. *)
StartCore ==
  /\ core = "named" /\ focus # "quit"
  /\ core' = "starting"
  /\ UNCHANGED <<focus, showLog, peerVars, fileVars, confirm, sendVars>>
Started ==
  /\ core = "starting"
  /\ core' \in {"up", "failed"}
  /\ UNCHANGED <<focus, showLog, peerVars, fileVars, confirm, sendVars>>

TakeOneByOne ==                    (* mutant: Send in the dispatcher itself   *)
  /\ core \notin {"setup", "named"} /\ focus # "quit" /\ sending = {}
  /\ sendCh # <<>>
  /\ sendCh' = Tail(sendCh) /\ sending' = {Head(sendCh)}
  /\ UNCHANGED <<core, focus, showLog, peerVars, fileVars, confirm, asks>>
Take ==
  /\ core \notin {"setup", "named"} /\ focus # "quit"
  /\ sendCh # <<>>
  /\ sendCh' = Tail(sendCh) /\ sending' = sending \cup {Head(sendCh)}
  /\ UNCHANGED <<core, focus, showLog, peerVars, fileVars, confirm, asks>>
Sent(r) ==
  /\ r \in sending
  /\ sending' = sending \ {r}
  /\ UNCHANGED <<core, focus, showLog, peerVars, fileVars, confirm, sendCh, asks>>

(* Events of the core reach Update in order.                               *)
SeenEarly(s) ==                   (* mutant: rows known before the start     *)
  /\ focus # "quit"
  /\ rows' = appendOrUpdate(rows, s)
  /\ UNCHANGED <<core, focus, showLog, active, fileVars, confirm, sendVars>>
PeerFound(s) ==
  /\ core = "up" /\ focus # "quit"
  /\ rows' = appendOrUpdate(rows, s)
  /\ UNCHANGED <<core, focus, showLog, active, fileVars, confirm, sendVars>>
PeerLost(p) ==
  /\ core = "up" /\ focus # "quit"
  /\ rows' = removePeer(rows, p)
  /\ UNCHANGED <<core, focus, showLog, active, fileVars, confirm, sendVars>>

---------------------------------------------------------------------------
(* Keys                                                                    *)

(* The dialog takes every key, Ctrl-C too.                                 *)
Key(f) == confirm = None /\ focus = f

Goes(from, to) == Key(from) /\ focus' = to
ChangeFocus ==
  /\ \/ Goes("chat", "files") \/ Goes("chat", "peers") \/ Goes("peers", "chat")
     \/ Goes("peers", "files") \/ Goes("files", "peers") \/ Goes("files", "chat")
  /\ UNCHANGED <<core, showLog, peerVars, fileVars, confirm, sendVars>>
(* Esc, q, or Ctrl-C. Esc in the file panel clears a filter first, but     *)
(* Ctrl-C quits there too. The core is cancelled.                          *)
Quit ==
  /\ confirm = None /\ focus # "quit"
  /\ focus' = "quit"
  /\ UNCHANGED <<core, showLog, peerVars, fileVars, confirm, sendVars>>
Tab ==
  /\ Key("chat") \/ Key("peers")
  /\ showLog' = ~showLog
  /\ UNCHANGED <<core, focus, peerVars, fileVars, confirm, sendVars>>

(* prevPeer (step -1) and nextPeer (1): the first row with the ID of the   *)
(* active peer that has a neighbour; without one, it stays.                *)
Neighbour(step) ==
  LET at == {i \in DOMAIN rows : rows[i].id = active.id /\ i + step \in DOMAIN rows}
  IN CASE rows = <<>> -> None
       [] rows # <<>> /\ active = None -> rows[IF step = 1 THEN 1 ELSE Len(rows)]
       [] OTHER -> IF at = {} THEN active ELSE rows[First(at) + step]
UpDown ==
  /\ Key("chat") \/ Key("peers")
  /\ \E step \in {-1, 1} : active' = Neighbour(step)
  /\ UNCHANGED <<core, focus, showLog, rows, fileVars, confirm, sendVars>>

(* Enter without text: the first peer, unless one is active, and its chat. *)
Choose ==
  /\ Key("peers") \/ (Key("chat") /\ showLog)
  /\ active' = IF active = None /\ rows # <<>> THEN rows[1] ELSE active
  /\ showLog' = (showLog /\ active' = None)
  /\ focus' = "chat"
  /\ UNCHANGED <<core, rows, fileVars, confirm, sendVars>>

(* refreshSendTarget: the first row of the same peer now.                  *)
FirstRow(a) == IF rows = <<>> THEN a ELSE rows[1]    (* mutant               *)
Fresh(a) ==
  LET same == {i \in DOMAIN rows : samePeer(rows[i], a)}
  IN IF same = {} THEN a ELSE rows[First(same)]

AskUnbounded ==                    (* mutant: a channel without a bound       *)
  /\ asks > 0
  /\ asks' = asks - 1
  /\ active' = IF active = None THEN None ELSE Fresh(active)
  /\ sendCh' = IF active = None \/ active'.id = None THEN sendCh
               ELSE Append(sendCh, [n |-> asks, to |-> active'.id, shown |-> active.nick])
  /\ UNCHANGED <<core, focus, showLog, rows, fileVars, sending>>
(* Without an active peer, or without its ID, nothing is sent; nor, and    *)
(* nobody is told, when the channel is full. A request keeps the name the  *)
(* user had before him (history).                                          *)
Ask ==
  /\ asks > 0
  /\ asks' = asks - 1
  /\ active' = IF active = None THEN None ELSE Fresh(active)
  /\ sendCh' = IF active = None \/ active'.id = None \/ Len(sendCh) = SendCap THEN sendCh
               ELSE Append(sendCh, [n |-> asks, to |-> active'.id, shown |-> active.nick])
  /\ UNCHANGED <<core, focus, showLog, rows, fileVars, sending>>

(* Enter with a text or /file. (/connect goes another way: Connections.)   *)
Submit == Key("chat") /\ Ask /\ UNCHANGED confirm
(* The dialog: Enter or y, n or Esc.                                       *)
Confirm == confirm # None /\ confirm' = None /\ Ask
Cancel ==
  /\ confirm # None /\ confirm' = None
  /\ UNCHANGED <<core, focus, showLog, peerVars, fileVars, sendVars>>

---------------------------------------------------------------------------
(* The file panel                                                          *)

Visible ==
  LET all == Entries[cwd]
  IN Picked(all, {i \in DOMAIN all : \/ filter = NoFilter \/ all[i].name = ".."
                                     \/ all[i].name \in Matching[filter]})

Cursor ==
  /\ Key("files")
  /\ idx' \in {idx - 1, idx + 1} \cap DOMAIN Visible
  /\ UNCHANGED <<core, focus, showLog, peerVars, cwd, filter, confirm, sendVars>>
Slash ==
  /\ Goes("files", "filter")
  /\ idx' = 1
  /\ UNCHANGED <<core, showLog, peerVars, cwd, filter, confirm, sendVars>>
(* A character more or less.                                               *)
Type(q) ==
  /\ Key("filter")
  /\ filter' = q /\ idx' = 1
  /\ UNCHANGED <<core, focus, showLog, peerVars, cwd, confirm, sendVars>>
Apply ==
  /\ Goes("filter", "files")
  /\ UNCHANGED <<core, showLog, peerVars, fileVars, confirm, sendVars>>
(* Esc while or after filtering.                                           *)
Clear ==
  /\ Key("filter") \/ (Key("files") /\ filter # NoFilter)
  /\ focus' = "files" /\ filter' = NoFilter /\ idx' = 1
  /\ UNCHANGED <<core, showLog, peerVars, cwd, confirm, sendVars>>

OpenDirKeepsCursor ==              (* mutant: the cursor stays                *)
  /\ Key("files") /\ idx \in DOMAIN Visible
  /\ Visible[idx].to # None
  /\ cwd' = Visible[idx].to /\ filter' = NoFilter
  /\ UNCHANGED <<core, focus, showLog, peerVars, idx, confirm, sendVars>>
(* Enter on an entry: a directory is opened ...                            *)
OpenDir ==
  /\ Key("files") /\ idx \in DOMAIN Visible
  /\ Visible[idx].to # None
  /\ cwd' = Visible[idx].to /\ idx' = 1 /\ filter' = NoFilter
  /\ UNCHANGED <<core, focus, showLog, peerVars, confirm, sendVars>>
(* ... a file asks to be confirmed, if there is somebody to send it to.    *)
Pick ==
  /\ Key("files") /\ idx \in DOMAIN Visible
  /\ Visible[idx].to = None /\ active # None
  /\ confirm' = Visible[idx].name
  /\ UNCHANGED <<core, focus, showLog, peerVars, fileVars, sendVars>>

---------------------------------------------------------------------------
AppNext ==
  \/ EnterNickname \/ StartCore \/ Started \/ Take
  \/ ChangeFocus \/ Quit \/ Tab \/ UpDown \/ Choose \/ Submit \/ Confirm \/ Cancel
  \/ Cursor \/ Slash \/ Apply \/ Clear \/ OpenDir \/ Pick
  \/ \E q \in Filters : Type(q)
  \/ \E s \in Sightings : PeerFound(s)
  \/ \E p \in DOMAIN Name : PeerLost(p)
  \/ \E r \in sending : Sent(r)

AppSpec == AppInit /\ [][AppNext]_appVars

(* Goroutines run on; nothing is asked of the user, and a Send may hang.   *)
AppFairness == WF_appVars(StartCore) /\ WF_appVars(Started) /\ WF_appVars(Take)
AppFairSpec == AppSpec /\ AppFairness

---------------------------------------------------------------------------
Request == [n : 1..Asks, to : DOMAIN Name, shown : {Name[p] : p \in DOMAIN Name} \cup {None}]
AppTypeOK ==
  /\ core \in {"setup", "named", "starting", "up", "failed"}
  /\ focus \in {"setup", "peers", "chat", "files", "filter", "quit"} /\ showLog \in BOOLEAN
  /\ rows \in Seq(ShownRow) /\ active \in ShownRow \cup {None}
  /\ cwd \in Dirs /\ idx \in Nat \ {0} /\ filter \in Filters \cup {NoFilter}
  /\ sendCh \in Seq(Request) /\ Len(sendCh) <= SendCap
  /\ sending \subseteq Request /\ asks \in 0..Asks

Requests == sending \cup {sendCh[i] : i \in DOMAIN sendCh}

(* Whatever rows come, go and merge between the choice of a peer, the key  *)
(* that sends and the goroutine that does, a request goes to somebody of   *)
(* the name that stood in the header or the dialog. (app.go:157-182: the   *)
(* target is resolved again at the last moment.)                           *)
SentAsShown == \A r \in Requests : r.shown \in {Name[r.to], None}

(* No Send runs before the core is up, although the dispatcher takes       *)
(* requests while Start runs: Send, unlike Connect, does not look          *)
(* (main.go:131-144, service.go:411).                                      *)
NothingBeforeStart == sending # {} => core = "up"

(* The cursor is on an entry that is shown, if any is, so that Enter takes *)
(* what is highlighted: the view would move a cursor beyond the end to the *)
(* last entry, the key would not (app.go:504, files.go:119-125).           *)
CursorShown == Visible # <<>> => idx \in DOMAIN Visible

(* What entered the channel is taken, even when earlier requests hang,     *)
(* unless the user quits (main.go:139-144).                                *)
Drains == <>(focus = "quit") \/ <>[](sendCh = <<>>)
=============================================================================
