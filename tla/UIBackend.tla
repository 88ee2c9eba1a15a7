------------------------------ MODULE UIBackend ------------------------------
(***************************************************************************)
(* The live feed of the web UI backend (backend/pkg/uibackend/uibackend.go)*)
(* from the dnsmasq lease file to the browsers:                            *)
(*                                                                         *)
(*   lease file --inotify--> WatchLeases --leasesCh--> processLeaseUpdates *)
(*     --dhcpClientData, broadcastCh--> broadcastUpdatesToClients          *)
(*     --WebSocket--> browsers                                             *)
(*                                                                         *)
(* next to one handleWebSocketConn goroutine per connection, which sends   *)
(* the first message of its connection itself.  Both channels are          *)
(* unbuffered, so a send and its receive are one action.  A lease list is  *)
(* a set: processLeaseUpdatesFromArray sorts it by IP, so its order is a   *)
(* function of its elements.  A statement under a lock is one action when  *)
(* nothing else can look at what it touches, and several when it can.      *)
(***************************************************************************)
EXTENDS Sequences, Naturals

CONSTANTS
  Conns,          \* slots for WebSocket connections (a slot is used again)
  Leases,         \* the leases that can be granted
  Files,          \* the lease lists dnsmasq writes, each a set of leases
  NoList,         \* "no list": nothing copied, nothing shown
  RefreshEnabled, \* web_ui.refresh_interval_sec > 0
  Faults          \* the faults of the environment that can happen

FaultKinds == { "readError",    \* the first read of the lease file fails
                "badUpgrade",   \* a request for /ws that cannot be upgraded
                "stalledPeer",  \* a browser that stops reading its socket
                "watchError" }  \* WatchLeases returns an error

ASSUME ConstantsAssumption ==
  /\ Files \subseteq SUBSET Leases
  /\ Files # {}
  /\ NoList \notin Files
  /\ RefreshEnabled \in BOOLEAN
  /\ Faults \subseteq FaultKinds
  /\ Conns \cap {"free", "none", "watch", "proc", "bcast"} = {}

VARIABLES
  leaseFile,      \* content of /data/dnsmasq.leases
  watcher,        \* startup, then the goroutine inside WatchLeases
  dirty,          \* inotify has an event the watcher has not looked at
  readList,       \* the list the watcher is sending on leasesCh
  missed,         \* history: the last change fell between the baseline read
                  \* and the installation of the hook
  proc,           \* the processLeaseUpdates goroutine
  batch,          \* updatedLeases: what it received
  dhcpClientData, \* the backend's list of current DHCP clients
  dataLock,       \* dhcpClientDataLock
  bcast,          \* the broadcastUpdatesToClients goroutine
  bmsg,           \* the message it generated
  todo,           \* registered connections its loop has not reached
  current,        \* the connection it is writing to
  clients,        \* registered connections
  clientsLock,    \* clientsLock, and who holds it
  handler,        \* handleWebSocketConn, per connection
  hmsg,           \* the first message, per connection
  ws,             \* the socket, per connection
  peer,           \* the browser, per connection
  view            \* the last list the browser received, per connection

watchVars == <<leaseFile, watcher, dirty, readList, missed>>
procVars  == <<proc, batch, dhcpClientData, dataLock>>
bcastVars == <<bcast, bmsg, todo, current>>
regVars   == <<clients, clientsLock>>
connVars  == <<handler, hmsg, ws, peer, view>>
vars == <<watchVars, procVars, bcastVars, regVars, connVars>>

Lists == Files \cup {NoList}

MaybeList == {NoList} \cup SUBSET Leases

TypeOK ==
  /\ leaseFile \in Files
  /\ watcher \in {"booting", "failed", "off", "waiting", "sending", "dead"}
  /\ dirty \in BOOLEAN
  /\ missed \in BOOLEAN
  /\ readList \in Lists
  /\ proc \in {"recv", "lock", "fill", "notify"}
  /\ batch \in Lists
  /\ dhcpClientData \subseteq Leases
  /\ dataLock \in {"free", "proc"}
  /\ bcast \in {"select", "check", "copy", "lock", "loop", "writing"}
  /\ bmsg \in MaybeList
  /\ todo \subseteq Conns
  /\ current \in IF bcast = "writing" THEN Conns ELSE {"none"}
  /\ clients \subseteq Conns
  /\ clientsLock \in Conns \cup {"free", "bcast"}
  /\ handler \in [Conns -> {"none", "copy", "lock", "write", "read",
                            "unreg", "panicked"}]
  /\ hmsg \in [Conns -> MaybeList]
  /\ ws \in [Conns -> {"none", "open", "closed", "nil"}]
  /\ peer \in [Conns -> {"none", "up", "stalled", "gone"}]
  /\ view \in [Conns -> MaybeList]

Init ==
  /\ leaseFile \in Files
  /\ watcher = "booting"
  /\ dirty = FALSE
  /\ missed = FALSE
  /\ readList = NoList
  /\ proc = "recv"
  /\ batch = NoList
  /\ dhcpClientData = {}
  /\ dataLock = "free"
  /\ bcast = "select"
  /\ bmsg = NoList
  /\ todo = {}
  /\ current = "none"
  /\ clients = {}
  /\ clientsLock = "free"
  /\ handler = [c \in Conns |-> "none"]
  /\ hmsg = [c \in Conns |-> NoList]
  /\ ws = [c \in Conns |-> "none"]
  /\ peer = [c \in Conns |-> "none"]
  /\ view = [c \in Conns |-> NoList]

-----------------------------------------------------------------------------
(* Slips of this code that the properties below must catch: a lock that is *)
(* not taken, an unlock, a delete or a reset that is forgotten, a parser   *)
(* that stops at the first line.                                           *)

DataLockNotTaken == TRUE
ClientsLockNotTaken == TRUE
ResetForgotten == dhcpClientData
DeleteForgotten(c) == clients
UnlockForgotten(c) == c
RegistryCleared(c) == {}
ReadHalfWay == {}
DataUnlockForgotten == "proc"

-----------------------------------------------------------------------------
(* Guards and small steps shared by the goroutines.                        *)

\* ReadLeases.
ListRead == leaseFile

Started == watcher \notin {"booting", "failed"}

\* The handler is inside its first WriteJSON.
Writing(c) == handler[c] = "write"

DataLockFree == dataLock = "free"

ClientsLockFree == clientsLock = "free"

\* What the loop of processLeaseUpdatesFromArray starts from.
ResetData == {}

\* The registry after the handler of connection c gives up.
Unregistered(c) == clients \ {c}

\* The registry after a failed broadcast to connection c.
Evicted(c) == clients \ {c}

\* Who holds dhcpClientDataLock after a rebuild.
LockAfterRebuild == "free"

\* Who holds clientsLock after the handler's first write.
LockAfterFirstWrite(c) == "free"

-----------------------------------------------------------------------------
(* dnsmasq, startup and WatchLeases.                                       *)

\* dnsmasq rewrites its lease file.  inotify reports it only to a hook that
\* is already installed.
WriteLeases(f) ==
  /\ f # leaseFile
  /\ leaseFile' = f
  /\ dirty' = (dirty \/ watcher \in {"waiting", "sending"})
  /\ missed' = (watcher = "off")
  /\ UNCHANGED <<watcher, readList, procVars, bcastVars, regVars, connVars>>

\* readCurrentLeaseFile, before any goroutine or the web server exists.
ReadBaseline ==
  /\ watcher = "booting"
  /\ watcher' = "off"
  /\ dhcpClientData' = ListRead
  /\ UNCHANGED <<leaseFile, dirty, readList, missed, proc, batch, dataLock,
                 bcastVars, regVars, connVars>>

\* It returns an error before it has changed anything: the backend ends ...
BaselineFails ==
  /\ "readError" \in Faults
  /\ watcher = "booting"
  /\ watcher' = "failed"
  /\ UNCHANGED <<leaseFile, dirty, readList, missed, procVars, bcastVars,
                 regVars, connVars>>

\* ... with exit status 0, and s6 starts it again.
Restart ==
  /\ watcher = "failed"
  /\ watcher' = "booting"
  /\ UNCHANGED <<leaseFile, dirty, readList, missed, procVars, bcastVars,
                 regVars, connVars>>

\* WatchLeases installs its inotify hook.
InstallHook ==
  /\ watcher = "off"
  /\ watcher' = "waiting"
  /\ UNCHANGED <<leaseFile, dirty, readList, missed, procVars, bcastVars,
                 regVars, connVars>>

\* WatchLeases wakes up, reads the file and starts sending it on leasesCh.
ReadLeaseFile ==
  /\ watcher = "waiting"
  /\ dirty
  /\ watcher' = "sending"
  /\ readList' = ListRead
  /\ dirty' = FALSE
  /\ UNCHANGED <<leaseFile, missed, procVars, bcastVars, regVars, connVars>>

\* WatchLeases returns an error: Fatalf only logs, the goroutine ends and
\* the rest of the backend keeps running.
WatchFails ==
  /\ "watchError" \in Faults
  /\ watcher \in {"off", "waiting"}
  /\ watcher' = "dead"
  /\ UNCHANGED <<leaseFile, dirty, readList, missed, procVars, bcastVars,
                 regVars, connVars>>

-----------------------------------------------------------------------------
(* processLeaseUpdates and processLeaseUpdatesFromArray.                   *)

\* updatedLeases := <-b.leasesCh, with the watcher's send.
ReceiveLeases ==
  /\ watcher = "sending"
  /\ proc = "recv"
  /\ watcher' = "waiting"
  /\ batch' = readList
  /\ readList' = NoList
  /\ proc' = "lock"
  /\ UNCHANGED <<leaseFile, dirty, missed, dhcpClientData, dataLock,
                 bcastVars, regVars, connVars>>

\* Lock, and make() an empty list.
LockData ==
  /\ proc = "lock"
  /\ DataLockFree
  /\ dataLock' = "proc"
  /\ dhcpClientData' = ResetData
  /\ proc' = "fill"
  /\ UNCHANGED <<batch, watchVars, bcastVars, regVars, connVars>>

\* One turn of the loop: the metadata of one lease, appended to the list.
AppendClient(l) ==
  /\ proc = "fill"
  /\ l \in batch \ dhcpClientData
  /\ dhcpClientData' = dhcpClientData \cup {l}
  /\ UNCHANGED <<proc, batch, dataLock, watchVars, bcastVars, regVars,
                 connVars>>

\* The end of the loop: sort, and unlock.
UnlockData ==
  /\ proc = "fill"
  /\ batch \subseteq dhcpClientData
  /\ dataLock' = LockAfterRebuild
  /\ batch' = NoList
  /\ proc' = "notify"
  /\ UNCHANGED <<dhcpClientData, watchVars, bcastVars, regVars, connVars>>

\* b.broadcastCh <- struct{}{}, with the broadcaster's receive.
NotifyBroadcaster ==
  /\ proc = "notify"
  /\ bcast = "select"
  /\ proc' = "recv"
  /\ bcast' = "check"
  /\ UNCHANGED <<batch, dhcpClientData, dataLock, bmsg, todo, current,
                 watchVars, regVars, connVars>>

-----------------------------------------------------------------------------
(* broadcastUpdatesToClients.                                              *)

\* The ticker of a positive refresh interval fires.
BroadcastTick ==
  /\ RefreshEnabled
  /\ Started
  /\ bcast = "select"
  /\ bcast' = "check"
  /\ UNCHANGED <<bmsg, todo, current, watchVars, procVars, regVars, connVars>>

\* len(b.clients) > 0, read without clientsLock: a data race with the
\* handlers, whose outcomes are the lengths before and after their update.
CheckClients ==
  /\ bcast = "check"
  /\ bcast' = IF clients # {} THEN "copy" ELSE "select"
  /\ UNCHANGED <<bmsg, todo, current, watchVars, procVars, regVars, connVars>>

\* generateWebSocketMessage: the copy under dhcpClientDataLock.
BroadcastCopy ==
  /\ bcast = "copy"
  /\ DataLockFree
  /\ bmsg' = dhcpClientData
  /\ bcast' = "lock"
  /\ UNCHANGED <<todo, current, watchVars, procVars, regVars, connVars>>

BroadcastLock ==
  /\ bcast = "lock"
  /\ ClientsLockFree
  /\ clientsLock' = "bcast"
  /\ todo' = clients
  /\ bcast' = "loop"
  /\ UNCHANGED <<bmsg, current, clients, watchVars, procVars, connVars>>

\* The loop reaches a connection (map order is random) and calls WriteJSON.
BroadcastNext(c) ==
  /\ bcast = "loop"
  /\ c \in todo
  /\ current' = c
  /\ todo' = todo \ {c}
  /\ bcast' = "writing"
  /\ UNCHANGED <<bmsg, watchVars, procVars, regVars, connVars>>

\* WriteJSON returns no error: a browser that is there has the message, one
\* that is gone may still have a socket buffer that takes it.  A write to a
\* stalled browser does not return: no write deadline is ever set.
BroadcastWritten ==
  /\ bcast = "writing"
  /\ peer[current] \in {"up", "gone"}
  /\ view' = [view EXCEPT ![current] = IF peer[current] = "up" THEN bmsg ELSE @]
  /\ current' = "none"
  /\ bcast' = "loop"
  /\ UNCHANGED <<bmsg, todo, handler, hmsg, ws, peer, watchVars, procVars,
                 regVars>>

\* WriteJSON fails: the connection is closed and forgotten.
BroadcastFailed ==
  /\ bcast = "writing"
  /\ peer[current] = "gone"
  /\ ws' = [ws EXCEPT ![current] = "closed"]
  /\ clients' = Evicted(current)
  /\ current' = "none"
  /\ bcast' = "loop"
  /\ UNCHANGED <<bmsg, todo, clientsLock, handler, hmsg, peer, view,
                 watchVars, procVars>>

BroadcastUnlock ==
  /\ bcast = "loop"
  /\ todo = {}
  /\ clientsLock' = "free"
  /\ bmsg' = NoList
  /\ bcast' = "select"
  /\ UNCHANGED <<todo, current, clients, watchVars, procVars, connVars>>

-----------------------------------------------------------------------------
(* handleWebSocketConn.                                                    *)

\* A browser opens /ws and the upgrade succeeds.
Upgrade(c) ==
  /\ Started
  /\ handler[c] = "none"
  /\ handler' = [handler EXCEPT ![c] = "copy"]
  /\ ws' = [ws EXCEPT ![c] = "open"]
  /\ peer' = [peer EXCEPT ![c] = "up"]
  /\ UNCHANGED <<hmsg, view, watchVars, procVars, bcastVars, regVars>>

\* The upgrade fails: Fatalf only logs, and the handler goes on with a nil
\* connection.
UpgradeFails(c) ==
  /\ "badUpgrade" \in Faults
  /\ Started
  /\ handler[c] = "none"
  /\ handler' = [handler EXCEPT ![c] = "copy"]
  /\ ws' = [ws EXCEPT ![c] = "nil"]
  /\ UNCHANGED <<hmsg, peer, view, watchVars, procVars, bcastVars, regVars>>

\* generateWebSocketMessage, before the connection is registered.
HandlerCopy(c) ==
  /\ handler[c] = "copy"
  /\ DataLockFree
  /\ hmsg' = [hmsg EXCEPT ![c] = dhcpClientData]
  /\ handler' = [handler EXCEPT ![c] = "lock"]
  /\ UNCHANGED <<ws, peer, view, watchVars, procVars, bcastVars, regVars>>

\* Lock, register, and call WriteJSON with the lock held.
Register(c) ==
  /\ handler[c] = "lock"
  /\ ClientsLockFree
  /\ clientsLock' = c
  /\ clients' = clients \cup {c}
  /\ handler' = [handler EXCEPT ![c] = "write"]
  /\ UNCHANGED <<hmsg, ws, peer, view, watchVars, procVars, bcastVars>>

\* The first WriteJSON returns, with or without an error (which is only
\* logged), and the lock is released.
FirstWrite(c) ==
  /\ handler[c] = "write"
  /\ ws[c] # "nil"
  /\ peer[c] \in {"up", "gone"}
  /\ view' = [view EXCEPT ![c] = IF peer[c] = "up" THEN hmsg[c] ELSE @]
  /\ hmsg' = [hmsg EXCEPT ![c] = NoList]
  /\ clientsLock' = LockAfterFirstWrite(c)
  /\ handler' = [handler EXCEPT ![c] = "read"]
  /\ UNCHANGED <<ws, peer, clients, watchVars, procVars, bcastVars>>

\* WriteJSON on a nil connection panics.  net/http recovers the goroutine's
\* panic; nothing unlocks clientsLock.
FirstWritePanics(c) ==
  /\ handler[c] = "write"
  /\ ws[c] = "nil"
  /\ hmsg' = [hmsg EXCEPT ![c] = NoList]
  /\ handler' = [handler EXCEPT ![c] = "panicked"]
  /\ UNCHANGED <<ws, peer, view, watchVars, procVars, bcastVars, regVars>>

\* ReadJSON fails: the browser is gone, or the broadcaster closed the socket.
ReadFails(c) ==
  /\ handler[c] = "read"
  /\ peer[c] = "gone" \/ ws[c] = "closed"
  /\ handler' = [handler EXCEPT ![c] = "unreg"]
  /\ UNCHANGED <<hmsg, ws, peer, view, watchVars, procVars, bcastVars, regVars>>

\* Lock, delete, unlock, and the deferred Close: the slot is free again.
Unregister(c) ==
  /\ handler[c] = "unreg"
  /\ ClientsLockFree
  /\ clients' = Unregistered(c)
  /\ handler' = [handler EXCEPT ![c] = "none"]
  /\ ws' = [ws EXCEPT ![c] = "none"]
  /\ peer' = [peer EXCEPT ![c] = "none"]
  /\ view' = [view EXCEPT ![c] = NoList]
  /\ UNCHANGED <<clientsLock, hmsg, watchVars, procVars, bcastVars>>

-----------------------------------------------------------------------------
(* The browsers.                                                           *)

\* The page is closed, or the connection is reset.
PeerLeaves(c) ==
  /\ peer[c] \in {"up", "stalled"}
  /\ peer' = [peer EXCEPT ![c] = "gone"]
  /\ UNCHANGED <<handler, hmsg, ws, view, watchVars, procVars, bcastVars,
                 regVars>>

\* The browser stops reading (a suspended laptop) and its buffers are full.
\* A browser that stops while a write is under way has stopped before it.
PeerStalls(c) ==
  /\ "stalledPeer" \in Faults
  /\ peer[c] = "up"
  /\ ~Writing(c) /\ current # c
  /\ peer' = [peer EXCEPT ![c] = "stalled"]
  /\ UNCHANGED <<handler, hmsg, ws, view, watchVars, procVars, bcastVars,
                 regVars>>

\* It reads again, and a write that waits for it returns.
PeerResumes(c) ==
  /\ peer[c] = "stalled"
  /\ peer' = [peer EXCEPT ![c] = "up"]
  /\ UNCHANGED <<handler, hmsg, ws, view, watchVars, procVars, bcastVars,
                 regVars>>

PeerMoves(c) == PeerLeaves(c) \/ PeerStalls(c) \/ PeerResumes(c)

-----------------------------------------------------------------------------
Environment ==
  \/ \E f \in Files : WriteLeases(f)
  \/ \E c \in Conns : Upgrade(c) \/ UpgradeFails(c) \/ PeerMoves(c)
  \/ BaselineFails
  \/ WatchFails

Watch == ReadBaseline \/ Restart \/ InstallHook \/ ReadLeaseFile

Process ==
  \/ ReceiveLeases
  \/ LockData
  \/ \E l \in Leases : AppendClient(l)
  \/ UnlockData
  \/ NotifyBroadcaster

Broadcast ==
  \/ BroadcastTick
  \/ CheckClients
  \/ BroadcastCopy
  \/ BroadcastLock
  \/ \E c \in Conns : BroadcastNext(c)
  \/ BroadcastWritten
  \/ BroadcastFailed
  \/ BroadcastUnlock

Handle(c) ==
  \/ HandlerCopy(c)
  \/ Register(c)
  \/ FirstWrite(c)
  \/ FirstWritePanics(c)
  \/ ReadFails(c)
  \/ Unregister(c)

Next ==
  \/ Environment
  \/ Watch
  \/ Process
  \/ Broadcast
  \/ \E c \in Conns : Handle(c)

(***************************************************************************)
(* The Go scheduler runs every goroutine that can run.  sync.Mutex hands a *)
(* lock over to a waiter that has waited for more than a millisecond, and  *)
(* select chooses among the ready channels at random: neither a goroutine  *)
(* that waits for a lock nor a pending send starves.  dnsmasq and the      *)
(* browsers owe nothing.                                                   *)
(***************************************************************************)
Fairness ==
  /\ WF_vars(Watch)
  /\ WF_vars(Process)
  /\ SF_vars(LockData)
  /\ SF_vars(NotifyBroadcaster)
  /\ WF_vars(Broadcast)
  /\ SF_vars(BroadcastCopy)
  /\ SF_vars(BroadcastLock)
  /\ \A c \in Conns :
       /\ WF_vars(Handle(c))
       /\ SF_vars(HandlerCopy(c))
       /\ SF_vars(Register(c))
       /\ SF_vars(Unregister(c))

Spec == Init /\ [][Next]_vars

FairSpec == Spec /\ Fairness

-----------------------------------------------------------------------------
(* Properties.                                                             *)

\* A message never carries a list that processLeaseUpdatesFromArray is still
\* rebuilding: what is copied under dhcpClientDataLock, and what a browser
\* shows, is a list that dnsmasq wrote as a whole.
SnapshotWhole ==
  /\ bmsg \in Lists
  /\ \A c \in Conns : hmsg[c] \in Lists /\ view[c] \in Lists

\* A gorilla connection allows one writer at a time and a Go map no change
\* next to a reader: while one goroutine is between Lock and Unlock of
\* clientsLock, no other one is, and the broadcaster's loop is one of them.
OneWriter ==
  /\ \A c, d \in Conns : Writing(c) /\ Writing(d) => c = d
  /\ bcast \in {"loop", "writing"} => \A c \in Conns : ~Writing(c)

\* A connection that its handler serves and nobody closed is in b.clients,
\* so the next broadcast reaches it.
RegisteredWhileServed ==
  \A c \in Conns : handler[c] = "read" /\ ws[c] = "open" => c \in clients

\* While the broadcaster ranges over b.clients, only its own loop changes
\* the map, and only by deleting the connection it is at.
RangeUndisturbed ==
  [][(bcast \in {"loop", "writing"}) =>
       clients' \in {clients, clients \ {current}}]_vars

\* The goroutines, under the names by which the locks know their holders.
Goroutines == {"watch", "proc", "bcast"} \cup Conns

\* Goroutine g cannot go on before h does: a channel without its other side,
\* or a lock that h holds.
WaitsFor(g, h) ==
  \/ g = "watch" /\ h = "proc" /\ watcher = "sending" /\ proc # "recv"
  \/ g = "proc" /\ h = "watch" /\ proc = "recv" /\ watcher # "sending"
  \/ g = "proc" /\ h = "bcast" /\ proc = "notify" /\ bcast # "select"
  \/ h = dataLock /\ \/ g = "proc" /\ proc = "lock"
                     \/ g = "bcast" /\ bcast = "copy"
                     \/ g \in Conns /\ handler[g] = "copy"
  \/ h = clientsLock /\ \/ g = "bcast" /\ bcast = "lock"
                        \/ g \in Conns /\ handler[g] \in {"lock", "unreg"}

\* Two unbuffered channels and two mutexes never close a circle: in every set
\* of goroutines there is one that waits for none of the set.  So what holds
\* all of them up is always outside: the lease file, a browser that does not
\* read, a handler that died with the lock.
NoCircularWait ==
  \A G \in SUBSET Goroutines :
    G # {} => \E g \in G : \A h \in G : ~WaitsFor(g, h)

\* The list that the backend will know when it has worked off what it read.
Latest ==
  IF watcher = "sending" THEN readList
  ELSE IF proc \in {"lock", "fill"} THEN batch ELSE dhcpClientData

\* No change of the lease file gets lost while WatchLeases runs: it is still
\* reported by inotify, on its way to the list of current clients, or in it,
\* unless it fell between the baseline read and the hook.
NoChangeLost ==
  watcher \in {"off", "waiting", "sending"} /\ ~missed /\ ~dirty =>
    Latest = leaseFile

Served(c) == handler[c] = "read" /\ ws[c] = "open" /\ peer[c] = "up"

\* A write to a browser that does not read.  It holds clientsLock, and no
\* deadline ends it.
StuckWrite ==
  \/ bcast = "writing" /\ peer[current] = "stalled"
  \/ \E c \in Conns : Writing(c) /\ peer[c] = "stalled"

\* No write waits for its browser for ever: the browser reads on, or leaves.
WritesReturn == []<>~StuckWrite

\* Once dnsmasq stops changing the lease file, every served browser ends up
\* showing it for good, however often others stall, if WatchLeases did not
\* fail and the last change was not one that fell between the baseline read
\* and the inotify hook.
FeedConverges ==
  WritesReturn /\ <>[][leaseFile' = leaseFile]_vars =>
    <>[](\/ missed
         \/ watcher = "dead"
         \/ \A c \in Conns : Served(c) => view[c] = leaseFile)

\* A registered connection whose browser is gone leaves b.clients, also when
\* WatchLeases failed.
DeadConnectionsForgotten ==
  WritesReturn =>
    \A c \in Conns : (c \in clients /\ peer[c] = "gone") ~> (c \notin clients)

\* Nobody keeps clientsLock for ever, but a browser that stalls a write.
ClientsLockReleased == WritesReturn => []<>(clientsLock = "free")

\* A browser that connects is shown a list, unless it leaves or stalls.
ConnectionServed ==
  WritesReturn =>
    \A c \in Conns :
      (handler[c] = "copy" /\ ws[c] = "open") ~>
        (view[c] # NoList \/ peer[c] # "up")

-----------------------------------------------------------------------------
(* The promise of LiveView: a rebuild counts as done when it starts, since *)
(* dhcpClientDataLock hides it until it is.                                *)

Feed == INSTANCE LiveView WITH
  file  <- leaseFile,
  pipe  <- (IF proc = "lock" THEN <<batch>> ELSE <<>>)
             \o (IF watcher = "sending" THEN <<readList>> ELSE <<>>),
  known <- IF proc = "fill" THEN batch ELSE dhcpClientData,
  draft <- [g \in Conns \cup {"bcast"} |->
              IF g = "bcast" THEN bmsg ELSE hmsg[g]],
  shown <- view

FeedSpec == Feed!Spec

=============================================================================
