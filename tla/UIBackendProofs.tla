--------------------------- MODULE UIBackendProofs ---------------------------
(***************************************************************************)
(* What TLAPS proves of the live feed, for any number of connections, any  *)
(* leases and lists, with or without the ticker and every fault: the type  *)
(* invariant, the inductive invariant Inv, and from it the safety          *)
(* invariants and the action property that the runs check, the absence of  *)
(* circular waits, and the refinement of LiveView.                         *)
(***************************************************************************)
EXTENDS UIBackend, SequenceTheorems, TLAPS

USE ConstantsAssumption DEF Started, DataLockFree, ClientsLockFree, ResetData,
  Unregistered, Evicted, LockAfterRebuild, LockAfterFirstWrite, ListRead, Lists,
  MaybeList,
  watchVars, procVars, bcastVars, regVars, connVars

\* Every step keeps the types.
LEMMA TypeStep == ASSUME TypeOK, [Next]_vars PROVE TypeOK'
<1> USE DEF TypeOK
<1>1. ASSUME NEW f \in Files, WriteLeases(f) PROVE TypeOK'
  BY <1>1 DEF WriteLeases
<1>2. CASE ReadBaseline
  BY <1>2 DEF ReadBaseline
<1>3. CASE InstallHook \/ BaselineFails \/ Restart
  BY <1>3 DEF InstallHook, BaselineFails, Restart
<1>4. CASE ReadLeaseFile
  BY <1>4 DEF ReadLeaseFile
<1>5. CASE WatchFails
  BY <1>5 DEF WatchFails
<1>6. CASE ReceiveLeases
  BY <1>6 DEF ReceiveLeases
<1>7. CASE LockData
  BY <1>7 DEF LockData
<1>8. ASSUME NEW l \in Leases, AppendClient(l) PROVE TypeOK'
  BY <1>8 DEF AppendClient
<1>9. CASE UnlockData
  BY <1>9 DEF UnlockData
<1>10. CASE NotifyBroadcaster
  BY <1>10 DEF NotifyBroadcaster
<1>11. CASE BroadcastTick
  BY <1>11 DEF BroadcastTick
<1>12. CASE CheckClients
  BY <1>12 DEF CheckClients
<1>13. CASE BroadcastCopy
  BY <1>13 DEF BroadcastCopy
<1>14. CASE BroadcastLock
  BY <1>14 DEF BroadcastLock
<1>15. ASSUME NEW c \in Conns, BroadcastNext(c) PROVE TypeOK'
  BY <1>15 DEF BroadcastNext
<1>16. CASE BroadcastWritten
  BY <1>16 DEF BroadcastWritten
<1>17. CASE BroadcastFailed
  BY <1>17 DEF BroadcastFailed
<1>18. CASE BroadcastUnlock
  BY <1>18 DEF BroadcastUnlock
<1>19. ASSUME NEW c \in Conns, Upgrade(c) PROVE TypeOK'
  BY <1>19 DEF Upgrade
<1>20. ASSUME NEW c \in Conns, UpgradeFails(c) PROVE TypeOK'
  BY <1>20 DEF UpgradeFails
<1>21. ASSUME NEW c \in Conns, HandlerCopy(c) PROVE TypeOK'
  BY <1>21 DEF HandlerCopy
<1>22. ASSUME NEW c \in Conns, Register(c) PROVE TypeOK'
  BY <1>22 DEF Register
<1>23. ASSUME NEW c \in Conns, FirstWrite(c) PROVE TypeOK'
  BY <1>23 DEF FirstWrite
<1>24. ASSUME NEW c \in Conns, FirstWritePanics(c) PROVE TypeOK'
  BY <1>24 DEF FirstWritePanics
<1>25. ASSUME NEW c \in Conns, ReadFails(c) PROVE TypeOK'
  BY <1>25 DEF ReadFails
<1>26. ASSUME NEW c \in Conns, Unregister(c) PROVE TypeOK'
  BY <1>26 DEF Unregister
<1>27. ASSUME NEW c \in Conns, PeerMoves(c) PROVE TypeOK'
  BY <1>27 DEF PeerMoves, PeerLeaves, PeerStalls, PeerResumes
<1>28. CASE UNCHANGED vars
  BY <1>28 DEF vars
<1>29. QED
  BY <1>1, <1>2, <1>3, <1>4, <1>5, <1>6, <1>7, <1>8, <1>9, <1>10, <1>11,
     <1>12, <1>13, <1>14, <1>15, <1>16, <1>17, <1>18, <1>19, <1>20, <1>21,
     <1>22, <1>23, <1>24, <1>25, <1>26, <1>27, <1>28
     DEF Next, Environment, Watch, Process, Broadcast, Handle

\* The variables of the feed always have their types.
THEOREM TypeCorrect == Spec => []TypeOK
<1>1. Init => TypeOK
  BY DEF Init, TypeOK
<1>2. QED
  BY <1>1, TypeStep, PTL DEF Spec

-----------------------------------------------------------------------------
(* The inductive invariant.                                                *)

\* Before the baseline is read nothing else runs.
BootInv ==
  watcher \in {"booting", "failed"} =>
    /\ proc = "recv"
    /\ bcast = "select"
    /\ \A c \in Conns : handler[c] = "none"

\* dhcpClientDataLock is held exactly while the list is rebuilt; what is on
\* its way is a whole list, and so is the data unless it is being rebuilt.
DataInv ==
  /\ dataLock = "proc" <=> proc = "fill"
  /\ watcher = "sending" => readList \in Files
  /\ proc \in {"lock", "fill"} => batch \in Files
  /\ proc = "fill" => dhcpClientData \subseteq batch
  /\ watcher \notin {"booting", "failed"} /\ proc # "fill" => dhcpClientData \in Files

\* clientsLock is held by the broadcaster in its loop, or by the handler
\* that writes its first message or died of it.
LockInv ==
  /\ clientsLock = "bcast" <=> bcast \in {"loop", "writing"}
  /\ \A c \in Conns : clientsLock = c <=> handler[c] \in {"write", "panicked"}

\* From its registration on, an open connection is in b.clients.
RegistryInv ==
  \A c \in Conns : handler[c] \in {"write", "read"} /\ ws[c] = "open" => c \in clients

\* A message that was composed and not yet sent is a list.
DraftInv ==
  /\ bcast \in {"lock", "loop", "writing"} => bmsg \in Files
  /\ \A c \in Conns : handler[c] \in {"lock", "write"} => hmsg[c] \in Files

Inv ==
  /\ TypeOK
  /\ BootInv
  /\ DataInv
  /\ LockInv
  /\ RegistryInv
  /\ DraftInv
  /\ SnapshotWhole


\* All the steps of the feed, by name.
USE DEF Next, Environment, Watch, Process, Broadcast, Handle, vars

\* Goroutines and connections start only after the baseline.
LEMMA BootStep == ASSUME Inv, [Next]_vars PROVE BootInv'
<1> USE DEF Inv, TypeOK, BootInv
<1>1. ASSUME NEW f \in Files, WriteLeases(f) PROVE BootInv'
  BY <1>1 DEF WriteLeases
<1>2. CASE Watch \/ BaselineFails \/ WatchFails
  BY <1>2 DEF ReadBaseline, BaselineFails, Restart, InstallHook, ReadLeaseFile,
            WatchFails
<1>3. CASE Process
  BY <1>3 DEF ReceiveLeases, LockData, AppendClient, UnlockData,
              NotifyBroadcaster
<1>4. CASE Broadcast
  BY <1>4 DEF BroadcastTick, CheckClients, BroadcastCopy, BroadcastLock,
              BroadcastNext, BroadcastWritten, BroadcastFailed, BroadcastUnlock
<1>5. ASSUME NEW c \in Conns, Upgrade(c) \/ UpgradeFails(c) \/ PeerMoves(c)
      PROVE BootInv'
  BY <1>5 DEF Upgrade, UpgradeFails, PeerMoves, PeerLeaves, PeerStalls, PeerResumes
<1>6. ASSUME NEW c \in Conns, Handle(c) PROVE BootInv'
  BY <1>6 DEF HandlerCopy, Register, FirstWrite, FirstWritePanics, ReadFails,
              Unregister
<1>7. CASE UNCHANGED vars
  BY <1>7
<1>8. QED
  BY <1>1, <1>2, <1>3, <1>4, <1>5, <1>6, <1>7

\* The list is only touched by the processor, under its lock.
LEMMA DataStep == ASSUME Inv, [Next]_vars PROVE DataInv'
<1> USE DEF Inv, TypeOK, BootInv, DataInv
<1>1. ASSUME NEW f \in Files, WriteLeases(f) PROVE DataInv'
  BY <1>1 DEF WriteLeases
<1>2. CASE Watch \/ BaselineFails \/ WatchFails
  BY <1>2 DEF ReadBaseline, BaselineFails, Restart, InstallHook, ReadLeaseFile,
            WatchFails
<1>3. CASE Process
  <2>1. CASE ReceiveLeases
    BY <2>1 DEF ReceiveLeases
  <2>2. CASE LockData
    BY <2>2 DEF LockData
  <2>3. ASSUME NEW l \in Leases, AppendClient(l) PROVE DataInv'
    BY <2>3 DEF AppendClient
  <2>4. CASE UnlockData
    <3>1. dhcpClientData = batch
      BY <2>4 DEF UnlockData
    <3>2. QED
      BY <2>4, <3>1 DEF UnlockData
  <2>5. CASE NotifyBroadcaster
    BY <2>5 DEF NotifyBroadcaster
  <2>6. QED
    BY <1>3, <2>1, <2>2, <2>3, <2>4, <2>5
<1>4. CASE Broadcast
  BY <1>4 DEF BroadcastTick, CheckClients, BroadcastCopy, BroadcastLock,
              BroadcastNext, BroadcastWritten, BroadcastFailed, BroadcastUnlock
<1>5. ASSUME NEW c \in Conns, Upgrade(c) \/ UpgradeFails(c) \/ PeerMoves(c)
      PROVE DataInv'
  BY <1>5 DEF Upgrade, UpgradeFails, PeerMoves, PeerLeaves, PeerStalls, PeerResumes
<1>6. ASSUME NEW c \in Conns, Handle(c) PROVE DataInv'
  BY <1>6 DEF HandlerCopy, Register, FirstWrite, FirstWritePanics, ReadFails,
              Unregister
<1>7. CASE UNCHANGED vars
  BY <1>7
<1>8. QED
  BY <1>1, <1>2, <1>3, <1>4, <1>5, <1>6, <1>7

\* clientsLock always knows its holder.
LEMMA LockStep == ASSUME Inv, [Next]_vars PROVE LockInv'
<1> USE DEF Inv, TypeOK, LockInv
<1>1. ASSUME NEW f \in Files, WriteLeases(f) PROVE LockInv'
  BY <1>1 DEF WriteLeases
<1>2. CASE Watch \/ BaselineFails \/ WatchFails
  BY <1>2 DEF ReadBaseline, BaselineFails, Restart, InstallHook, ReadLeaseFile,
            WatchFails
<1>3. CASE Process
  BY <1>3 DEF ReceiveLeases, LockData, AppendClient, UnlockData,
              NotifyBroadcaster
<1>4. CASE Broadcast
  <2>1. CASE BroadcastTick \/ CheckClients \/ BroadcastCopy
    BY <2>1 DEF BroadcastTick, CheckClients, BroadcastCopy
  <2>2. CASE BroadcastLock
    BY <2>2 DEF BroadcastLock
  <2>3. ASSUME NEW c \in Conns, BroadcastNext(c) PROVE LockInv'
    BY <2>3 DEF BroadcastNext
  <2>4. CASE BroadcastWritten \/ BroadcastFailed
    BY <2>4 DEF BroadcastWritten, BroadcastFailed
  <2>5. CASE BroadcastUnlock
    BY <2>5 DEF BroadcastUnlock
  <2>6. QED
    BY <1>4, <2>1, <2>2, <2>3, <2>4, <2>5
<1>5. ASSUME NEW c \in Conns, Upgrade(c) \/ UpgradeFails(c) \/ PeerMoves(c)
      PROVE LockInv'
  BY <1>5 DEF Upgrade, UpgradeFails, PeerMoves, PeerLeaves, PeerStalls, PeerResumes
<1>6. ASSUME NEW c \in Conns, Handle(c) PROVE LockInv'
  <2>1. CASE HandlerCopy(c) \/ ReadFails(c) \/ FirstWritePanics(c)
    BY <2>1 DEF HandlerCopy, ReadFails, FirstWritePanics
  <2>2. CASE Register(c)
    BY <2>2 DEF Register
  <2>3. CASE FirstWrite(c)
    BY <2>3 DEF FirstWrite
  <2>4. CASE Unregister(c)
    BY <2>4 DEF Unregister
  <2>5. QED
    BY <1>6, <2>1, <2>2, <2>3, <2>4
<1>7. CASE UNCHANGED vars
  BY <1>7
<1>8. QED
  BY <1>1, <1>2, <1>3, <1>4, <1>5, <1>6, <1>7

\* No step loses an open connection that is served.
LEMMA RegistryStep == ASSUME Inv, [Next]_vars PROVE RegistryInv'
<1> USE DEF Inv, TypeOK, RegistryInv
<1>1. ASSUME NEW f \in Files, WriteLeases(f) PROVE RegistryInv'
  BY <1>1 DEF WriteLeases
<1>2. CASE Watch \/ BaselineFails \/ WatchFails
  BY <1>2 DEF ReadBaseline, BaselineFails, Restart, InstallHook, ReadLeaseFile,
            WatchFails
<1>3. CASE Process
  BY <1>3 DEF ReceiveLeases, LockData, AppendClient, UnlockData,
              NotifyBroadcaster
<1>4. CASE Broadcast
  <2>1. CASE BroadcastFailed
    BY <2>1 DEF BroadcastFailed
  <2>2. CASE ~BroadcastFailed
    BY <1>4, <2>2 DEF BroadcastTick, CheckClients, BroadcastCopy, BroadcastLock,
                      BroadcastNext, BroadcastWritten, BroadcastUnlock
  <2>3. QED
    BY <2>1, <2>2
<1>5. ASSUME NEW c \in Conns, Upgrade(c) \/ UpgradeFails(c) \/ PeerMoves(c)
      PROVE RegistryInv'
  BY <1>5 DEF Upgrade, UpgradeFails, PeerMoves, PeerLeaves, PeerStalls, PeerResumes
<1>6. ASSUME NEW c \in Conns, Handle(c) PROVE RegistryInv'
  BY <1>6 DEF HandlerCopy, Register, FirstWrite, FirstWritePanics, ReadFails,
              Unregister
<1>7. CASE UNCHANGED vars
  BY <1>7
<1>8. QED
  BY <1>1, <1>2, <1>3, <1>4, <1>5, <1>6, <1>7

\* A message is composed from the data only while nobody rebuilds it.
LEMMA SnapshotStep == ASSUME Inv, [Next]_vars PROVE SnapshotWhole'
<1> USE DEF Inv, TypeOK, BootInv, DataInv, SnapshotWhole
<1>1. ASSUME NEW f \in Files, WriteLeases(f) PROVE SnapshotWhole'
  BY <1>1 DEF WriteLeases
<1>2. CASE Watch \/ BaselineFails \/ WatchFails
  BY <1>2 DEF ReadBaseline, BaselineFails, Restart, InstallHook, ReadLeaseFile,
            WatchFails
<1>3. CASE Process
  BY <1>3 DEF ReceiveLeases, LockData, AppendClient, UnlockData,
              NotifyBroadcaster
<1>4. CASE Broadcast
  <2>1. CASE BroadcastCopy
    BY <2>1 DEF BroadcastCopy
  <2>2. CASE BroadcastWritten
    BY <2>2 DEF BroadcastWritten
  <2>3. CASE ~BroadcastCopy /\ ~BroadcastWritten
    BY <1>4, <2>3 DEF BroadcastTick, CheckClients, BroadcastLock, BroadcastNext,
                      BroadcastFailed, BroadcastUnlock
  <2>4. QED
    BY <2>1, <2>2, <2>3
<1>5. ASSUME NEW c \in Conns, Upgrade(c) \/ UpgradeFails(c) \/ PeerMoves(c)
      PROVE SnapshotWhole'
  BY <1>5 DEF Upgrade, UpgradeFails, PeerMoves, PeerLeaves, PeerStalls, PeerResumes
<1>6. ASSUME NEW c \in Conns, Handle(c) PROVE SnapshotWhole'
  <2>1. CASE HandlerCopy(c)
    BY <2>1 DEF HandlerCopy
  <2>2. CASE FirstWrite(c)
    BY <2>2 DEF FirstWrite
  <2>3. CASE ~HandlerCopy(c) /\ ~FirstWrite(c)
    BY <1>6, <2>3 DEF Register, FirstWritePanics, ReadFails, Unregister
  <2>4. QED
    BY <2>1, <2>2, <2>3
<1>7. CASE UNCHANGED vars
  BY <1>7
<1>8. QED
  BY <1>1, <1>2, <1>3, <1>4, <1>5, <1>6, <1>7

\* A message is composed before its lock is asked for, and kept until sent.
LEMMA DraftStep == ASSUME Inv, [Next]_vars PROVE DraftInv'
<1> USE DEF Inv, TypeOK, BootInv, DataInv, DraftInv
<1>1. ASSUME NEW f \in Files, WriteLeases(f) PROVE DraftInv'
  BY <1>1 DEF WriteLeases
<1>2. CASE Watch \/ BaselineFails \/ WatchFails
  BY <1>2 DEF ReadBaseline, BaselineFails, Restart, InstallHook, ReadLeaseFile,
            WatchFails
<1>3. CASE Process
  BY <1>3 DEF ReceiveLeases, LockData, AppendClient, UnlockData,
              NotifyBroadcaster
<1>4. CASE Broadcast
  <2>1. CASE BroadcastCopy
    BY <2>1 DEF BroadcastCopy
  <2>2. CASE BroadcastWritten
    BY <2>2 DEF BroadcastWritten
  <2>3. CASE ~BroadcastCopy /\ ~BroadcastWritten
    BY <1>4, <2>3 DEF BroadcastTick, CheckClients, BroadcastLock, BroadcastNext,
                      BroadcastFailed, BroadcastUnlock
  <2>4. QED
    BY <2>1, <2>2, <2>3
<1>5. ASSUME NEW c \in Conns, Upgrade(c) \/ UpgradeFails(c) \/ PeerMoves(c)
      PROVE DraftInv'
  BY <1>5 DEF Upgrade, UpgradeFails, PeerMoves, PeerLeaves, PeerStalls, PeerResumes
<1>6. ASSUME NEW c \in Conns, Handle(c) PROVE DraftInv'
  <2>1. CASE HandlerCopy(c)
    BY <2>1 DEF HandlerCopy
  <2>2. CASE FirstWrite(c)
    BY <2>2 DEF FirstWrite
  <2>3. CASE ~HandlerCopy(c) /\ ~FirstWrite(c)
    BY <1>6, <2>3 DEF Register, FirstWritePanics, ReadFails, Unregister
  <2>4. QED
    BY <2>1, <2>2, <2>3
<1>7. CASE UNCHANGED vars
  BY <1>7
<1>8. QED
  BY <1>1, <1>2, <1>3, <1>4, <1>5, <1>6, <1>7

-----------------------------------------------------------------------------
\* Inv holds in every reachable state.
THEOREM InvCorrect == Spec => []Inv
<1>1. Init => Inv
  BY DEF Init, Inv, TypeOK, BootInv, DataInv, LockInv,
         RegistryInv, DraftInv,
         SnapshotWhole
<1>2. Inv /\ [Next]_vars => Inv'
  <2> SUFFICES ASSUME Inv, [Next]_vars PROVE Inv'
    OBVIOUS
  <2>1. TypeOK'
    BY TypeStep DEF Inv
  <2>2. QED
    BY <2>1, BootStep, DataStep, LockStep, RegistryStep, SnapshotStep,
       DraftStep DEF Inv
<1>3. QED
  BY <1>1, <1>2, PTL DEF Spec

\* No browser and no message ever has a list that is only partly rebuilt.
THEOREM SnapshotsAreWhole == Spec => []SnapshotWhole
BY InvCorrect, PTL DEF Inv

\* Two goroutines never write to connections at the same time.
THEOREM WritersExclusive == Spec => []OneWriter
<1>1. Inv => OneWriter
  BY DEF Inv, TypeOK, LockInv, OneWriter, Writing
<1>2. QED
  BY <1>1, InvCorrect, PTL

\* A served connection that is open is registered for the next broadcast.
THEOREM ServedAreRegistered == Spec => []RegisteredWhileServed
<1>1. Inv => RegisteredWhileServed
  BY DEF Inv, RegistryInv, RegisteredWhileServed
<1>2. QED
  BY <1>1, InvCorrect, PTL

\* Nobody but the broadcaster changes b.clients while it ranges over it.
THEOREM RangeIsUndisturbed == Spec => RangeUndisturbed
<1> DEFINE Undisturbed == (bcast \in {"loop", "writing"}) =>
                            clients' \in {clients, clients \ {current}}
<1>1. Inv /\ [Next]_vars => [Undisturbed]_vars
  <2> SUFFICES ASSUME Inv, Next, bcast \in {"loop", "writing"}
      PROVE clients' \in {clients, clients \ {current}}
    OBVIOUS
  <2> USE DEF Inv, LockInv
  <2>1. clientsLock = "bcast"
    OBVIOUS
  <2>2. CASE Environment \/ Watch \/ Process
    BY <2>2 DEF WriteLeases, ReadBaseline, BaselineFails, Restart, InstallHook, ReadLeaseFile,
                WatchFails, ReceiveLeases, LockData, AppendClient, UnlockData,
                NotifyBroadcaster, Upgrade, UpgradeFails, PeerMoves, PeerLeaves, PeerStalls, PeerResumes
  <2>3. CASE Broadcast
    BY <2>3 DEF BroadcastTick, CheckClients, BroadcastCopy, BroadcastLock,
                BroadcastNext, BroadcastWritten, BroadcastFailed, BroadcastUnlock
  <2>4. ASSUME NEW c \in Conns, Handle(c)
        PROVE clients' \in {clients, clients \ {current}}
    BY <2>1, <2>4 DEF HandlerCopy, Register, FirstWrite, FirstWritePanics,
                      ReadFails, Unregister
  <2>5. QED
    BY <2>2, <2>3, <2>4
<1>2. QED
  BY <1>1, InvCorrect, PTL DEF Spec, RangeUndisturbed

\* Who holds a lock waits for nobody: the rebuild only fills the list, the
\* broadcaster and the handlers only write to browsers.
LEMMA HoldersDoNotWait ==
  ASSUME Inv, NEW g \in Goroutines, NEW h \in Goroutines, g \in {dataLock, clientsLock}
  PROVE  ~WaitsFor(g, h)
<1> USE DEF Inv, TypeOK, DataInv, LockInv
<1>1. CASE g = "proc"
  <2>1. proc = "fill"
    BY <1>1
  <2>2. QED
    BY <1>1, <2>1 DEF WaitsFor
<1>2. CASE g = "bcast"
  <2>1. bcast \in {"loop", "writing"}
    BY <1>2
  <2>2. QED
    BY <1>2, <2>1 DEF WaitsFor
<1>3. CASE g \in Conns
  <2>1. handler[g] \in {"write", "panicked"}
    BY <1>3
  <2>2. QED
    BY <1>3, <2>1 DEF WaitsFor
<1>4. QED
  BY <1>1, <1>2, <1>3 DEF Goroutines

\* Channels and locks never close a circle of waiting goroutines, whatever
\* the number of connections.
THEOREM NobodyWaitsInACircle == Spec => []NoCircularWait
<1>1. Inv => NoCircularWait
  <2> SUFFICES ASSUME Inv, NEW G \in SUBSET Goroutines, G # {},
                      \A g \in G : \E h \in G : WaitsFor(g, h)
               PROVE  FALSE
    BY DEF NoCircularWait
  <2>1. ASSUME NEW g \in G, NEW h \in G, WaitsFor(g, h)
        PROVE  h \notin {dataLock, clientsLock}
    BY <2>1, HoldersDoNotWait
  <2>2. ASSUME NEW g \in G PROVE g \notin Conns \cup {"bcast"}
    BY <2>1, <2>2 DEF WaitsFor
  <2>3. "proc" \notin G
    <3> SUFFICES ASSUME "proc" \in G PROVE FALSE
      OBVIOUS
    <3>1. PICK h \in G : WaitsFor("proc", h)
      OBVIOUS
    <3>2. h = "watch" /\ proc = "recv" /\ watcher # "sending"
      BY <2>1, <2>2, <3>1 DEF WaitsFor, Inv, TypeOK
    <3>3. PICK k \in G : WaitsFor("watch", k)
      BY <3>2
    <3>4. QED
      BY <2>1, <3>2, <3>3 DEF WaitsFor
  <2>4. "watch" \in G
    <3>1. PICK g \in G : TRUE
      OBVIOUS
    <3>2. g \in {"watch", "proc", "bcast"} \cup Conns
      BY DEF Goroutines
    <3>3. g = "watch"
      BY <2>2, <2>3, <3>1, <3>2, Zenon
    <3>4. QED
      BY <3>1, <3>3
  <2>5. PICK h \in G : WaitsFor("watch", h)
    BY <2>4
  <2>6. h \notin {dataLock, clientsLock}
    BY <2>1, <2>4, <2>5
  <2>7. h = "proc"
    BY <2>5, <2>6 DEF WaitsFor
  <2>8. QED
    BY <2>3, <2>7
<1>2. QED
  BY <1>1, InvCorrect, PTL

\* Every step of the watcher and of the processor passes the list on.
LEMMA LatestStep == ASSUME Inv, NoChangeLost, [Next]_vars PROVE NoChangeLost'
<1> USE DEF NoChangeLost, Latest
<1>1. ASSUME NEW f \in Files, WriteLeases(f) PROVE NoChangeLost'
  BY <1>1 DEF WriteLeases
<1>2. CASE Watch \/ BaselineFails \/ WatchFails
  BY <1>2 DEF ReadBaseline, BaselineFails, Restart, InstallHook, ReadLeaseFile,
            WatchFails, Inv, BootInv
<1>3. CASE Process
  <2>1. CASE ReceiveLeases \/ LockData \/ NotifyBroadcaster
    BY <2>1 DEF ReceiveLeases, LockData, NotifyBroadcaster
  <2>2. ASSUME NEW l \in Leases, AppendClient(l) PROVE NoChangeLost'
    BY <2>2 DEF AppendClient
  <2>3. CASE UnlockData
    <3>1. dhcpClientData = batch
      BY <2>3 DEF UnlockData, Inv, DataInv
    <3>2. QED
      BY <2>3, <3>1 DEF UnlockData
  <2>4. QED
    BY <1>3, <2>1, <2>2, <2>3
<1> DEFINE Unchanged == UNCHANGED <<watchVars, procVars>>
<1>4. ASSUME Broadcast PROVE Unchanged
  BY <1>4 DEF BroadcastTick, CheckClients, BroadcastCopy, BroadcastLock,
              BroadcastNext, BroadcastWritten, BroadcastFailed, BroadcastUnlock
<1>5. ASSUME NEW c \in Conns, Upgrade(c) \/ UpgradeFails(c) \/ PeerMoves(c)
      PROVE Unchanged
  BY <1>5 DEF Upgrade, UpgradeFails, PeerMoves, PeerLeaves, PeerStalls, PeerResumes
<1>6. ASSUME NEW c \in Conns, Handle(c) PROVE Unchanged
  BY <1>6 DEF HandlerCopy, Register, FirstWrite, FirstWritePanics, ReadFails,
              Unregister
<1>7. ASSUME Unchanged PROVE NoChangeLost'
  BY <1>7
<1>8. CASE UNCHANGED vars
  BY <1>8
<1>9. QED
  BY <1>1, <1>2, <1>3, <1>4, <1>5, <1>6, <1>7, <1>8

\* A change of the lease file is reported, on its way or known, for any number
\* of changes in any order with the steps of the backend.
THEOREM ChangesAreNotLost == Spec => []NoChangeLost
<1>1. Init => NoChangeLost
  BY DEF Init, NoChangeLost
<1>2. QED
  BY <1>1, LatestStep, InvCorrect, PTL DEF Spec

-----------------------------------------------------------------------------
(* The refinement of LiveView: initial states and steps.                   *)

Pipe   == (IF proc = "lock" THEN <<batch>> ELSE <<>>)
            \o (IF watcher = "sending" THEN <<readList>> ELSE <<>>)
Known  == IF proc = "fill" THEN batch ELSE dhcpClientData
Draft  == [g \in Conns \cup {"bcast"} |->
             IF g = "bcast" THEN bmsg ELSE hmsg[g]]

FeedStep == [Feed!Next]_(Feed!vars)

\* One list after another make a pipe of two.
LEMMA TwoLists ==
  ASSUME NEW S, NEW a \in S, NEW b \in S
  PROVE  <<a>> \o <<b>> = <<a, b>>
<1> DEFINE s == <<a>> \o <<b>>
           t == <<a, b>>
<1>1. <<a>> \in Seq(S) /\ <<b>> \in Seq(S) /\ t \in Seq(S)
  OBVIOUS
<1>2. s \in Seq(S) /\ Len(s) = 2 /\ Len(t) = 2
  BY <1>1
<1>3. s[1] = a /\ t[1] = a
  BY <1>1
<1>4. s[2] = b /\ t[2] = b
  BY <1>1
<1>5. \A i \in 1 .. 2 : s[i] = t[i]
  <2>1. \A i \in 1 .. 2 : i = 1 \/ i = 2
    OBVIOUS
  <2>2. QED
    BY <1>3, <1>4, <2>1
<1> HIDE DEF s, t
<1>6. s = t
  BY <1>1, <1>2, <1>5, SeqEqual
<1>7. QED
  BY <1>6 DEF s, t

\* The shapes that a pipe takes.
LEMMA PipeShapes ==
  ASSUME NEW a, NEW b
  PROVE  /\ <<>> \o <<>> = <<>>
         /\ <<a>> \o <<>> = <<a>>
         /\ <<>> \o <<b>> = <<b>>
         /\ <<a>> \o <<b>> = <<a, b>>
         /\ Append(<<>>, b) = <<b>>
         /\ Append(<<a>>, b) = <<a, b>>
<1> DEFINE S == {a, b}
<1>1. a \in S /\ b \in S
  OBVIOUS
<1> HIDE DEF S
<1>2. <<a>> \o <<b>> = <<a, b>>
  BY <1>1, TwoLists
<1>3. Append(<<a>>, b) = <<a>> \o <<b>>
  BY <1>1, AppendIsConcat
<1>4. <<a>> \o <<>> = <<a>> /\ <<>> \o <<b>> = <<b>>
  BY <1>1
<1>5. <<>> \o <<>> = <<>> /\ Append(<<>>, b) = <<b>>
  BY <1>1
<1>6. QED
  BY <1>2, <1>3, <1>4, <1>5

\* A step that leaves the mapped state alone is a stutter.
LEMMA StutterMaps ==
  ASSUME leaseFile' = leaseFile, Pipe' = Pipe, Known' = Known, Draft' = Draft,
         view' = view
  PROVE  FeedStep
BY DEF FeedStep, Feed!vars, Pipe, Known, Draft

\* Changes of the watcher map to writes and reads of the file.
LEMMA WatchMaps ==
  ASSUME Inv, Watch \/ BaselineFails \/ WatchFails \/ \E f \in Files : WriteLeases(f)
  PROVE  FeedStep
<1> USE DEF Inv, TypeOK
<1>1. ASSUME NEW f \in Files, WriteLeases(f) PROVE FeedStep
  <2>1. Feed!Write
    BY <1>1 DEF WriteLeases, Feed!Write
  <2>2. QED
    BY <2>1 DEF FeedStep, Feed!Next
<1>2. CASE ReadBaseline
  <2>1. Pipe = <<>> /\ Pipe' = <<>>
    BY <1>2 DEF ReadBaseline, BootInv, Pipe
  <2>2. Known' = leaseFile
    BY <1>2 DEF ReadBaseline, BootInv, Known
  <2>3. Feed!Baseline
    BY <1>2, <2>1, <2>2 DEF ReadBaseline, Feed!Baseline, Pipe, Known
  <2>4. QED
    BY <2>3 DEF FeedStep, Feed!Next
<1>3. CASE InstallHook \/ BaselineFails \/ Restart \/ WatchFails
  <2>1. Pipe' = Pipe /\ Known' = Known /\ Draft' = Draft
    BY <1>3 DEF InstallHook, BaselineFails, Restart, WatchFails, Pipe, Known, Draft
  <2>2. QED
    BY <1>3, <2>1, StutterMaps DEF InstallHook, BaselineFails, Restart, WatchFails
<1>4. CASE ReadLeaseFile
  <2>1. Pipe = (IF proc = "lock" THEN <<batch>> ELSE <<>>)
    BY <1>4, PipeShapes DEF ReadLeaseFile, Pipe
  <2>2. Pipe' = (IF proc = "lock" THEN <<batch, leaseFile>> ELSE <<leaseFile>>)
    <3>1. watcher' = "sending" /\ proc' = proc /\ batch' = batch /\ readList' = leaseFile
      BY <1>4 DEF ReadLeaseFile
    <3>2. /\ <<batch>> \o <<leaseFile>> = <<batch, leaseFile>>
          /\ <<>> \o <<leaseFile>> = <<leaseFile>>
      BY PipeShapes
    <3>3. QED
      BY <3>1, <3>2 DEF Pipe
  <2>3. Len(Pipe) < 2 /\ Pipe' = Append(Pipe, leaseFile)
    <3>1. CASE proc = "lock"
      BY <2>1, <2>2, <3>1, PipeShapes
    <3>2. CASE proc # "lock"
      BY <2>1, <2>2, <3>2, PipeShapes
    <3>3. QED
      BY <3>1, <3>2
  <2>4. Feed!ReadFile
    BY <1>4, <2>3 DEF ReadLeaseFile, Feed!ReadFile, Feed!PipeSize, Pipe
  <2>5. QED
    BY <2>4 DEF FeedStep, Feed!Next
<1>5. QED
  BY <1>1, <1>2, <1>3, <1>4

\* A rebuild maps to a switch when it starts, and to nothing until it ends.
LEMMA ProcessMaps == ASSUME Inv, Process PROVE FeedStep
<1> USE DEF Inv, TypeOK, DataInv
<1>1. CASE ReceiveLeases
  <2>1. Pipe = <<readList>> /\ Pipe' = <<readList>>
    <3>1. /\ <<>> \o <<readList>> = <<readList>>
          /\ <<readList>> \o <<>> = <<readList>>
      BY PipeShapes
    <3>2. proc = "recv" /\ watcher = "sending"
      BY <1>1 DEF ReceiveLeases
    <3>3. proc' = "lock" /\ watcher' = "waiting" /\ batch' = readList
      BY <1>1 DEF ReceiveLeases
    <3>4. Pipe = <<readList>>
      BY <3>1, <3>2 DEF Pipe
    <3>5. Pipe' = <<readList>>
      BY <3>1, <3>3 DEF Pipe
    <3>6. QED
      BY <3>4, <3>5
  <2>2. Known' = Known /\ Draft' = Draft
    BY <1>1 DEF ReceiveLeases, Known, Draft
  <2>3. QED
    BY <1>1, <2>1, <2>2, StutterMaps DEF ReceiveLeases
<1>2. CASE LockData
  <2>1. Pipe = (IF watcher = "sending" THEN <<batch, readList>> ELSE <<batch>>)
    <3>1. /\ <<batch>> \o <<readList>> = <<batch, readList>>
          /\ <<batch>> \o <<>> = <<batch>>
      BY PipeShapes
    <3>2. proc = "lock"
      BY <1>2 DEF LockData
    <3>3. QED
      BY <3>1, <3>2 DEF Pipe
  <2>2. Pipe' = (IF watcher = "sending" THEN <<readList>> ELSE <<>>)
    BY <1>2 DEF LockData, Pipe
  <2>3. Pipe # <<>> /\ batch = Head(Pipe) /\ Pipe' = Tail(Pipe)
    BY <2>1, <2>2
  <2>4. Known' = batch
    BY <1>2 DEF LockData, Known
  <2>5. Feed!Switch
    BY <1>2, <2>3, <2>4 DEF LockData, Feed!Switch, Pipe, Known
  <2>6. QED
    BY <2>5 DEF FeedStep, Feed!Next
<1>3. ASSUME NEW l \in Leases, AppendClient(l) PROVE FeedStep
  <2>1. Pipe' = Pipe /\ Known' = Known /\ Draft' = Draft
    BY <1>3 DEF AppendClient, Pipe, Known, Draft
  <2>2. QED
    BY <1>3, <2>1, StutterMaps DEF AppendClient
<1>4. CASE UnlockData
  <2>1. Pipe' = Pipe /\ Draft' = Draft
    BY <1>4 DEF UnlockData, Pipe, Draft
  <2>2. dhcpClientData = batch
    BY <1>4 DEF UnlockData
  <2>3. Known' = Known
    BY <1>4, <2>2 DEF UnlockData, Known
  <2>4. QED
    BY <1>4, <2>1, <2>3, StutterMaps DEF UnlockData
<1>5. CASE NotifyBroadcaster
  <2>1. Pipe' = Pipe /\ Known' = Known /\ Draft' = Draft
    BY <1>5 DEF NotifyBroadcaster, Pipe, Known, Draft
  <2>2. QED
    BY <1>5, <2>1, StutterMaps DEF NotifyBroadcaster
<1>6. QED
  BY <1>1, <1>2, <1>3, <1>4, <1>5

\* The broadcaster composes, delivers and discards.
LEMMA BroadcastMaps == ASSUME Inv, Broadcast PROVE FeedStep
<1> USE DEF Inv, TypeOK
<1>1. ASSUME \/ BroadcastTick \/ CheckClients \/ BroadcastLock
             \/ \E c \in Conns : BroadcastNext(c)
             \/ BroadcastFailed
      PROVE FeedStep
  <2>1. Pipe' = Pipe /\ Known' = Known /\ Draft' = Draft /\ view' = view
    BY <1>1 DEF BroadcastTick, CheckClients, BroadcastLock, BroadcastNext,
                BroadcastFailed, Pipe, Known, Draft
  <2>2. QED
    BY <1>1, <2>1, StutterMaps
       DEF BroadcastTick, CheckClients, BroadcastLock, BroadcastNext,
           BroadcastFailed
<1>2. CASE BroadcastCopy
  <2>1. Draft' = [Draft EXCEPT !["bcast"] = Known]
    BY <1>2 DEF BroadcastCopy, Draft, Known, DataInv
  <2>2. Feed!Compose("bcast")
    BY <1>2, <2>1 DEF BroadcastCopy, Feed!Compose, Draft, Known
  <2>3. QED
    BY <2>2 DEF FeedStep, Feed!Next, Feed!Composers
<1>3. CASE BroadcastWritten
  <2>1. Pipe' = Pipe /\ Known' = Known /\ Draft' = Draft
    BY <1>3 DEF BroadcastWritten, Pipe, Known, Draft
  <2>2. ASSUME NEW c \in Conns, c = current, peer[c] = "up"
        PROVE  FeedStep
    <3>1. Draft["bcast"] = bmsg /\ bmsg # NoList
      BY <1>3 DEF BroadcastWritten, Draft, DraftInv
    <3>2. view' = [view EXCEPT ![c] = Draft["bcast"]]
      BY <1>3, <2>2, <3>1 DEF BroadcastWritten
    <3>3. Feed!Deliver(c)
      BY <1>3, <2>1, <3>1, <3>2 DEF BroadcastWritten, Feed!Deliver, Draft
    <3>4. QED
      BY <3>3 DEF FeedStep, Feed!Next
  <2>3. CASE peer[current] # "up"
    <3>1. view' = view
      BY <1>3, <2>3 DEF BroadcastWritten
    <3>2. QED
      BY <1>3, <2>1, <3>1, StutterMaps DEF BroadcastWritten
  <2>4. current \in Conns
    BY <1>3 DEF BroadcastWritten
  <2>5. QED
    BY <2>2, <2>3, <2>4
<1>4. CASE BroadcastUnlock
  <2>1. Draft' = [Draft EXCEPT !["bcast"] = NoList]
    BY <1>4 DEF BroadcastUnlock, Draft
  <2>2. Feed!Discard("bcast")
    BY <1>4, <2>1 DEF BroadcastUnlock, Feed!Discard, Draft
  <2>3. QED
    BY <2>2 DEF FeedStep, Feed!Next, Feed!Composers
<1>5. QED
  BY <1>1, <1>2, <1>3, <1>4

\* A handler composes its first message and delivers or discards it.
LEMMA HandlerMaps == ASSUME Inv, NEW c \in Conns, Handle(c) PROVE FeedStep
<1> USE DEF Inv, TypeOK
<1>1. c # "bcast" /\ c \in Conns \cup {"bcast"}
  OBVIOUS
<1>2. CASE HandlerCopy(c)
  <2>1. Draft' = [Draft EXCEPT ![c] = Known]
    BY <1>1, <1>2 DEF HandlerCopy, Draft, Known, DataInv
  <2>2. Feed!Compose(c)
    BY <1>2, <2>1 DEF HandlerCopy, Feed!Compose, Draft, Known
  <2>3. QED
    BY <2>2 DEF FeedStep, Feed!Next, Feed!Composers
<1>3. CASE Register(c) \/ ReadFails(c)
  <2>1. Pipe' = Pipe /\ Known' = Known /\ Draft' = Draft
    BY <1>3 DEF Register, ReadFails, Pipe, Known, Draft
  <2>2. QED
    BY <1>3, <2>1, StutterMaps DEF Register, ReadFails
<1>4. ASSUME FirstWrite(c) \/ FirstWritePanics(c)
      PROVE  Draft' = [Draft EXCEPT ![c] = NoList]
  BY <1>1, <1>4 DEF FirstWrite, FirstWritePanics, Draft
<1>5. CASE FirstWrite(c)
  <2>1. CASE peer[c] = "up"
    <3>1. Draft[c] = hmsg[c] /\ Draft[c] # NoList
      BY <1>1, <1>5 DEF FirstWrite, Draft, DraftInv
    <3>2. view' = [view EXCEPT ![c] = Draft[c]]
      BY <1>5, <2>1, <3>1 DEF FirstWrite
    <3>3. Feed!Deliver(c)
      BY <1>4, <1>5, <3>1, <3>2 DEF FirstWrite, Feed!Deliver, Draft
    <3>4. QED
      BY <3>3 DEF FeedStep, Feed!Next
  <2>2. CASE peer[c] # "up"
    <3>1. view' = view
      BY <1>5, <2>2 DEF FirstWrite
    <3>2. Feed!Discard(c)
      BY <1>4, <1>5, <3>1 DEF FirstWrite, Feed!Discard, Draft
    <3>3. QED
      BY <3>2 DEF FeedStep, Feed!Next, Feed!Composers
  <2>3. QED
    BY <2>1, <2>2
<1>6. CASE FirstWritePanics(c)
  <2>1. Feed!Discard(c)
    BY <1>4, <1>6 DEF FirstWritePanics, Feed!Discard, Draft
  <2>2. QED
    BY <2>1 DEF FeedStep, Feed!Next, Feed!Composers
<1>7. CASE Unregister(c)
  <2>1. Draft' = Draft
    BY <1>7 DEF Unregister, Draft
  <2>2. Feed!Leave(c)
    BY <1>7, <2>1 DEF Unregister, Feed!Leave, Draft
  <2>3. QED
    BY <2>2 DEF FeedStep, Feed!Next
<1>8. QED
  BY <1>2, <1>3, <1>5, <1>6, <1>7

\* Browsers that come, leave or stall change nothing of the mapped state.
LEMMA PeerMaps ==
  ASSUME Inv, NEW c \in Conns,
         Upgrade(c) \/ UpgradeFails(c) \/ PeerMoves(c)
  PROVE  FeedStep
<1>1. Pipe' = Pipe /\ Known' = Known /\ Draft' = Draft
  BY DEF Upgrade, UpgradeFails, PeerMoves, PeerLeaves, PeerStalls, PeerResumes, Pipe, Known, Draft
<1>2. QED
  BY <1>1, StutterMaps DEF Upgrade, UpgradeFails, PeerMoves, PeerLeaves, PeerStalls, PeerResumes

\* The feed implements LiveView: whole lists, in the order they were read,
\* switched to at once and shown to browsers.
THEOREM FeedImplementsLiveView == Spec => FeedSpec
<1>1. Init => Feed!Init
  <2> SUFFICES ASSUME Init PROVE Feed!Init
    OBVIOUS
  <2>1. Pipe = <<>>
    BY DEF Init, Pipe
  <2>2. QED
    BY <2>1 DEF Init, Feed!Init, Pipe, Feed!Composers
<1>2. Inv /\ [Next]_vars => [Feed!Next]_(Feed!vars)
  <2> SUFFICES ASSUME Inv, [Next]_vars PROVE FeedStep
    BY DEF FeedStep
  <2>1. CASE UNCHANGED vars
    BY <2>1 DEF FeedStep, Feed!vars
  <2>2. QED
    BY <2>1, WatchMaps, ProcessMaps, BroadcastMaps, HandlerMaps, PeerMaps
<1>3. QED
  BY <1>1, <1>2, InvCorrect, PTL DEF Spec, FeedSpec, Feed!Spec

=============================================================================
