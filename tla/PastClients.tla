----------------------------- MODULE PastClients -----------------------------
(***************************************************************************)
(* The history of the DHCP clients across starts of the add-on: the start  *)
(* epoch that dnsmasq-init writes, the filter of dnsmasq-dhcp-script.sh on *)
(* the events of dnsmasq's start-up, restarts of dnsmasq by s6, and the    *)
(* current and past clients in the messages of the backend.                *)
(*                                                                         *)
(* The feed of the lease list (module UIBackend) is one step here, and so  *)
(* is the purge and a run of the script (module TrackerDB).  A message is  *)
(* composed in two steps: the current clients first, then the database.    *)
(***************************************************************************)
EXTENDS Integers

CONSTANTS
  Macs,          \* the DHCP clients whose identifier is a MAC address
  Grace,         \* START_TIME_THRESHOLD_SEC
  PurgeAge,      \* forget_past_clients_after
  ResetOnReboot, \* dhcp_server.reset_dhcp_lease_database_on_reboot
  Prompt,        \* dnsmasq has announced its leases within Grace of its start
  MaxRespawns,   \* bound of the restarts of dnsmasq by s6
  MaxTime        \* bound of the clock

ASSUME ConstantsAssumption ==
  /\ Grace \in Nat \ {0}
  /\ PurgeAge \in Nat \ {0}
  /\ ResetOnReboot \in BOOLEAN
  /\ Prompt \in BOOLEAN
  /\ MaxRespawns \in Nat
  /\ MaxTime \in Nat

VARIABLES
  now,          \* the clock
  addon,        \* the add-on is up or down
  startEpoch,   \* /data/startepoch
  leases,       \* the clients in /data/dnsmasq.leases
  dnsmasq,      \* dnsmasq is up or down
  announce,     \* leases it has still to report since it started
  respawns,     \* how often s6 restarted it
  lastSeen,     \* column last_seen per client, Never without a row
  rowEpoch,     \* column dhcp_server_start_counter
  badRow,       \* there is a row that net.ParseMAC rejects
  heard,        \* history: the last contact per client
  lost,         \* history: clients whose last contact was not stored
  backendEpoch, \* UIBackend.startEpoch, Never while the backend is down
  known,        \* the clients in dhcpClientData
  composer,     \* idle, or between the two steps of a message
  draft,        \* the current clients of the message being composed
  pageCurrent,  \* the last message: its current clients
  pageNotes     \* ... and the note of each past one

hostVars    == <<now, addon, startEpoch>>
dnsmasqVars == <<leases, dnsmasq, announce, respawns>>
rowVars     == <<lastSeen, rowEpoch, badRow>>
dbVars      == <<rowVars, heard, lost>>
composerVars == <<composer, draft>>
pageVars    == <<pageCurrent, pageNotes>>
backendVars == <<backendEpoch, known, composerVars, pageVars>>
vars == <<hostVars, dnsmasqVars, dbVars, backendVars>>

Time   == 0 .. MaxTime
Never  == -1
Notes  == {"not past", "previous run", "missed renewal", "wrong epoch"}

TypeOK ==
  /\ now \in Time
  /\ addon \in {"up", "down"}
  /\ startEpoch \in Time \cup {Never}
  /\ leases \subseteq Macs
  /\ dnsmasq \in {"up", "down"}
  /\ announce \subseteq Macs
  /\ respawns \in 0 .. MaxRespawns
  /\ lastSeen \in [Macs -> Time \cup {Never}]
  /\ rowEpoch \in [Macs -> Time \cup {Never}]
  /\ badRow \in BOOLEAN
  /\ heard \in [Macs -> Time \cup {Never}]
  /\ lost \subseteq Macs
  /\ backendEpoch \in Time \cup {Never}
  /\ known \subseteq Macs
  /\ composer \in {"idle", "composing"}
  /\ draft \subseteq Macs
  /\ pageCurrent \subseteq Macs
  /\ pageNotes \in [Macs -> Notes]

NoNotes == [m \in Macs |-> "not past"]

Init ==
  /\ now = 0
  /\ addon = "down"
  /\ startEpoch = Never
  /\ leases = {}
  /\ dnsmasq = "down"
  /\ announce = {}
  /\ respawns = 0
  /\ lastSeen = [m \in Macs |-> Never]
  /\ rowEpoch = [m \in Macs |-> Never]
  /\ badRow = FALSE
  /\ heard = [m \in Macs |-> Never]
  /\ lost = {}
  /\ backendEpoch = Never
  /\ known = {}
  /\ composer = "idle"
  /\ draft = {}
  /\ pageCurrent = {}
  /\ pageNotes = NoNotes

HasRow(m) == lastSeen[m] # Never

BackendUp == backendEpoch # Never

-----------------------------------------------------------------------------
(* Slips of this code that the properties below must catch.                *)

\* date in local time, east of Greenwich.
LocalStamp == now + 1

\* The uptime of a host that was rebooted since the first start.
EpochFromUptime == IF startEpoch = Never THEN now ELSE 0

FilterForgotten == FALSE

\* <= for < in the comparison of the epochs.
NoteOffByOne(m) ==
  IF rowEpoch[m] <= backendEpoch THEN "previous run" ELSE "wrong epoch"

\* The current clients are not left out of the past ones.
AliveToo(m) == HasRow(m)

\* The purge takes the clients of previous runs for old ones.
OfPreviousRun(m) == HasRow(m) /\ rowEpoch[m] < backendEpoch

-----------------------------------------------------------------------------
(* The expressions of the scripts and of generateWebSocketMessage.         *)

Stamp == now

\* bump_dhcp_server_start_epoch.
NewEpoch == now

\* dnsmasq_just_started.
JustStarted == now - startEpoch < Grace

\* The note of a past client.
Note(m) ==
  IF rowEpoch[m] < backendEpoch THEN "previous run"
  ELSE IF rowEpoch[m] = backendEpoch THEN "missed renewal"
  ELSE "wrong epoch"

\* GetDeadDhcpClients: rows of clients that are not among the current ones.
Dead(m) == HasRow(m) /\ m \notin draft

\* PurgeOldDeadClients: the rows its SELECT and DELETE mean.
Old(m) == HasRow(m) /\ lastSeen[m] < now - PurgeAge

-----------------------------------------------------------------------------
(* The host, the Supervisor and s6.                                        *)

\* Time passes.  A prompt dnsmasq is started and has announced its leases
\* before the threshold of the script.
Tick ==
  /\ now < MaxTime
  /\ Prompt /\ addon = "up" /\ (dnsmasq = "down" \/ announce # {}) =>
       now + 1 - startEpoch < Grace
  /\ now' = now + 1
  /\ UNCHANGED <<addon, startEpoch, dnsmasqVars, dbVars, backendVars>>

\* dnsmasq-init: after a recent boot the lease file is moved away, if the
\* options say so, and the start epoch advances.
StartAddon(justRebooted) ==
  /\ addon = "down"
  /\ addon' = "up"
  /\ leases' = IF ResetOnReboot /\ justRebooted THEN {} ELSE leases
  /\ startEpoch' = NewEpoch
  /\ UNCHANGED <<now, dnsmasq, announce, respawns, dbVars, backendVars>>

BackendDown ==
  /\ backendEpoch' = Never
  /\ known' = {}
  /\ composer' = "idle"
  /\ draft' = {}
  /\ pageCurrent' = {}
  /\ pageNotes' = NoNotes

\* The add-on is stopped, or a finish script halts it; it is not up again in
\* the same tick.
StopAddon ==
  /\ addon = "up"
  /\ now < MaxTime
  /\ now' = now + 1
  /\ addon' = "down"
  /\ dnsmasq' = "down"
  /\ announce' = {}
  /\ BackendDown
  /\ UNCHANGED <<startEpoch, leases, respawns, dbVars>>

\* s6 starts dnsmasq, which reads its lease file.
StartDnsmasq ==
  /\ addon = "up"
  /\ dnsmasq = "down"
  /\ dnsmasq' = "up"
  /\ announce' = leases
  /\ UNCHANGED <<leases, respawns, hostVars, dbVars, backendVars>>

\* dnsmasq is killed by a signal: its finish script lets s6 restart it, and
\* dnsmasq-init does not run again.
DnsmasqKilled ==
  /\ dnsmasq = "up"
  /\ respawns < MaxRespawns
  /\ respawns' = respawns + 1
  /\ dnsmasq' = "down"
  /\ announce' = {}
  /\ UNCHANGED <<leases, hostVars, dbVars, backendVars>>

\* s6 starts the backend after dnsmasq; it reads epoch and leases once.
StartBackend ==
  /\ dnsmasq = "up"
  /\ ~BackendUp
  /\ backendEpoch' = startEpoch
  /\ known' = leases
  /\ UNCHANGED <<composerVars, pageVars, hostVars, dnsmasqVars, dbVars>>

\* The web server ends, main returns, and s6 starts the backend again.
BackendEnds ==
  /\ BackendUp
  /\ BackendDown
  /\ UNCHANGED <<hostVars, dnsmasqVars, dbVars>>

-----------------------------------------------------------------------------
(* dnsmasq and its script.                                                 *)

\* add_or_update_dhcp_client, which fails when the database is busy.
Store(m) ==
  \/ /\ lastSeen' = [lastSeen EXCEPT ![m] = Stamp]
     /\ rowEpoch' = [rowEpoch EXCEPT ![m] = startEpoch]
     /\ lost' = lost \ {m}
  \/ /\ lost' = lost \cup {m}
     /\ UNCHANGED <<lastSeen, rowEpoch>>

\* The script ignores the event.
Ignore(m) ==
  /\ lost' = lost \cup {m}
  /\ UNCHANGED <<lastSeen, rowEpoch>>

\* The script on an event "old".
ScriptOld(m) == IF JustStarted THEN Ignore(m) ELSE Store(m)

\* A client obtains a lease: event "add".
Grant(m) ==
  /\ dnsmasq = "up"
  /\ m \notin leases
  /\ leases' = leases \cup {m}
  /\ heard' = [heard EXCEPT ![m] = now]
  /\ Store(m)
  /\ UNCHANGED <<badRow, dnsmasq, announce, respawns, hostVars, backendVars>>

\* A client renews its lease: event "old", by script-on-renewal.
Renew(m) ==
  /\ dnsmasq = "up"
  /\ m \in leases
  /\ heard' = [heard EXCEPT ![m] = now]
  /\ ScriptOld(m)
  /\ UNCHANGED <<badRow, dnsmasqVars, hostVars, backendVars>>

\* dnsmasq reports a lease it read when it started: also an event "old".
Announce(m) ==
  /\ m \in announce
  /\ announce' = announce \ {m}
  /\ IF JustStarted THEN UNCHANGED <<lastSeen, rowEpoch, lost>>
     ELSE Store(m)
  /\ UNCHANGED <<badRow, leases, dnsmasq, respawns, heard, hostVars,
                 backendVars>>

\* A DHCPv6 client obtains a lease: dnsmasq reports its DUID for a MAC address.
GrantV6 ==
  /\ dnsmasq = "up"
  /\ badRow' = TRUE
  /\ UNCHANGED <<lastSeen, rowEpoch, heard, lost, dnsmasqVars, hostVars,
                 backendVars>>

\* A lease expires or is released: event "del", which the script ignores.
Expire(m) ==
  /\ dnsmasq = "up"
  /\ m \in leases
  /\ leases' = leases \ {m}
  /\ announce' = announce \ {m}
  /\ UNCHANGED <<dnsmasq, respawns, hostVars, dbVars, backendVars>>

-----------------------------------------------------------------------------
(* The backend.                                                            *)

\* The feed of module UIBackend.
SyncList ==
  /\ BackendUp
  /\ known # leases
  /\ known' = leases
  /\ UNCHANGED <<backendEpoch, composerVars, pageVars, hostVars, dnsmasqVars, dbVars>>

\* The purge of module TrackerDB, on a clock in UTC.  It never removes the
\* row that does not parse.
Purge ==
  /\ BackendUp
  /\ \E m \in Macs : Old(m)
  /\ lastSeen' = [m \in Macs |-> IF Old(m) THEN Never ELSE lastSeen[m]]
  /\ rowEpoch' = [m \in Macs |-> IF Old(m) THEN Never ELSE rowEpoch[m]]
  /\ UNCHANGED <<badRow, heard, lost, hostVars, dnsmasqVars, backendVars>>

\* generateWebSocketMessage copies the list of current clients ...
ComposeCurrent ==
  /\ BackendUp
  /\ composer = "idle"
  /\ composer' = "composing"
  /\ draft' = known
  /\ UNCHANGED <<backendEpoch, known, pageVars, hostVars, dnsmasqVars, dbVars>>

\* ... and adds the past clients from the database: none if a row does not
\* parse.
ComposePast ==
  /\ composer = "composing"
  /\ pageCurrent' = draft
  /\ pageNotes' = [m \in Macs |->
                     IF Dead(m) /\ ~badRow THEN Note(m) ELSE "not past"]
  /\ composer' = "idle"
  /\ draft' = {}
  /\ UNCHANGED <<backendEpoch, known, hostVars, dnsmasqVars, dbVars>>

-----------------------------------------------------------------------------
Clients ==
  \/ \E m \in Macs : Grant(m) \/ Renew(m) \/ Expire(m)
  \/ GrantV6

Next ==
  \/ Tick
  \/ \E justRebooted \in BOOLEAN : StartAddon(justRebooted)
  \/ StopAddon
  \/ StartDnsmasq
  \/ DnsmasqKilled
  \/ StartBackend
  \/ BackendEnds
  \/ Clients
  \/ \E m \in Macs : Announce(m)
  \/ SyncList
  \/ Purge
  \/ ComposeCurrent
  \/ ComposePast

(***************************************************************************)
(* The goroutines of the backend run, and its ticker makes it compose a    *)
(* message again and again.  Nobody owes a start, a stop or a contact.     *)
(***************************************************************************)
Fairness ==
  /\ WF_vars(SyncList)
  /\ WF_vars(ComposeCurrent)
  /\ WF_vars(ComposePast)

Spec == Init /\ [][Next]_vars

FairSpec == Spec /\ Fairness

-----------------------------------------------------------------------------
(* Properties.                                                             *)

NoGhost(m) == HasRow(m) => lastSeen[m] <= heard[m]

\* A row never claims a contact that did not take place: the script leaves
\* out what dnsmasq reports of its lease file when it starts.
StartupEventsIgnored == \A m \in Macs : NoGhost(m)

\* ... as long as s6 did not restart dnsmasq.
GhostsOnlyAfterRespawn == respawns = 0 => StartupEventsIgnored

\* No past client is tagged with an epoch later than that of the backend,
\* which read it once: every process of a run uses the same epoch, and a
\* later run a later one.
NoWrongEpoch ==
  /\ \A m \in Macs : pageNotes[m] # "wrong epoch"
  /\ BackendUp => backendEpoch = startEpoch

\* When a message says that a past client was seen since the last start, it
\* was; when it says that it was seen in a previous run, it was not, unless
\* its last contact was not stored.
NotesTruthful ==
  [][ComposePast =>
       \A m \in Macs :
         /\ pageNotes'[m] = "missed renewal" =>
              heard[m] >= startEpoch \/ respawns > 0
         /\ pageNotes'[m] = "previous run" =>
              heard[m] < startEpoch \/ m \in lost]_vars

Shown(m) == pageNotes[m] # "not past"

\* A client with a row and no lease ends up among the past clients, one with
\* a lease among the current ones and not among the past ones, while the
\* backend is up and all rows parse.
ListedWhereItBelongs ==
  \A m \in Macs :
    /\ (HasRow(m) /\ m \notin leases) ~>
         (Shown(m) \/ ~HasRow(m) \/ m \in leases \/ ~BackendUp \/ badRow)
    /\ m \in leases ~>
         ((m \in pageCurrent /\ ~Shown(m)) \/ m \notin leases \/ ~BackendUp)

-----------------------------------------------------------------------------
\* The table keeps the promise of ClientHistory, which TrackerDB shows to be
\* that of the database under its scripts, readers and purges.
History == INSTANCE ClientHistory WITH
  clock <- now,
  seen  <- lastSeen,
  owed  <- lost

HistorySpec == History!Spec

=============================================================================
