------------------------------ MODULE TrackerDB ------------------------------
(***************************************************************************)
(* The tracker DB (/data/trackerdb.sqlite3), the history behind the "past  *)
(* DHCP clients" of the web UI.  Three kinds of processes use it:          *)
(*                                                                         *)
(*   - dnsmasq-dhcp-script.sh, run by dnsmasq for one event at a time,     *)
(*     writes a row per client through the sqlite3 command;                *)
(*   - every goroutine that composes a message reads all rows              *)
(*     (GetDeadDhcpClients);                                               *)
(*   - forgetPastDhcpClients deletes old rows (PurgeOldDeadClients).       *)
(*                                                                         *)
(* A query is a cursor, open from Query to rows.Close.  SQLite commits no  *)
(* write while a cursor is open: the Go driver then waits (its busy        *)
(* timeout is 5 s, a cursor lasts milliseconds), the sqlite3 command gives *)
(* up at once.  The clock counts coarse ticks.                             *)
(***************************************************************************)
EXTENDS Integers

CONSTANTS
  Macs,       \* the DHCP clients
  Unparsable, \* those whose identifier net.ParseMAC rejects
  Readers,    \* goroutines that compose messages
  PurgeAge,   \* forget_past_clients_after
  ZoneOffset, \* of the time zone in which time.Now is formatted, east positive
  MaxTime,    \* bound of the clock
  MaxStops    \* bound of the stops of the add-on

ASSUME ConstantsAssumption ==
  /\ Unparsable \subseteq Macs
  /\ PurgeAge \in Nat \ {0}   \* otherwise the purge goroutine is not started
  /\ ZoneOffset \in Int
  /\ MaxTime \in Nat
  /\ MaxStops \in Nat

VARIABLES
  now,           \* the clock
  stops,         \* how often the add-on was stopped
  created,       \* the table exists
  lastSeen,      \* column last_seen per client, Never without a row
  script,        \* the running script: step, client and timestamp
  contact,       \* history: the last contact dnsmasq reported per client
  failed,        \* history: clients whose last report was not stored
  scanning,      \* readers with an open cursor
  purge,         \* step of forgetPastDhcpClients
  thresholdTime, \* of the current purge
  purgedClients, \* the rows that purge selected
  purgeStart     \* history: when that purge read the clock

scriptVars == <<script, contact, failed>>
purgeVars  == <<purge, thresholdTime, purgedClients, purgeStart>>
vars == <<now, stops, created, lastSeen, scriptVars, scanning, purgeVars>>

Time  == 0 .. MaxTime
Never == -1
NoRun == [pc |-> "idle"]
Run   == [pc : {"stamped", "insert"}, mac : Macs, at : Time]

TypeOK ==
  /\ now \in Time
  /\ stops \in 0 .. MaxStops
  /\ created \in BOOLEAN
  /\ lastSeen \in [Macs -> Time \cup {Never}]
  /\ script = NoRun \/ script \in Run
  /\ contact \in [Macs -> Time \cup {Never}]
  /\ failed \subseteq Macs
  /\ scanning \subseteq Readers
  /\ purge \in {"sleep", "scan", "delete"}
  /\ thresholdTime \in Int
  /\ purgedClients \subseteq Macs
  /\ purgeStart \in Time

Init ==
  /\ now = 0
  /\ stops = 0
  /\ created = FALSE
  /\ lastSeen = [m \in Macs |-> Never]
  /\ script = NoRun
  /\ contact = [m \in Macs |-> Never]
  /\ failed = {}
  /\ scanning = {}
  /\ purge = "sleep"
  /\ thresholdTime = 0
  /\ purgedClients = {}
  /\ purgeStart = 0

-----------------------------------------------------------------------------
(* Slips of this code that the properties below must catch.                *)

\* DELETE ... WHERE mac_addr IN (the selected ones).
DeletedBySelection(m) == m \in purgedClients

\* A DELETE whose threshold is computed when it runs.
DeletedByNow(m) == lastSeen[m] # Never /\ lastSeen[m] < now - PurgeAge

\* A threshold that is one tick late, and a SELECT that finds nothing.
LateThreshold == now - PurgeAge + 1
NothingSelected == {}

\* date without -u, east of Greenwich.
LocalStamp == now + 1

-----------------------------------------------------------------------------
(* The SQL statements.                                                     *)

\* last_seen=$(date -u ...).
Stamp == now

HasRow(m) == lastSeen[m] # Never

\* currentTime.Add(-purgeThreshold).Format(time.RFC3339): the column holds
\* UTC, the parameter local time, and the comparison of the two texts looks
\* at the digits before the zone.
Threshold == now - PurgeAge + ZoneOffset

\* SELECT ... WHERE last_seen < ?
Selected == {m \in Macs : HasRow(m) /\ lastSeen[m] < Threshold}

\* DELETE FROM dhcp_clients WHERE last_seen < ?
Deleted(m) == HasRow(m) /\ lastSeen[m] < thresholdTime

NoCursor == scanning = {} /\ purge # "scan"

-----------------------------------------------------------------------------
\* A tick is longer than a run of the script: a run sees the clock advance
\* once at most.
Tick ==
  /\ now < MaxTime
  /\ script # NoRun => script.at = now
  /\ now' = now + 1
  /\ UNCHANGED <<stops, created, lastSeen, scriptVars, scanning, purgeVars>>

-----------------------------------------------------------------------------
(* dnsmasq-dhcp-script.sh, for an event that passes its filter.            *)

\* dnsmasq reports a contact of client m; the script stamps it.
Report(m) ==
  /\ script = NoRun
  /\ script' = [pc |-> "stamped", mac |-> m, at |-> Stamp]
  /\ contact' = [contact EXCEPT ![m] = now]
  /\ UNCHANGED <<now, stops, created, lastSeen, failed, scanning, purgeVars>>

\* CREATE TABLE IF NOT EXISTS, a command of its own.  There is no cursor
\* before the table exists, and an existing table is not written to.
CreateTable ==
  /\ script.pc = "stamped"
  /\ script' = [script EXCEPT !.pc = "insert"]
  /\ created' = TRUE
  /\ UNCHANGED <<now, stops, lastSeen, contact, failed, scanning, purgeVars>>

\* INSERT ... ON CONFLICT DO UPDATE.
Insert ==
  /\ script.pc = "insert"
  /\ NoCursor
  /\ lastSeen' = [lastSeen EXCEPT ![script.mac] = script.at]
  /\ failed' = failed \ {script.mac}
  /\ script' = NoRun
  /\ UNCHANGED <<now, stops, created, contact, scanning, purgeVars>>

\* "database is locked": logged and given up.
InsertBusy ==
  /\ script.pc = "insert"
  /\ ~NoCursor \/ purge = "delete"
  /\ failed' = failed \cup {script.mac}
  /\ script' = NoRun
  /\ UNCHANGED <<now, stops, created, lastSeen, contact, scanning, purgeVars>>

-----------------------------------------------------------------------------
(* GetDeadDhcpClients.  Without a table the query fails and no cursor is   *)
(* opened.                                                                 *)

OpenCursor(r) ==
  /\ created
  /\ r \notin scanning
  /\ scanning' = scanning \cup {r}
  /\ UNCHANGED <<now, stops, created, lastSeen, scriptVars, purgeVars>>

\* All rows are read, or one of them does not parse: rows.Close.
CloseCursor(r) ==
  /\ r \in scanning
  /\ scanning' = scanning \ {r}
  /\ UNCHANGED <<now, stops, created, lastSeen, scriptVars, purgeVars>>

-----------------------------------------------------------------------------
(* forgetPastDhcpClients and PurgeOldDeadClients.                          *)

\* Read the clock and open the SELECT.
SelectOld ==
  /\ purge = "sleep"
  /\ created
  /\ thresholdTime' = Threshold
  /\ purgeStart' = now
  /\ purgedClients' = Selected
  /\ purge' = "scan"
  /\ UNCHANGED <<now, stops, created, lastSeen, scriptVars, scanning>>

\* The cursor is drained or abandoned: an identifier that does not parse is
\* an error, and no row is nothing to delete.
CloseSelect ==
  /\ purge = "scan"
  /\ \/ /\ purgedClients # {}
        /\ purgedClients \cap Unparsable = {}
        /\ purge' = "delete"
        /\ UNCHANGED purgedClients
     \/ /\ purgedClients = {} \/ purgedClients \cap Unparsable # {}
        /\ purge' = "sleep"
        /\ purgedClients' = {}
  /\ UNCHANGED <<now, stops, created, lastSeen, scriptVars, scanning, thresholdTime,
                 purgeStart>>

\* DELETE, on a connection of its own, with the same threshold.
DeleteOld ==
  /\ purge = "delete"
  /\ NoCursor
  /\ lastSeen' = [m \in Macs |-> IF Deleted(m) THEN Never ELSE lastSeen[m]]
  /\ purgedClients' = {}
  /\ purge' = "sleep"
  /\ UNCHANGED <<now, stops, created, scriptVars, scanning, thresholdTime, purgeStart>>

\* The add-on is stopped, with whatever runs in it, and started again.  Its
\* files stay; an event whose script was running is gone.
StopAddon ==
  /\ stops < MaxStops
  /\ stops' = stops + 1
  /\ failed' = IF script = NoRun THEN failed ELSE failed \cup {script.mac}
  /\ script' = NoRun
  /\ scanning' = {}
  /\ purge' = "sleep"
  /\ purgedClients' = {}
  /\ UNCHANGED <<now, created, lastSeen, contact, thresholdTime, purgeStart>>

-----------------------------------------------------------------------------
Script == CreateTable \/ Insert \/ InsertBusy

Purge == SelectOld \/ CloseSelect \/ DeleteOld

Next ==
  \/ Tick
  \/ \E m \in Macs : Report(m)
  \/ Script
  \/ \E r \in Readers : OpenCursor(r) \/ CloseCursor(r)
  \/ Purge
  \/ StopAddon

(***************************************************************************)
(* A script that was started and a cursor that was opened come to an end,  *)
(* the purge goroutine wakes up every five minutes, and its DELETE, which  *)
(* polls the lock for five seconds, is not always kept out by cursors that *)
(* last milliseconds.                                                      *)
(***************************************************************************)
Fairness ==
  /\ WF_vars(Script)
  /\ \A r \in Readers : WF_vars(CloseCursor(r))
  /\ WF_vars(Purge)
  /\ SF_vars(DeleteOld)

Spec == Init /\ [][Next]_vars

FairSpec == Spec /\ Fairness

-----------------------------------------------------------------------------
(* Properties.                                                             *)

\* The purge removes a row only if its client was last seen longer ago than
\* PurgeAge, also when the script updates the row between the SELECT and
\* the DELETE.
PurgeSparesRecent ==
  [][\A m \in Macs :
       HasRow(m) /\ lastSeen'[m] = Never => lastSeen[m] + PurgeAge < now]_vars

Settled(m) == script = NoRun \/ script.mac # m

\* The contact of a client with no report under way is what its row says,
\* unless the report hit a busy database or the end of the add-on, or the
\* row grew old enough to be purged.
ContactTracked ==
  \A m \in Macs :
    Settled(m) /\ m \notin failed /\ contact[m] # Never =>
      \/ lastSeen[m] = contact[m]
      \/ ~HasRow(m) /\ contact[m] + PurgeAge < now

\* The rows a purge returns as purged are those its DELETE removed, except
\* for clients that were stored again in between.
PurgeReportFaithful ==
  [][DeleteOld =>
       \A m \in Macs :
         /\ HasRow(m) /\ lastSeen'[m] = Never => m \in purgedClients
         /\ m \in purgedClients => lastSeen'[m] = Never \/
                                   lastSeen[m] >= purgeStart - PurgeAge]_vars

Old(m) == HasRow(m) /\ lastSeen[m] + PurgeAge < now

\* A row that is old is purged or updated, unless the table holds a client
\* whose identifier does not parse, or messages are composed without a pause.
OldRowsForgotten ==
  []<>(scanning = {}) =>
    \A m \in Macs :
      Old(m) ~> (~Old(m) \/ \E u \in Unparsable : HasRow(u))

\* Every contact that dnsmasq reports is stored once its script has ended,
\* and stays until it is old.
EveryContactStored ==
  \A m \in Macs :
    Settled(m) /\ contact[m] # Never /\ contact[m] + PurgeAge >= now =>
      lastSeen[m] = contact[m]

-----------------------------------------------------------------------------
(* The promise of ClientHistory: a contact is owed while its script runs.  *)

Running == IF script = NoRun THEN {} ELSE {script.mac}

History == INSTANCE ClientHistory WITH
  clock <- now,
  seen  <- lastSeen,
  owed  <- failed \cup Running

\* Through a query the table looks as if every run of the script and every
\* purge were a single step, and no row ever goes back in time.
HistorySpec == History!Spec

=============================================================================
