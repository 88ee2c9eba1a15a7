--------------------------- MODULE TrackerDBProofs ---------------------------
(***************************************************************************)
(* What TLAPS proves of the tracker DB, for any number of clients and      *)
(* readers, any retention time and any schedule: the type invariant, that  *)
(* the last contact of a client is tracked, and what a purge may remove    *)
(* and report.  The last three need a clock that is not formatted in a     *)
(* time zone east of UTC: there a threshold is too late.                   *)
(***************************************************************************)
EXTENDS TrackerDB, TLAPS

USE ConstantsAssumption DEF Time, Never, NoRun, Run, Stamp, HasRow, Threshold,
  Selected, Deleted, NoCursor, scriptVars, purgeVars

\* Every step keeps the types.
LEMMA TypeStep == ASSUME TypeOK, [Next]_vars PROVE TypeOK'
<1> USE DEF TypeOK
<1>1. CASE Tick
  BY <1>1 DEF Tick
<1>2. ASSUME NEW m \in Macs, Report(m) PROVE TypeOK'
  BY <1>2 DEF Report
<1>3. CASE CreateTable
  BY <1>3 DEF CreateTable
<1>4. CASE Insert
  BY <1>4 DEF Insert
<1>5. CASE InsertBusy
  BY <1>5 DEF InsertBusy
<1>6. ASSUME NEW r \in Readers, OpenCursor(r) \/ CloseCursor(r) PROVE TypeOK'
  BY <1>6 DEF OpenCursor, CloseCursor
<1>7. CASE SelectOld
  BY <1>7 DEF SelectOld
<1>8. CASE CloseSelect
  BY <1>8 DEF CloseSelect
<1>9. CASE DeleteOld
  BY <1>9 DEF DeleteOld
<1>10. CASE StopAddon
  BY <1>10 DEF StopAddon
<1>11. CASE UNCHANGED vars
  BY <1>11 DEF vars
<1>12. QED
  BY <1>1, <1>2, <1>3, <1>4, <1>5, <1>6, <1>7, <1>8, <1>9, <1>10, <1>11
     DEF Next, Script, Purge

\* The empty table is one.
LEMMA TypeInit == ASSUME Init PROVE TypeOK
<1>1. now \in Time /\ purgeStart \in Time /\ stops \in 0 .. MaxStops
  BY DEF Init
<1>2. lastSeen \in [Macs -> Time \cup {Never}] /\ contact \in [Macs -> Time \cup {Never}]
  BY DEF Init
<1>3. script = NoRun
  BY DEF Init
<1>4. created \in BOOLEAN
  BY DEF Init
<1>5. failed \subseteq Macs /\ scanning \subseteq Readers /\ purgedClients \subseteq Macs
  BY DEF Init
<1>6. purge \in {"sleep", "scan", "delete"} /\ thresholdTime \in Int
  BY DEF Init
<1>7. QED
  BY <1>1, <1>2, <1>3, <1>4, <1>5, <1>6 DEF TypeOK

\* The variables of the tracker DB always have their types.
THEOREM TypeCorrect == Spec => []TypeOK
<1>1. Init => TypeOK
  BY TypeInit
<1>2. QED
  BY <1>1, TypeStep, PTL DEF Spec

-----------------------------------------------------------------------------
(* The inductive invariant.                                                *)

\* A run carries the contact it was started for, at most a tick old.
ScriptInv ==
  script # NoRun =>
    /\ script.at \in now - 1 .. now
    /\ contact[script.mac] = script.at

\* A purge under way has the threshold of the clock it read, and what it
\* selected are the rows older than that, except for rows stored since.
PurgeInv ==
  purge # "sleep" =>
    /\ purgeStart <= now
    /\ thresholdTime = purgeStart - PurgeAge + ZoneOffset
    /\ \A m \in Macs :
         /\ Deleted(m) => m \in purgedClients
         /\ m \in purgedClients =>
              HasRow(m) /\ (Deleted(m) \/ lastSeen[m] >= purgeStart - PurgeAge)

Inv ==
  /\ TypeOK
  /\ ScriptInv
  /\ PurgeInv
  /\ ContactTracked

USE DEF Next, Script, Purge, vars

\* Runs are short.
LEMMA ScriptStep == ASSUME Inv, [Next]_vars PROVE ScriptInv'
<1> USE DEF Inv, TypeOK, ScriptInv
<1>1. CASE Tick
  BY <1>1 DEF Tick
<1>2. ASSUME NEW m \in Macs, Report(m) PROVE ScriptInv'
  BY <1>2 DEF Report
<1>3. CASE Script \/ StopAddon
  BY <1>3 DEF CreateTable, Insert, InsertBusy, StopAddon
<1>4. ASSUME NEW r \in Readers, OpenCursor(r) \/ CloseCursor(r) PROVE ScriptInv'
  BY <1>4 DEF OpenCursor, CloseCursor
<1>5. CASE Purge
  BY <1>5 DEF SelectOld, CloseSelect, DeleteOld
<1>6. CASE UNCHANGED vars
  BY <1>6
<1>7. QED
  BY <1>1, <1>2, <1>3, <1>4, <1>5, <1>6

\* What is stored between the SELECT and the DELETE is never old.
LEMMA PurgeStep ==
  ASSUME ZoneOffset <= 0, Inv, [Next]_vars PROVE PurgeInv'
<1> USE DEF Inv, TypeOK, PurgeInv
<1>1. CASE Tick
  BY <1>1 DEF Tick
<1>2. ASSUME NEW m \in Macs, Report(m) PROVE PurgeInv'
  BY <1>2 DEF Report
<1>3. CASE CreateTable \/ InsertBusy \/ StopAddon
  BY <1>3 DEF CreateTable, InsertBusy, StopAddon
<1>4. CASE Insert
  <2> SUFFICES ASSUME purge # "sleep" PROVE PurgeInv'
    BY <1>4 DEF Insert
  <2>1. script \in Run /\ script.at \in Time /\ script.mac \in Macs
    BY <1>4 DEF Insert
  <2>2. script.at >= now - 1 /\ purgeStart <= now
    BY <2>1, <1>4 DEF Insert, ScriptInv
  <2>3. script.at >= purgeStart - PurgeAge
    BY <2>1, <2>2
  <2>4. script.at >= thresholdTime
    BY <2>1, <2>3
  <2>5. ASSUME NEW m \in Macs, m # script.mac PROVE lastSeen'[m] = lastSeen[m]
    BY <1>4, <2>5 DEF Insert
  <2>6. lastSeen'[script.mac] = script.at
    BY <1>4, <2>1 DEF Insert
  <2>7. ASSUME NEW m \in Macs
        PROVE  /\ Deleted(m)' => m \in purgedClients'
               /\ m \in purgedClients' =>
                    HasRow(m)' /\ (Deleted(m)' \/ lastSeen'[m] >= purgeStart' - PurgeAge)
    <3>1. UNCHANGED <<purgedClients, purgeStart, thresholdTime, purge, now>>
      BY <1>4 DEF Insert
    <3>2. CASE m = script.mac
      BY <2>1, <2>3, <2>4, <2>6, <3>1, <3>2
    <3>3. CASE m # script.mac
      BY <2>5, <3>1, <3>3
    <3>4. QED
      BY <3>2, <3>3
  <2>8. QED
    BY <1>4, <2>7 DEF Insert
<1>5. ASSUME NEW r \in Readers, OpenCursor(r) \/ CloseCursor(r) PROVE PurgeInv'
  BY <1>5 DEF OpenCursor, CloseCursor
<1>6. CASE SelectOld
  BY <1>6 DEF SelectOld
<1>7. CASE CloseSelect
  BY <1>7 DEF CloseSelect
<1>8. CASE DeleteOld
  BY <1>8 DEF DeleteOld
<1>9. CASE UNCHANGED vars
  BY <1>9
<1>10. QED
  BY <1>1, <1>2, <1>3, <1>4, <1>5, <1>6, <1>7, <1>8, <1>9

\* No step makes the table forget or invent a contact.
LEMMA ContactStep ==
  ASSUME ZoneOffset <= 0, Inv, [Next]_vars PROVE ContactTracked'
<1> USE DEF Inv, TypeOK, ContactTracked, Settled
<1>1. CASE Tick
  BY <1>1 DEF Tick
<1>2. ASSUME NEW m \in Macs, Report(m) PROVE ContactTracked'
  BY <1>2 DEF Report
<1>3. CASE CreateTable
  BY <1>3 DEF CreateTable
<1>4. CASE Insert
  BY <1>4 DEF Insert, ScriptInv
<1>5. CASE InsertBusy
  BY <1>5 DEF InsertBusy
<1>6. CASE StopAddon
  BY <1>6 DEF StopAddon
<1>7. ASSUME NEW r \in Readers, OpenCursor(r) \/ CloseCursor(r)
      PROVE ContactTracked'
  BY <1>7 DEF OpenCursor, CloseCursor
<1>8. CASE SelectOld \/ CloseSelect
  BY <1>8 DEF SelectOld, CloseSelect
<1>9. CASE DeleteOld
  BY <1>9 DEF DeleteOld, PurgeInv
<1>10. CASE UNCHANGED vars
  BY <1>10
<1>11. QED
  BY <1>1, <1>2, <1>3, <1>4, <1>5, <1>6, <1>7, <1>8, <1>9, <1>10

\* Inv holds in every reachable state.
THEOREM InvCorrect == ASSUME ZoneOffset <= 0 PROVE Spec => []Inv
<1>1. Init => Inv
  BY TypeInit DEF Init, Inv, ScriptInv, PurgeInv, ContactTracked
<1>2. Inv /\ [Next]_vars => Inv'
  <2> SUFFICES ASSUME Inv, [Next]_vars PROVE Inv'
    OBVIOUS
  <2>1. TypeOK'
    BY TypeStep DEF Inv
  <2>2. QED
    BY <2>1, ScriptStep, PurgeStep, ContactStep DEF Inv
<1>3. QED
  BY <1>1, <1>2, PTL DEF Spec

-----------------------------------------------------------------------------
\* The last contact of every client is in its row, unless its report met a
\* busy database or the end of the add-on, or the row was old.
THEOREM ContactsAreTracked == ASSUME ZoneOffset <= 0 PROVE Spec => []ContactTracked
BY InvCorrect, PTL DEF Inv

\* Only the DELETE removes rows.
LEMMA RowsStay ==
  ASSUME Inv, [Next]_vars, ~DeleteOld, NEW m \in Macs, HasRow(m)
  PROVE  lastSeen'[m] # Never
<1> USE DEF Inv, TypeOK
<1>1. CASE Insert
  BY <1>1 DEF Insert
<1>2. CASE ~Insert
  BY <1>2 DEF Tick, Report, CreateTable, InsertBusy, OpenCursor, CloseCursor,
              SelectOld, CloseSelect, StopAddon
<1>3. QED
  BY <1>1, <1>2

\* A purge removes no row of a client seen within PurgeAge.
THEOREM PurgeIsSparing ==
  ASSUME ZoneOffset <= 0 PROVE Spec => PurgeSparesRecent
<1> DEFINE Spares == \A m \in Macs :
             HasRow(m) /\ lastSeen'[m] = Never => lastSeen[m] + PurgeAge < now
<1>1. Inv /\ [Next]_vars => [Spares]_vars
  <2> SUFFICES ASSUME Inv, [Next]_vars, NEW m \in Macs,
                      HasRow(m), lastSeen'[m] = Never
               PROVE  lastSeen[m] + PurgeAge < now
    OBVIOUS
  <2>1. DeleteOld
    BY RowsStay
  <2>2. QED
    BY <2>1 DEF DeleteOld, Inv, TypeOK, PurgeInv
<1>2. QED
  BY <1>1, InvCorrect, PTL DEF Spec, PurgeSparesRecent

\* A purge reports what it removed, up to clients stored again meanwhile.
THEOREM PurgeReportIsFaithful ==
  ASSUME ZoneOffset <= 0 PROVE Spec => PurgeReportFaithful
<1> DEFINE Faithful == DeleteOld =>
             \A m \in Macs :
               /\ HasRow(m) /\ lastSeen'[m] = Never => m \in purgedClients
               /\ m \in purgedClients => lastSeen'[m] = Never \/
                                         lastSeen[m] >= purgeStart - PurgeAge
<1>1. Inv /\ [Next]_vars => [Faithful]_vars
  BY DEF Inv, TypeOK, PurgeInv, DeleteOld
<1>2. QED
  BY <1>1, InvCorrect, PTL DEF Spec, PurgeReportFaithful

-----------------------------------------------------------------------------
(* The refinement of ClientHistory.                                        *)

\* No row is ahead of the last contact, nor that of the clock.
RowsInv == \A m \in Macs : lastSeen[m] <= contact[m] /\ contact[m] <= now

\* Rows follow contacts.
LEMMA RowsStep == ASSUME Inv, RowsInv, [Next]_vars PROVE RowsInv'
<1> USE DEF Inv, TypeOK, RowsInv
<1>1. CASE Tick
  BY <1>1 DEF Tick
<1>2. ASSUME NEW m \in Macs, Report(m) PROVE RowsInv'
  BY <1>2 DEF Report
<1>3. CASE Insert
  BY <1>3 DEF Insert, ScriptInv
<1>4. CASE DeleteOld
  BY <1>4 DEF DeleteOld
<1>5. CASE CreateTable \/ InsertBusy \/ StopAddon \/ SelectOld \/ CloseSelect
  BY <1>5 DEF CreateTable, InsertBusy, StopAddon, SelectOld, CloseSelect
<1>6. ASSUME NEW r \in Readers, OpenCursor(r) \/ CloseCursor(r) PROVE RowsInv'
  BY <1>6 DEF OpenCursor, CloseCursor
<1>7. CASE UNCHANGED vars
  BY <1>7
<1>8. QED
  BY <1>1, <1>2, <1>3, <1>4, <1>5, <1>6, <1>7

\* The end of a run that stores its contact is the step Store.
LEMMA InsertMaps == ASSUME Inv, RowsInv, Insert PROVE History!Next
<1> USE DEF Inv, TypeOK
<1>1. /\ script \in Run /\ script.mac \in Macs /\ script.at \in Time
      /\ script.at \in {now - 1, now}
      /\ contact[script.mac] = script.at
  BY DEF Insert, ScriptInv
<1>2. lastSeen[script.mac] <= script.at
  BY <1>1 DEF RowsInv
<1>3. /\ lastSeen' = [lastSeen EXCEPT ![script.mac] = script.at]
      /\ UNCHANGED now
  BY DEF Insert
<1>4. Running = {script.mac} /\ Running' = {}
  BY <1>1 DEF Insert, Running
<1>5. (failed \cup Running)' = (failed \cup Running) \ {script.mac}
  BY <1>4 DEF Insert
<1>6. History!Store(script.mac)
  <2> HIDE DEF Inv, TypeOK
  <2> DEFINE Stored(t) == /\ lastSeen[script.mac] <= t
                          /\ t # Never
                          /\ lastSeen' = [lastSeen EXCEPT ![script.mac] = t]
  <2>1. Stored(script.at)
    BY <1>1, <1>2, <1>3
  <2>2. \E t \in {now - 1, now} : Stored(t)
    BY <1>1, <2>1
  <2>3. QED
    BY <1>3, <1>5, <2>2 DEF History!Store, History!Never
<1>7. QED
  BY <1>1, <1>6 DEF History!Next

\* The DELETE of a purge is the step Forget, with the instant at which the
\* purge read the clock.
LEMMA DeleteMaps ==
  ASSUME ZoneOffset <= 0, Inv, DeleteOld PROVE History!Next
<1> USE DEF Inv, TypeOK, PurgeInv
<1> DEFINE Instant == IF thresholdTime + PurgeAge >= 0 THEN thresholdTime + PurgeAge ELSE 0
<1>1. Instant \in 0 .. now
  BY DEF DeleteOld
<1>2. \A m \in Macs : Deleted(m) => lastSeen[m] < Instant - PurgeAge
  OBVIOUS
<1>3. \A m \in Macs : lastSeen[m] < Instant - PurgeAge => ~HasRow(m) \/ Deleted(m)
  OBVIOUS
<1>4. lastSeen' = [m \in Macs |->
        IF lastSeen[m] < Instant - PurgeAge THEN Never ELSE lastSeen[m]]
  <2>1. lastSeen' = [m \in Macs |-> IF Deleted(m) THEN Never ELSE lastSeen[m]]
    BY DEF DeleteOld
  <2>2. ASSUME NEW m \in Macs
        PROVE  (IF Deleted(m) THEN Never ELSE lastSeen[m]) =
               (IF lastSeen[m] < Instant - PurgeAge THEN Never ELSE lastSeen[m])
    BY <1>2, <1>3
  <2>3. QED
    BY <2>1, <2>2
<1>5. UNCHANGED now /\ UNCHANGED (failed \cup Running)
  BY DEF DeleteOld, Running
<1>6. History!Forget
  BY <1>1, <1>4, <1>5 DEF History!Forget, History!Never
<1>7. QED
  BY <1>6 DEF History!Next

\* The tracker DB implements ClientHistory: each step is one of its steps, or
\* cannot be seen through a query.
THEOREM TrackerImplementsHistory ==
  ASSUME ZoneOffset <= 0 PROVE Spec => HistorySpec
<1>1. Init => RowsInv
  <2> SUFFICES ASSUME Init PROVE RowsInv
    OBVIOUS
  <2>1. now = 0 /\ lastSeen = [m \in Macs |-> Never] /\ contact = [m \in Macs |-> Never]
    BY DEF Init
  <2>2. \A m \in Macs : lastSeen[m] = -1 /\ contact[m] = -1
    BY <2>1
  <2>3. -1 <= -1 /\ -1 <= 0
    OBVIOUS
  <2>4. QED
    BY <2>1, <2>2, <2>3, Zenon DEF RowsInv
<1>2. Init => History!Init
  BY DEF Init, Running, History!Init, History!Never
<1>3. Inv /\ RowsInv /\ [Next]_vars => [History!Next]_(History!vars)
  <2> SUFFICES ASSUME Inv, RowsInv, [Next]_vars
               PROVE  History!Next \/ UNCHANGED <<now, lastSeen, failed \cup Running>>
    BY DEF History!vars
  <2> USE DEF Inv, TypeOK
  <2>1. CASE Tick
    BY <2>1 DEF Tick, Running, History!Next, History!Advance
  <2>2. ASSUME NEW m \in Macs, Report(m) PROVE History!Next
    <3>1. (failed \cup Running)' = (failed \cup Running) \cup {m}
      BY <2>2 DEF Report, Running
    <3>2. QED
      BY <2>2, <3>1 DEF Report, History!Next, History!Miss
  <2>3. CASE CreateTable \/ InsertBusy \/ StopAddon \/ SelectOld \/ CloseSelect
    BY <2>3 DEF CreateTable, InsertBusy, StopAddon, SelectOld, CloseSelect, Running
  <2>4. ASSUME NEW r \in Readers, OpenCursor(r) \/ CloseCursor(r)
        PROVE  UNCHANGED <<now, lastSeen, failed \cup Running>>
    BY <2>4 DEF OpenCursor, CloseCursor, Running
  <2>5. CASE UNCHANGED vars
    BY <2>5 DEF Running
  <2>6. QED
    BY <2>1, <2>2, <2>3, <2>4, <2>5, InsertMaps, DeleteMaps
<1>4. QED
  BY <1>1, <1>2, <1>3, RowsStep, InvCorrect, PTL DEF Spec, HistorySpec, History!Spec

=============================================================================
