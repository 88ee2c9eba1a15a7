-------------------------- MODULE PastClientsProofs --------------------------
(***************************************************************************)
(* What TLAPS proves of the history across starts of the add-on, for any   *)
(* number of clients, starts and restarts: the type invariant, that the    *)
(* processes of a run agree on its start epoch and no later epoch is ever  *)
(* shown, and, for a dnsmasq that starts promptly, that the history holds  *)
(* no contact that did not take place and its notes are true, as long as   *)
(* s6 did not restart dnsmasq alone.                                       *)
(***************************************************************************)
EXTENDS PastClients, TLAPS

\* The constants that are numbers.
LEMMA Numbers ==
  Grace \in Nat \ {0} /\ PurgeAge \in Nat \ {0} /\ MaxRespawns \in Nat /\ MaxTime \in Nat
BY Zenon, ConstantsAssumption

USE Numbers DEF Time, Never, HasRow, BackendUp, Stamp, NewEpoch,
  JustStarted, Old, hostVars, dnsmasqVars, rowVars, dbVars, pageVars, composerVars, backendVars

\* A run of the script on one client keeps the types of its row.
LEMMA StoreType ==
  ASSUME TypeOK, NEW m \in Macs, Store(m)
  PROVE  /\ lastSeen' \in [Macs -> Time \cup {Never}]
         /\ rowEpoch' \in [Macs -> Time \cup {Never}]
         /\ lost' \subseteq Macs
<1> USE DEF TypeOK
<1>1. CASE UNCHANGED <<lastSeen, rowEpoch>> /\ lost' = lost \cup {m}
  BY <1>1
<1>2. CASE /\ lastSeen' = [lastSeen EXCEPT ![m] = Stamp]
           /\ rowEpoch' = [rowEpoch EXCEPT ![m] = startEpoch]
           /\ lost' = lost \ {m}
  BY <1>2
<1>3. QED
  BY <1>1, <1>2 DEF Store

\* Every step keeps the types.
LEMMA TypeStep == ASSUME TypeOK, [Next]_vars PROVE TypeOK'
<1>1. CASE Tick
  <2>1. now < MaxTime /\ now' = now + 1
    BY <1>1, Zenon DEF Tick
  <2>2. now' \in Time
    BY <2>1 DEF TypeOK
  <2>3. QED
    BY <1>1, <2>2, Zenon DEF TypeOK, Tick
<1>2. ASSUME NEW j \in BOOLEAN, StartAddon(j) PROVE TypeOK'
  <2>1. leases' \subseteq Macs
    BY <1>2 DEF TypeOK, StartAddon
  <2>2. startEpoch' \in Time
    BY <1>2 DEF TypeOK, StartAddon
  <2>3. QED
    BY <1>2, <2>1, <2>2 DEF TypeOK, StartAddon
<1>3. CASE StopAddon \/ BackendEnds
  <2>1. BackendDown
    BY <1>3 DEF StopAddon, BackendEnds
  <2>2. NoNotes \in [Macs -> Notes]
    BY DEF NoNotes, Notes
  <2>3. /\ backendEpoch' \in Time \cup {Never}
        /\ known' \subseteq Macs
        /\ composer' \in {"idle", "composing"} /\ draft' \subseteq Macs
        /\ pageCurrent' \subseteq Macs
        /\ pageNotes' \in [Macs -> Notes]
    BY <2>1, <2>2 DEF BackendDown
  <2>4. CASE StopAddon
    <3>1. now < MaxTime /\ now' = now + 1
      BY <2>4 DEF StopAddon
    <3>2. now' \in Time
      BY <3>1 DEF TypeOK
    <3>3. QED
      BY <2>3, <2>4, <3>2 DEF TypeOK, StopAddon
  <2>5. CASE BackendEnds
    BY <2>3, <2>5 DEF TypeOK, BackendEnds
  <2>6. QED
    BY <1>3, <2>4, <2>5
<1>4. CASE StartDnsmasq \/ DnsmasqKilled
  BY <1>4 DEF TypeOK, StartDnsmasq, DnsmasqKilled
<1>5. CASE StartBackend
  BY <1>5 DEF TypeOK, StartBackend
<1>6. ASSUME NEW m \in Macs, Grant(m) PROVE TypeOK'
  BY <1>6, StoreType DEF TypeOK, Grant
<1>7. ASSUME NEW m \in Macs, Renew(m) PROVE TypeOK'
  BY <1>7, StoreType DEF TypeOK, Renew, ScriptOld, Ignore
<1>8. ASSUME NEW m \in Macs, Announce(m) PROVE TypeOK'
  BY <1>8, StoreType DEF TypeOK, Announce
<1>9. ASSUME NEW m \in Macs, Expire(m) PROVE TypeOK'
  BY <1>9 DEF TypeOK, Expire
<1>10. CASE GrantV6 \/ SyncList \/ ComposeCurrent
  BY <1>10 DEF TypeOK, GrantV6, SyncList, ComposeCurrent
<1>11. CASE Purge
  BY <1>11 DEF TypeOK, Purge
<1>12. CASE ComposePast
  BY <1>12 DEF TypeOK, ComposePast, Note, Notes
<1>13. CASE UNCHANGED vars
  BY <1>13 DEF TypeOK, vars
<1>14. QED
  BY <1>1, <1>2, <1>3, <1>4, <1>5, <1>6, <1>7, <1>8, <1>9, <1>10, <1>11,
     <1>12, <1>13 DEF Next, Clients

\* A host on which the add-on was never started has the types.
LEMMA TypeInit == ASSUME Init PROVE TypeOK
<1>1. now \in Time /\ startEpoch \in Time \cup {Never} /\ respawns \in 0 .. MaxRespawns
  BY DEF Init
<1>2. addon \in {"up", "down"} /\ dnsmasq \in {"up", "down"} /\ badRow \in BOOLEAN
  BY DEF Init
<1>3. leases \subseteq Macs /\ announce \subseteq Macs /\ lost \subseteq Macs
  BY DEF Init
<1>4. known \subseteq Macs /\ pageCurrent \subseteq Macs
  BY DEF Init
<1>5. composer \in {"idle", "composing"} /\ draft \subseteq Macs /\ backendEpoch \in Time \cup {Never}
  BY DEF Init
<1>6. /\ lastSeen \in [Macs -> Time \cup {Never}]
      /\ rowEpoch \in [Macs -> Time \cup {Never}]
      /\ heard \in [Macs -> Time \cup {Never}]
  BY DEF Init
<1>7. pageNotes \in [Macs -> Notes]
  BY DEF Init, NoNotes, Notes
<1>8. QED
  BY <1>1, <1>2, <1>3, <1>4, <1>5, <1>6, <1>7 DEF TypeOK

\* The variables always have their types.
THEOREM TypeCorrect == Spec => []TypeOK
<1>1. Init => TypeOK
  BY TypeInit
<1>2. QED
  BY <1>1, TypeStep, PTL DEF Spec

-----------------------------------------------------------------------------
(* The inductive invariant.                                                *)

\* dnsmasq and the backend run only in a started add-on, with its epoch;
\* epochs grow, and no row is ahead of them.
EpochInv ==
  /\ startEpoch <= now
  /\ addon = "up" => startEpoch # Never
  /\ addon = "down" => dnsmasq = "down" /\ ~BackendUp /\ startEpoch < now
  /\ dnsmasq = "down" => announce = {}
  /\ BackendUp => backendEpoch = startEpoch
  /\ composer = "composing" => BackendUp
  /\ \A m \in Macs : rowEpoch[m] <= startEpoch

\* No contact while the add-on is down; a row with an older epoch whose last
\* contact was stored belongs to a client not heard since.
HeardInv ==
  \A m \in Macs :
    /\ heard[m] <= now
    /\ addon = "down" => heard[m] < now
    /\ HasRow(m) /\ m \notin lost /\ rowEpoch[m] < startEpoch =>
         heard[m] < startEpoch

\* Without respawns, what is left to announce is announced within Grace, and
\* rows are written for contacts only.
GhostInv ==
  respawns = 0 =>
    /\ addon = "up" /\ (dnsmasq = "down" \/ announce # {}) =>
         now - startEpoch < Grace
    /\ \A m \in Macs :
         HasRow(m) =>
           /\ lastSeen[m] <= heard[m]
           /\ rowEpoch[m] = startEpoch => heard[m] >= startEpoch

PageInv == \A m \in Macs : pageNotes[m] # "wrong epoch"

USE DEF Next, Clients, vars

\* A run of the script writes the row of its client only.
LEMMA StoreRow ==
  ASSUME TypeOK, NEW m \in Macs, Store(m), NEW k \in Macs
  PROVE  \/ /\ k = m
            /\ lastSeen'[k] = now /\ rowEpoch'[k] = startEpoch
            /\ lost' = lost \ {m}
         \/ /\ k = m
            /\ lastSeen'[k] = lastSeen[k] /\ rowEpoch'[k] = rowEpoch[k]
            /\ k \in lost'
         \/ /\ k # m
            /\ lastSeen'[k] = lastSeen[k] /\ rowEpoch'[k] = rowEpoch[k]
            /\ k \in lost' <=> k \in lost
BY DEF TypeOK, Store

\* Every step keeps the order of the epochs.
LEMMA EpochStep == ASSUME TypeOK, EpochInv, [Next]_vars PROVE EpochInv'
<1> USE DEF TypeOK, EpochInv
<1>1. CASE Tick
  <2>1. now' = now + 1 /\ UNCHANGED <<addon, startEpoch, dnsmasq, announce,
                                       backendEpoch, composer, rowEpoch>>
    BY <1>1, Zenon DEF Tick
  <2>2. QED
    BY <2>1
<1>2. ASSUME NEW j \in BOOLEAN, StartAddon(j) PROVE EpochInv'
  <2>1. /\ addon = "down" /\ addon' = "up" /\ startEpoch' = now
        /\ UNCHANGED <<now, dnsmasq, announce, backendEpoch, composer, rowEpoch>>
    BY <1>2, Zenon DEF StartAddon
  <2>2. QED
    BY <2>1
<1>3. CASE StopAddon
  BY <1>3 DEF StopAddon, BackendDown
<1>4. CASE StartDnsmasq \/ DnsmasqKilled
  BY <1>4 DEF StartDnsmasq, DnsmasqKilled
<1>5. CASE StartBackend \/ BackendEnds
  BY <1>5 DEF StartBackend, BackendEnds, BackendDown
<1>6. ASSUME NEW m \in Macs, Grant(m) \/ Renew(m) \/ Announce(m)
      PROVE  EpochInv'
  <2>1. \/ Store(m)
        \/ UNCHANGED <<lastSeen, rowEpoch>>
    BY <1>6 DEF Grant, Renew, Announce, ScriptOld, Ignore
  <2>2. \A k \in Macs : rowEpoch'[k] <= startEpoch
    BY <2>1, StoreRow
  <2>3. QED
    BY <1>6, <2>2 DEF Grant, Renew, Announce
<1>7. ASSUME NEW m \in Macs, Expire(m) PROVE EpochInv'
  BY <1>7 DEF Expire
<1>8. CASE GrantV6 \/ SyncList \/ ComposeCurrent
  BY <1>8 DEF GrantV6, SyncList, ComposeCurrent
<1>9. CASE Purge
  BY <1>9 DEF Purge
<1>10. CASE ComposePast
  BY <1>10 DEF ComposePast
<1>11. CASE UNCHANGED vars
  BY <1>11
<1>12. QED
  BY <1>1, <1>2, <1>3, <1>4, <1>5, <1>6, <1>7, <1>8, <1>9, <1>10, <1>11

\* Every step keeps what a row tells of its client.
LEMMA HeardStep ==
  ASSUME TypeOK, EpochInv, HeardInv, [Next]_vars PROVE HeardInv'
<1> USE DEF TypeOK, EpochInv, HeardInv
<1>1. CASE Tick
  <2>1. now' = now + 1 /\ UNCHANGED <<addon, startEpoch, dbVars>>
    BY <1>1, Zenon DEF Tick
  <2>2. QED
    BY <2>1
<1>2. ASSUME NEW j \in BOOLEAN, StartAddon(j) PROVE HeardInv'
  <2>1. /\ addon = "down" /\ addon' = "up" /\ startEpoch' = now
        /\ UNCHANGED <<now, dbVars>>
    BY <1>2, Zenon DEF StartAddon
  <2>2. QED
    BY <2>1
<1>3. CASE StopAddon
  BY <1>3 DEF StopAddon
<1>4. CASE StartDnsmasq \/ DnsmasqKilled
  BY <1>4 DEF StartDnsmasq, DnsmasqKilled
<1>5. CASE StartBackend \/ BackendEnds
  BY <1>5 DEF StartBackend, BackendEnds
<1>6. ASSUME NEW m \in Macs, Grant(m) \/ Renew(m) PROVE HeardInv'
  <2>1. /\ addon = "up"
        /\ heard' = [heard EXCEPT ![m] = now]
        /\ UNCHANGED hostVars
        /\ Store(m) \/ Ignore(m)
    BY <1>6 DEF Grant, Renew, ScriptOld
  <2>2. CASE Store(m)
    BY <2>1, <2>2, StoreRow
  <2>3. CASE Ignore(m)
    BY <2>1, <2>3 DEF Ignore
  <2>4. QED
    BY <2>1, <2>2, <2>3
<1>7. ASSUME NEW m \in Macs, Announce(m) PROVE HeardInv'
  <2>1. UNCHANGED <<heard, hostVars>> /\
          (Store(m) \/ UNCHANGED <<lastSeen, rowEpoch, lost>>)
    BY <1>7 DEF Announce
  <2>2. CASE Store(m)
    BY <2>1, <2>2, StoreRow
  <2>3. CASE UNCHANGED <<lastSeen, rowEpoch, lost>>
    BY <2>1, <2>3
  <2>4. QED
    BY <2>1, <2>2, <2>3
<1>8. ASSUME NEW m \in Macs, Expire(m) PROVE HeardInv'
  BY <1>8 DEF Expire
<1>9. CASE GrantV6 \/ SyncList \/ ComposeCurrent \/ ComposePast
  BY <1>9 DEF GrantV6, SyncList, ComposeCurrent, ComposePast
<1>10. CASE Purge
  BY <1>10 DEF Purge
<1>11. CASE UNCHANGED vars
  BY <1>11
<1>12. QED
  BY <1>1, <1>2, <1>3, <1>4, <1>5, <1>6, <1>7, <1>8, <1>9, <1>10, <1>11

\* A prompt dnsmasq that s6 never restarted announces while the script still
\* ignores it.
LEMMA GhostStep ==
  ASSUME Prompt, TypeOK, EpochInv, HeardInv, GhostInv, [Next]_vars
  PROVE  GhostInv'
<1> USE DEF TypeOK, EpochInv, HeardInv, GhostInv
<1>1. CASE Tick
  <2>1. /\ now' = now + 1
        /\ UNCHANGED <<addon, startEpoch, dnsmasqVars, dbVars>>
        /\ addon = "up" /\ (dnsmasq = "down" \/ announce # {}) =>
             now + 1 - startEpoch < Grace
    BY <1>1, Zenon DEF Tick
  <2>2. QED
    BY <2>1
<1>2. ASSUME NEW j \in BOOLEAN, StartAddon(j) PROVE GhostInv'
  <2>1. /\ addon = "down" /\ addon' = "up" /\ startEpoch' = now
        /\ UNCHANGED <<now, dnsmasq, announce, respawns, dbVars>>
    BY <1>2, Zenon DEF StartAddon
  <2>2. \A m \in Macs : rowEpoch'[m] < startEpoch'
    BY <2>1
  <2>3. QED
    BY <2>1, <2>2
<1>3. CASE StopAddon
  BY <1>3 DEF StopAddon
<1>4. CASE StartDnsmasq \/ DnsmasqKilled
  BY <1>4 DEF StartDnsmasq, DnsmasqKilled
<1>5. CASE StartBackend \/ BackendEnds
  BY <1>5 DEF StartBackend, BackendEnds
<1>6. ASSUME NEW m \in Macs, Grant(m) \/ Renew(m) PROVE GhostInv'
  <2>1. /\ heard' = [heard EXCEPT ![m] = now]
        /\ UNCHANGED <<dnsmasq, announce, respawns, hostVars>>
        /\ Store(m) \/ Ignore(m)
    BY <1>6 DEF Grant, Renew, ScriptOld
  <2>2. CASE Store(m)
    BY <2>1, <2>2, StoreRow
  <2>3. CASE Ignore(m)
    BY <2>1, <2>3 DEF Ignore
  <2>4. QED
    BY <2>1, <2>2, <2>3
<1>7. ASSUME NEW m \in Macs, Announce(m) PROVE GhostInv'
  <2>1. respawns = 0 => JustStarted
    BY <1>7 DEF Announce
  <2>2. respawns = 0 => UNCHANGED <<lastSeen, rowEpoch, lost>>
    BY <1>7, <2>1 DEF Announce
  <2>3. /\ announce' \subseteq announce
        /\ UNCHANGED <<dnsmasq, respawns, heard, hostVars>>
    BY <1>7 DEF Announce
  <2>4. QED
    BY <2>2, <2>3
<1>8. ASSUME NEW m \in Macs, Expire(m) PROVE GhostInv'
  BY <1>8 DEF Expire
<1>9. CASE GrantV6 \/ SyncList \/ ComposeCurrent \/ ComposePast
  BY <1>9 DEF GrantV6, SyncList, ComposeCurrent, ComposePast
<1>10. CASE Purge
  BY <1>10 DEF Purge
<1>11. CASE UNCHANGED vars
  BY <1>11
<1>12. QED
  BY <1>1, <1>2, <1>3, <1>4, <1>5, <1>6, <1>7, <1>8, <1>9, <1>10, <1>11

\* The three notes; a row is never ahead of the backend that shows it.
LEMMA PageStep ==
  ASSUME TypeOK, EpochInv, PageInv, [Next]_vars PROVE PageInv'
<1>1. CASE ComposePast
  <2> SUFFICES ASSUME NEW m \in Macs PROVE pageNotes'[m] # "wrong epoch"
    BY DEF PageInv
  <2>1. composer = "composing"
    BY <1>1, Zenon DEF ComposePast
  <2>2. rowEpoch[m] < backendEpoch \/ rowEpoch[m] = backendEpoch
    BY <2>1 DEF EpochInv, TypeOK
  <2>3. Note(m) # "wrong epoch"
    BY <2>2 DEF Note
  <2>4. pageNotes'[m] \in {Note(m), "not past"}
    BY <1>1 DEF ComposePast
  <2>5. QED
    BY <2>3, <2>4
<1>2. CASE StopAddon \/ BackendEnds
  BY <1>2 DEF PageInv, StopAddon, BackendEnds, BackendDown, NoNotes
<1>3. CASE ~ComposePast /\ ~StopAddon /\ ~BackendEnds
  <2>1. UNCHANGED pageNotes
    BY <1>3 DEF Tick, StartAddon, StartDnsmasq, DnsmasqKilled, StartBackend,
       Grant, Renew, Announce, Expire, GrantV6, SyncList, Purge, ComposeCurrent
  <2>2. QED
    BY <2>1 DEF PageInv
<1>4. QED
  BY <1>1, <1>2, <1>3

Inv == TypeOK /\ EpochInv /\ HeardInv /\ PageInv

\* A host without history satisfies all of it.
LEMMA InvInit == ASSUME Init PROVE Inv /\ GhostInv
<1>1. TypeOK
  BY TypeInit
<1>2. EpochInv /\ HeardInv /\ GhostInv
  BY DEF Init, EpochInv, HeardInv, GhostInv
<1>3. PageInv
  BY DEF Init, PageInv, NoNotes
<1>4. QED
  BY <1>1, <1>2, <1>3 DEF Inv

\* Inv holds in every reachable state, however slow dnsmasq is.
THEOREM InvCorrect == Spec => []Inv
<1>1. Inv /\ [Next]_vars => Inv'
  BY TypeStep, EpochStep, HeardStep, PageStep DEF Inv
<1>2. QED
  BY <1>1, InvInit, PTL DEF Spec

\* ... and GhostInv, if dnsmasq is prompt.
THEOREM GhostInvCorrect == ASSUME Prompt PROVE Spec => []GhostInv
<1>1. Inv /\ GhostInv /\ [Next]_vars => GhostInv'
  BY GhostStep DEF Inv
<1>2. QED
  BY <1>1, InvInit, InvCorrect, PTL DEF Spec

-----------------------------------------------------------------------------
\* The processes of a run agree on its epoch, and no past client is tagged
\* with a later one.
THEOREM EpochsAgree == Spec => []NoWrongEpoch
<1>1. Inv => NoWrongEpoch
  BY DEF Inv, EpochInv, PageInv, NoWrongEpoch
<1>2. QED
  BY <1>1, InvCorrect, PTL

\* Rows claim only contacts that took place, unless s6 restarted dnsmasq.
THEOREM GhostsNeedARespawn ==
  ASSUME Prompt PROVE Spec => []GhostsOnlyAfterRespawn
<1>1. GhostInv => GhostsOnlyAfterRespawn
  BY DEF GhostInv, GhostsOnlyAfterRespawn, StartupEventsIgnored, NoGhost
<1>2. QED
  BY <1>1, GhostInvCorrect, PTL

\* The notes of the past clients are true.
THEOREM NotesAreTruthful == ASSUME Prompt PROVE Spec => NotesTruthful
<1> DEFINE Truthful == ComposePast =>
             \A m \in Macs :
               /\ pageNotes'[m] = "missed renewal" =>
                    heard[m] >= startEpoch \/ respawns > 0
               /\ pageNotes'[m] = "previous run" =>
                    heard[m] < startEpoch \/ m \in lost
<1>1. Inv => respawns \in Nat
  BY DEF Inv, TypeOK
<1>2. Inv /\ GhostInv /\ [Next]_vars => [Truthful]_vars
  <2> SUFFICES ASSUME Inv, GhostInv, ComposePast, NEW m \in Macs
               PROVE  /\ pageNotes'[m] = "missed renewal" =>
                           heard[m] >= startEpoch \/ respawns > 0
                      /\ pageNotes'[m] = "previous run" =>
                           heard[m] < startEpoch \/ m \in lost
    OBVIOUS
  <2>1. backendEpoch = startEpoch
    BY DEF Inv, EpochInv, ComposePast
  <2>2. CASE pageNotes'[m] = "missed renewal"
    <3>1. HasRow(m) /\ rowEpoch[m] = startEpoch
      BY <2>1, <2>2 DEF ComposePast, Dead, Note
    <3>2. respawns = 0 => heard[m] >= startEpoch
      BY <3>1 DEF GhostInv
    <3>3. respawns # 0 => respawns > 0
      BY <1>1
    <3>4. QED
      BY <2>2, <3>2, <3>3, Zenon
  <2>3. CASE pageNotes'[m] = "previous run"
    <3>1. HasRow(m) /\ rowEpoch[m] < startEpoch
      BY <2>1, <2>3 DEF ComposePast, Dead, Note
    <3>2. QED
      BY <2>3, <3>1 DEF Inv, HeardInv
  <2>4. QED
    BY <2>2, <2>3
<1>3. QED
  BY <1>2, InvCorrect, GhostInvCorrect, PTL DEF Spec, NotesTruthful

-----------------------------------------------------------------------------
(* The refinement of ClientHistory.                                        *)

\* No row is ahead of the clock.
RowsNotAhead == \A m \in Macs : lastSeen[m] <= now

\* The part of the state that ClientHistory sees does not change.
Unseen == UNCHANGED <<now, lastSeen, lost>>

\* A run of the script is a step Store, or a step Miss.
LEMMA ScriptMaps ==
  ASSUME TypeOK, RowsNotAhead, NEW m \in Macs, Store(m) \/ Ignore(m), UNCHANGED now
  PROVE  History!Next /\ RowsNotAhead'
<1> USE DEF TypeOK, RowsNotAhead
<1>1. CASE lost' = lost \cup {m} /\ UNCHANGED lastSeen
  BY <1>1 DEF History!Next, History!Miss
<1>2. CASE lastSeen' = [lastSeen EXCEPT ![m] = now] /\ lost' = lost \ {m}
  <2> DEFINE Stored(t) == /\ lastSeen[m] <= t
                          /\ t # Never
                          /\ lastSeen' = [lastSeen EXCEPT ![m] = t]
  <2>1. Stored(now)
    BY <1>2
  <2>2. \E t \in {now - 1, now} : Stored(t)
    BY <2>1
  <2>3. History!Store(m)
    BY <1>2, <2>2 DEF History!Store, History!Never
  <2>4. QED
    BY <1>2, <2>3 DEF History!Next
<1>3. QED
  BY <1>1, <1>2 DEF Store, Ignore

\* A purge is the step Forget of the present instant.
LEMMA PurgeMaps ==
  ASSUME TypeOK, RowsNotAhead, Purge PROVE History!Next /\ RowsNotAhead'
<1> USE DEF TypeOK, RowsNotAhead
<1>1. UNCHANGED <<now, lost>>
  BY DEF Purge
<1>2. lastSeen' = [m \in Macs |->
        IF lastSeen[m] < now - PurgeAge THEN Never ELSE lastSeen[m]]
  <2>1. lastSeen' = [m \in Macs |->
          IF HasRow(m) /\ lastSeen[m] < now - PurgeAge THEN Never ELSE lastSeen[m]]
    BY DEF Purge
  <2>2. ASSUME NEW m \in Macs
        PROVE  (IF HasRow(m) /\ lastSeen[m] < now - PurgeAge
                THEN Never ELSE lastSeen[m]) =
               (IF lastSeen[m] < now - PurgeAge THEN Never ELSE lastSeen[m])
    OBVIOUS
  <2>3. QED
    BY <2>1, <2>2
<1>3. now \in 0 .. now
  OBVIOUS
<1>4. History!Forget
  BY <1>1, <1>2, <1>3 DEF History!Forget, History!Never
<1>5. RowsNotAhead'
  BY <1>1, <1>2
<1>6. QED
  BY <1>4, <1>5 DEF History!Next

\* Every step is one of ClientHistory, or cannot be seen in the table.
LEMMA HistoryStep ==
  ASSUME TypeOK, RowsNotAhead, [Next]_vars
  PROVE  (History!Next \/ Unseen) /\ RowsNotAhead'
<1>1. CASE Tick
  <2>1. now' = now + 1 /\ UNCHANGED <<lastSeen, lost>>
    BY <1>1, Zenon DEF Tick
  <2>2. QED
    BY <2>1 DEF TypeOK, RowsNotAhead, History!Next, History!Advance
<1>2. CASE StopAddon
  <2>1. now' = now + 1 /\ UNCHANGED <<lastSeen, lost>>
    BY <1>2, Zenon DEF StopAddon
  <2>2. QED
    BY <2>1 DEF TypeOK, RowsNotAhead, History!Next, History!Advance
<1>3. ASSUME NEW m \in Macs, Grant(m) \/ Renew(m) \/ Announce(m)
      PROVE  (History!Next \/ Unseen) /\ RowsNotAhead'
  <2>1. UNCHANGED now
    BY <1>3 DEF Grant, Renew, Announce
  <2>2. Store(m) \/ Ignore(m) \/ UNCHANGED <<lastSeen, lost>>
    BY <1>3 DEF Grant, Renew, Announce, ScriptOld
  <2>3. CASE UNCHANGED <<lastSeen, lost>>
    BY <2>1, <2>3 DEF Unseen, RowsNotAhead
  <2>4. QED
    BY <2>1, <2>2, <2>3, ScriptMaps
<1>4. CASE Purge
  BY <1>4, PurgeMaps
<1>5. CASE Unseen
  BY <1>5 DEF Unseen, RowsNotAhead
<1>6. ASSUME NEW j \in BOOLEAN, StartAddon(j) PROVE Unseen
  BY <1>6, Zenon DEF StartAddon, Unseen
<1>7. ASSUME NEW m \in Macs, Expire(m) PROVE Unseen
  BY <1>7 DEF Expire, Unseen
<1>8. CASE \/ StartDnsmasq \/ DnsmasqKilled \/ StartBackend \/ BackendEnds
           \/ GrantV6 \/ SyncList \/ ComposeCurrent \/ ComposePast
           \/ UNCHANGED vars
  BY <1>5, <1>8 DEF StartDnsmasq, DnsmasqKilled, StartBackend, BackendEnds,
     GrantV6, SyncList, ComposeCurrent, ComposePast, Unseen
<1>9. QED
  BY <1>1, <1>2, <1>3, <1>4, <1>5, <1>6, <1>7, <1>8

\* The table of the tracker DB keeps the promise of ClientHistory across
\* starts, stops and reboots too.
THEOREM HistorySurvivesRestarts == Spec => HistorySpec
<1>1. Init => History!Init /\ RowsNotAhead
  <2> SUFFICES ASSUME Init PROVE History!Init /\ RowsNotAhead
    OBVIOUS
  <2>1. now = 0 /\ lastSeen = [m \in Macs |-> Never] /\ lost = {}
    BY DEF Init
  <2>2. \A m \in Macs : lastSeen[m] = -1
    BY <2>1
  <2>3. -1 <= 0
    OBVIOUS
  <2>4. RowsNotAhead
    BY <2>1, <2>2, <2>3, Zenon DEF RowsNotAhead
  <2>5. QED
    BY <2>1, <2>4 DEF History!Init, History!Never
<1>2. TypeOK /\ RowsNotAhead /\ [Next]_vars => [History!Next]_(History!vars)
  BY HistoryStep DEF Unseen, History!vars
<1>3. TypeOK /\ RowsNotAhead /\ [Next]_vars => RowsNotAhead'
  BY HistoryStep
<1>4. QED
  BY <1>1, <1>2, <1>3, TypeCorrect, PTL DEF Spec, HistorySpec, History!Spec

=============================================================================
