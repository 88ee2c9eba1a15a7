---------------------------- MODULE ClientHistory ----------------------------
(***************************************************************************)
(* What the tracker DB promises, without its scripts, cursors and locks:   *)
(* one row per client, which holds the client's last contact or an earlier *)
(* one while that contact is owed; a row is replaced only by a younger     *)
(* one, and disappears only with all others of its age.                    *)
(*                                                                         *)
(* TrackerDB implements it with the scripts and cursors, PastClients with  *)
(* single steps: what the latter takes for one step is one to a query.     *)
(***************************************************************************)
EXTENDS Integers

CONSTANTS Macs, PurgeAge

VARIABLES
  clock, \* the time
  seen,  \* the last contact per client as its row has it, Never without one
  owed   \* clients whose last reported contact is not in the table

vars == <<clock, seen, owed>>

Never == -1

Init ==
  /\ clock = 0
  /\ seen = [m \in Macs |-> Never]
  /\ owed = {}

Advance ==
  /\ clock' = clock + 1
  /\ UNCHANGED <<seen, owed>>

\* A contact is stored, at most a tick after it took place.
Store(m) ==
  /\ \E t \in {clock - 1, clock} :
       /\ seen[m] <= t
       /\ t # Never
       /\ seen' = [seen EXCEPT ![m] = t]
  /\ owed' = owed \ {m}
  /\ UNCHANGED clock

\* A contact is not stored yet, or never will be.
Miss(m) ==
  /\ owed' = owed \cup {m}
  /\ UNCHANGED <<clock, seen>>

\* Every row that was older than PurgeAge at an instant t is forgotten.
Forget ==
  /\ \E t \in 0 .. clock :
       seen' = [m \in Macs |->
                  IF seen[m] < t - PurgeAge THEN Never ELSE seen[m]]
  /\ UNCHANGED <<clock, owed>>

Next ==
  \/ Advance
  \/ \E m \in Macs : Store(m) \/ Miss(m)
  \/ Forget

Spec == Init /\ [][Next]_vars

=============================================================================
