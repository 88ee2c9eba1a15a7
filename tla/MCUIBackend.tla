----------------------------- MODULE MCUIBackend -----------------------------
(***************************************************************************)
(* Instances of UIBackend for TLC.  The two lists dnsmasq alternates share *)
(* no lease and none of their parts is a list of its own, so a list copied *)
(* half-way through a rebuild is neither.                                  *)
(***************************************************************************)
EXTENDS UIBackend, TLC

CONSTANTS l1, l2, l3

MCFiles == {{l1, l2}, {l3}}

\* Enough where only the progress of the feed matters.
MCSmallFiles == {{}, {l1}}

\* Connections are alike, and so are the leases of one list: sound for the
\* invariants and action properties, not used where liveness is checked.
Symmetric == Permutations(Conns) \cup Permutations({l1, l2})

=============================================================================
