------------------------------ MODULE MCWebPage ------------------------------
(***************************************************************************)
(* An instance of WebPage for TLC.  Between the worlds a lease is renewed, *)
(* a client moves from its reserved address into the pool, a past client   *)
(* comes back, and queries fail or return what is no number.               *)
(***************************************************************************)
EXTENDS WebPage, TLC

Number(n) == [kind |-> "number", value |-> n]
NoNumber(kind) == [kind |-> kind, value |-> -1]
Server(url, n) == [kind |-> "stat", server |-> url, queries |-> n]
NoServer(kind) == [kind |-> kind, server |-> "none", queries |-> -1]

MCCounters == {"hits", "misses"}

Reply(hits, misses, servers) ==
  [counters |-> [q \in MCCounters |-> IF q = "hits" THEN hits ELSE misses],
   servers |-> servers]

Current(name, expires, static, inside) ==
  [name |-> name, expires |-> expires, static |-> static, inside |-> inside]

Past(name, last_seen, static) ==
  [name |-> name, last_seen |-> last_seen, static |-> static]

MCWorlds ==
  { [clients |-> <<Current("a", 3, TRUE, FALSE)>>,
     past |-> <<Past("b", 1, FALSE)>>,
     dns |-> Reply(Number(5), Number(0), <<Server("x", 1), Server("y", 2)>>)],
    [clients |-> <<Current("a", 4, TRUE, FALSE)>>,
     past |-> <<Past("b", 2, FALSE)>>,
     dns |-> Reply(NoNumber("failed"), NoNumber("garbled"), <<>>)],
    [clients |-> <<Current("b", 4, FALSE, TRUE)>>,
     past |-> <<Past("a", 2, TRUE)>>,
     dns |-> Reply(Number(6), NoNumber("notOne"),
                   <<NoServer("otherFields"), Server("x", 3),
                     NoServer("malformed"), Server("y", 3)>>)],
    [clients |-> <<Current("a", 4, FALSE, TRUE), Current("b", 5, FALSE, TRUE)>>,
     past |-> <<>>,
     dns |-> Reply(Number(6), Number(1), <<Server("y", 4)>>)] }

=============================================================================
