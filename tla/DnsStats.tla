------------------------------- MODULE DnsStats -------------------------------
(***************************************************************************)
(* The DNS statistics of a message (backend/pkg/uibackend/dnsmasq.go): five *)
(* CHAOS TXT queries whose answer is one number, and servers.bind, whose   *)
(* answer has a text per upstream server.  An answer is what the query     *)
(* returned: it failed, it did not hold exactly one text, its text is not  *)
(* a number, or it is one.  The error that getDnsStats returns is only     *)
(* logged and is left out.                                                 *)
(***************************************************************************)
EXTENDS Integers, Sequences, FiniteSetsExt

CONSTANT Counters \* the queries for a number

Answers ==
  [kind : {"number"}, value : Nat] \cup
  [kind : {"failed", "notOne", "garbled"}, value : {-1}]

\* A text of servers.bind that does not have three fields, one whose second
\* or third field is not a number, and a good one.
EntryKinds == {"otherFields", "malformed", "stat"}

Replies ==
  [ counters : [Counters -> Answers],
    servers  : Seq([kind : EntryKinds, server : STRING, queries : Int]) ]

\* The text is taken for a number whatever it is.
RawAnswer(a) == a.value

\* chaosTXTQueryInteger, and the caller that drops its value after an error.
IntegerAnswer(a) == IF a.kind = "number" THEN a.value ELSE 0

\* The loop over the answer to servers.bind returns at the first malformed
\* entry, with what it has so far.
BeforeMalformed(entries) ==
  LET bad == {i \in DOMAIN entries : entries[i].kind = "malformed"}
  IN  IF bad = {} THEN entries ELSE SubSeq(entries, 1, Min(bad) - 1)

\* The number of fields is not looked at.
EntriesUnchecked(entries) == BeforeMalformed(entries)

\* The servers of an answer, appended one after the other; a failed query has
\* none.  No server at all is a nil slice, null in the message.
UpstreamServers(entries) ==
  LET read == BeforeMalformed(entries)
      Servers[n \in 0 .. Len(read)] ==
        IF n = 0 THEN <<>>
        ELSE IF read[n].kind = "stat" THEN Append(Servers[n - 1], read[n])
        ELSE Servers[n - 1]
  IN  Servers[Len(read)]

getDnsStats(reply) ==
  [ counters  |-> [q \in Counters |-> IntegerAnswer(reply.counters[q])],
    upstreams |-> UpstreamServers(reply.servers) ]

=============================================================================
