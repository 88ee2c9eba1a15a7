----------------------------- MODULE WebPageProofs -----------------------------
(***************************************************************************)
(* What TLAPS proves of the page, for any set of worlds and any length of  *)
(* the wire: it agrees with the last message it rendered however its       *)
(* tables were updated, its numbers are answers of dnsmasq, a message      *)
(* without changes leaves its rows open, and the live indicator is on only *)
(* where it should be.                                                     *)
(***************************************************************************)
EXTENDS WebPage, SequenceTheorems, FiniteSetTheorems, Induction, TLAPS

\* A world and its two lists.
LEMMA WorldType ==
  ASSUME NEW w \in Worlds
  PROVE  /\ w.clients \in Seq(ClientInfo) /\ w.past \in Seq(PastInfo)
         /\ w.dns \in Replies
         /\ w # NoWorld
BY ConstantsAssumption

\* A row is a function from the titles of its columns.
CurrentRowSet ==
  [{"name", "time_left", "static"} -> ClientNames \cup Times \cup BOOLEAN]
PastRowSet ==
  [{"name", "last_seen", "static"} -> ClientNames \cup Times \cup BOOLEAN]

LEMMA RowType ==
  ASSUME NEW n \in ClientNames, NEW t \in Times, NEW b \in BOOLEAN
  PROVE  /\ [name |-> n, time_left |-> t, static |-> b] \in CurrentRowSet
         /\ [name |-> n, last_seen |-> t, static |-> b] \in PastRowSet
BY DEF CurrentRowSet, PastRowSet

\* The tables are sequences with a row per client.
LEMMA RowsType ==
  ASSUME NEW w \in Worlds
  PROVE  /\ CurrentRows(w) \in Seq(CurrentRowSet)
         /\ PastRows(w) \in Seq(PastRowSet)
         /\ Len(CurrentRows(w)) = Len(w.clients)
         /\ Len(PastRows(w)) = Len(w.past)
<1>1. \A i \in 1 .. Len(w.clients) : CurrentRow(w.clients[i]) \in CurrentRowSet
  <2> SUFFICES ASSUME NEW i \in 1 .. Len(w.clients)
               PROVE  CurrentRow(w.clients[i]) \in CurrentRowSet
    OBVIOUS
  <2>1. w.clients[i] \in ClientInfo
    BY WorldType, ElementOfSeq
  <2>2. /\ w.clients[i].name \in ClientNames /\ w.clients[i].expires \in Times
        /\ w.clients[i].static \in BOOLEAN
    BY <2>1, Zenon DEF ClientInfo
  <2>3. QED
    BY <2>2, RowType DEF CurrentRow
<1>2. \A i \in 1 .. Len(w.past) : PastRow(w.past[i]) \in PastRowSet
  <2> SUFFICES ASSUME NEW i \in 1 .. Len(w.past)
               PROVE  PastRow(w.past[i]) \in PastRowSet
    OBVIOUS
  <2>1. w.past[i] \in PastInfo
    BY WorldType, ElementOfSeq
  <2>2. /\ w.past[i].name \in ClientNames /\ w.past[i].last_seen \in Times
        /\ w.past[i].static \in BOOLEAN
    BY <2>1, Zenon DEF PastInfo
  <2>3. QED
    BY <2>2, RowType DEF PastRow
<1>3. /\ CurrentRows(w) = [i \in 1 .. Len(w.clients) |-> CurrentRow(w.clients[i])]
      /\ PastRows(w) = [i \in 1 .. Len(w.past) |-> PastRow(w.past[i])]
  BY WorldType DEF CurrentRows, PastRows
<1>4. CurrentRows(w) \in Seq(CurrentRowSet) /\ PastRows(w) \in Seq(PastRowSet)
  BY <1>1, <1>2, <1>3, WorldType
<1>5. QED
  BY <1>3, <1>4, WorldType

\* Updating the cells of one column where nothing else changed gives the
\* same table as filling it again.
LEMMA RedrawnExact ==
  ASSUME NEW Columns, NEW Values, NEW column,
         NEW old \in Seq([Columns -> Values]), NEW new \in Seq([Columns -> Values])
  PROVE  Redrawn(old, new, column) = new
<1>1. CASE ~SameRows(old, new, {column})
  BY <1>1 DEF Redrawn
<1>2. CASE SameRows(old, new, {column})
  <2>1. Len(old) = Len(new) /\ DOMAIN old = DOMAIN new /\ DOMAIN new = 1 .. Len(new)
    BY <1>2 DEF SameRows
  <2>2. ASSUME NEW i \in DOMAIN old
        PROVE  [old[i] EXCEPT ![column] = new[i][column]] = new[i]
    <3>1. old[i] \in [Columns -> Values] /\ new[i] \in [Columns -> Values]
      BY <2>1, ElementOfSeq
    <3>2. \A c \in Columns \ {column} : old[i][c] = new[i][c]
      BY <1>2, <3>1 DEF SameRows
    <3>3. QED
      BY <3>1, <3>2
  <2>3. new = [i \in DOMAIN new |-> new[i]]
    BY <2>1
  <2>4. Redrawn(old, new, column)
          = [i \in DOMAIN old |-> [old[i] EXCEPT ![column] = new[i][column]]]
    BY <1>2 DEF Redrawn
  <2>5. QED
    BY <2>1, <2>2, <2>3, <2>4
<1>3. QED
  BY <1>1, <1>2

-----------------------------------------------------------------------------
(* The types, and what is on its way to the page.                          *)

USE DEF feedVars, serverVars, pathVars, pageVars, vars, MaybeWorld

\* A handler that composed its first message has one to send.
DraftInv == server = "composed" => hdraft # NoWorld

\* The numbers of an answer.
LEMMA CountersType ==
  ASSUME NEW w \in Worlds PROVE getDnsStats(w.dns).counters \in [Counters -> Nat]
<1>1. w.dns.counters \in [Counters -> Answers]
  BY WorldType DEF Replies
<1>2. \A a \in Answers : IntegerAnswer(a) \in Nat
  BY DEF Answers, IntegerAnswer
<1>3. getDnsStats(w.dns).counters
        = [q \in Counters |-> IntegerAnswer(w.dns.counters[q])]
  BY DEF getDnsStats
<1>4. QED
  BY <1>1, <1>2, <1>3

\* Sending keeps the wire typed.
LEMMA SentType ==
  ASSUME TypeOK, NEW w \in Worlds, Len(wire) < WireSize, Sent(w)
  PROVE  wire' \in Seq(Worlds) /\ Len(wire') <= WireSize
<1>1. wire \in Seq(Worlds) /\ WireSize \in Nat
  BY ConstantsAssumption DEF TypeOK
<1>2. CASE cut
  BY <1>1, <1>2 DEF Sent
<1>3. CASE ~cut
  BY <1>1, <1>3, AppendProperties DEF Sent
<1>4. QED
  BY <1>2, <1>3

\* The page before any message.
LEMMA BlankType == Blank.counters \in [Counters -> Nat]
BY DEF Blank

LEMMA BlankEmpty ==
  /\ Blank.current = <<>> /\ Blank.past = <<>> /\ Blank.upstreams = <<>>
  /\ \A q \in Counters : Blank.counters[q] = 0
BY DEF Blank

\* An empty wire.
LEMMA WireSizes ==
  /\ WireSize \in Nat \ {0}
  /\ NoWorld \notin Worlds
  /\ <<>> \in Seq(Worlds) /\ Len(<<>>) <= WireSize
<1>1. WireSize \in Nat \ {0} /\ NoWorld \notin Worlds
  BY Zenon, ConstantsAssumption
<1>2. QED
  BY <1>1

\* The types, by the groups of variables that a step leaves alone together.
FeedTypes ==
  /\ refresh \in BOOLEAN /\ world \in Worlds /\ backend \in {"up", "down"}
  /\ notified \in BOOLEAN /\ bdraft \in MaybeWorld
ServerTypes ==
  /\ server \in {"none", "accepted", "composed", "registered"}
  /\ hdraft \in MaybeWorld /\ DraftInv
PathTypes ==
  /\ wire \in Seq(Worlds) /\ Len(wire) <= WireSize
  /\ ended \in BOOLEAN /\ cut \in BOOLEAN
PageTypes ==
  /\ page \in {"none", "loaded", "parsing", "ready"}
  /\ socket \in {"none", "connecting", "open", "closed"}
  /\ live \in BOOLEAN /\ shown.counters \in [Counters -> Nat]
  /\ expanded \in BOOLEAN /\ last \in MaybeWorld

LEMMA TypeGroups ==
  /\ TypeOK /\ DraftInv <=> FeedTypes /\ ServerTypes /\ PathTypes /\ PageTypes
  /\ (TypeOK /\ DraftInv <=> FeedTypes /\ ServerTypes /\ PathTypes /\ PageTypes)'
BY Zenon DEF TypeOK, FeedTypes, ServerTypes, PathTypes, PageTypes

\* A group that a step leaves alone keeps its types.
LEMMA GroupsKept ==
  /\ FeedTypes /\ UNCHANGED feedVars => FeedTypes'
  /\ ServerTypes /\ UNCHANGED serverVars => ServerTypes'
  /\ PathTypes /\ UNCHANGED pathVars => PathTypes'
  /\ PageTypes /\ UNCHANGED pageVars => PageTypes'
<1>1. FeedTypes /\ UNCHANGED feedVars => FeedTypes'
  BY Zenon DEF FeedTypes
<1>2. ServerTypes /\ UNCHANGED serverVars => ServerTypes'
  BY Zenon DEF ServerTypes, DraftInv
<1>3. PathTypes /\ UNCHANGED pathVars => PathTypes'
  BY Zenon DEF PathTypes
<1>4. PageTypes /\ UNCHANGED pageVars => PageTypes'
  BY Zenon DEF PageTypes
<1>5. QED
  BY <1>1, <1>2, <1>3, <1>4, Zenon

\* Every step keeps the types and the drafts.
LEMMA TypeStep ==
  ASSUME TypeOK, DraftInv, [Next]_vars PROVE TypeOK' /\ DraftInv'
<1> DEFINE Types == FeedTypes /\ ServerTypes /\ PathTypes /\ PageTypes
<1>0. Types
  BY TypeGroups, Zenon
<1> SUFFICES Types'
  BY TypeGroups, Zenon
<1>1. ASSUME NEW w \in Worlds, WorldChanges(w) PROVE Types'
  <2>1. world' \in Worlds
    BY <1>1 DEF WorldChanges
  <2>2. notified' \in BOOLEAN /\ UNCHANGED <<refresh, backend, bdraft>>
    BY <1>0, <1>1, Zenon DEF WorldChanges, FeedTypes
  <2>3. UNCHANGED <<serverVars, pathVars, pageVars>>
    BY <1>1, Zenon DEF WorldChanges
  <2>4. FeedTypes'
    BY <1>0, <2>1, <2>2, Zenon DEF FeedTypes
  <2>5. QED
    BY <1>0, <2>3, <2>4, GroupsKept, Zenon
<1>2. CASE Accept
  <2>1. socket' = "open" /\ server' = "accepted"
    BY <1>2, Zenon DEF Accept
  <2>2. UNCHANGED <<hdraft, page, live, shown, expanded, last, feedVars, pathVars>>
    BY <1>2, Zenon DEF Accept
  <2>3. PageTypes'
    BY <1>0, <2>1, <2>2 DEF PageTypes
  <2>4. ServerTypes'
    BY <1>0, <2>1, <2>2 DEF ServerTypes, DraftInv
  <2>5. QED
    BY <1>0, <2>2, <2>3, <2>4, GroupsKept, Zenon
<1>3. CASE ComposeFirst
  <2>1. ServerTypes'
    BY <1>0, <1>3, WireSizes DEF ComposeFirst, ServerTypes, FeedTypes, DraftInv
  <2>2. UNCHANGED <<feedVars, pathVars, pageVars>>
    BY <1>3, Zenon DEF ComposeFirst
  <2>3. QED
    BY <1>0, <2>1, <2>2, GroupsKept, Zenon
<1>4. CASE Register
  <2>1. hdraft \in Worlds /\ Len(wire) < WireSize /\ Sent(hdraft)
    BY <1>0, <1>4 DEF Register, ServerTypes, DraftInv
  <2>2. wire' \in Seq(Worlds) /\ Len(wire') <= WireSize
    BY <2>1, SentType
  <2>3. UNCHANGED <<ended, cut, feedVars, pageVars>>
    BY <1>4, Zenon DEF Register
  <2>4. PathTypes'
    BY <1>0, <2>2, <2>3, Zenon DEF PathTypes
  <2>5. ServerTypes'
    BY <1>4 DEF Register, ServerTypes, DraftInv
  <2>6. QED
    BY <1>0, <2>3, <2>4, <2>5, GroupsKept, Zenon
<1>5. CASE BroadcastCompose
  <2>1. /\ bdraft' = world /\ notified' = FALSE
        /\ UNCHANGED <<refresh, world, backend, serverVars, pathVars, pageVars>>
    BY <1>5, Zenon DEF BroadcastCompose
  <2>2. FeedTypes'
    BY <1>0, <2>1, Zenon DEF FeedTypes
  <2>3. QED
    BY <1>0, <2>1, <2>2, GroupsKept, Zenon
<1>6. CASE BroadcastSkip
  <2>1. /\ notified' = FALSE
        /\ UNCHANGED <<refresh, world, backend, bdraft, serverVars, pathVars, pageVars>>
    BY <1>6, Zenon DEF BroadcastSkip
  <2>2. FeedTypes'
    BY <1>0, <2>1, Zenon DEF FeedTypes
  <2>3. QED
    BY <1>0, <2>1, <2>2, GroupsKept, Zenon
<1>7. CASE BroadcastSend
  <2>1. bdraft \in Worlds
    BY <1>0, <1>7 DEF BroadcastSend, FeedTypes
  <2>2. wire' \in Seq(Worlds) /\ Len(wire') <= WireSize
    <3>1. CASE server = "registered"
      BY <1>7, <2>1, <3>1, SentType DEF BroadcastSend
    <3>2. CASE server # "registered"
      BY <1>0, <1>7, <3>2 DEF BroadcastSend, PathTypes
    <3>3. QED
      BY <3>1, <3>2
  <2>3. /\ bdraft' = NoWorld
        /\ UNCHANGED <<refresh, world, backend, notified, ended, cut, serverVars, pageVars>>
    BY <1>7, Zenon DEF BroadcastSend
  <2>4. FeedTypes' /\ PathTypes'
    BY <1>0, <2>2, <2>3, Zenon DEF FeedTypes, PathTypes
  <2>5. QED
    BY <1>0, <2>3, <2>4, GroupsKept, Zenon
<1>8. CASE ConnectionEnds
  <2>1. /\ server' = "none" /\ hdraft' = NoWorld /\ ended' = TRUE
        /\ UNCHANGED <<wire, cut, feedVars, pageVars>>
    BY <1>8, Zenon DEF ConnectionEnds
  <2>2. ServerTypes'
    BY <2>1 DEF ServerTypes, DraftInv
  <2>3. PathTypes'
    BY <1>0, <2>1, Zenon DEF PathTypes
  <2>4. QED
    BY <1>0, <2>1, <2>2, <2>3, GroupsKept, Zenon
<1>9. CASE BackendEnds
  <2>1. /\ backend' = "down" /\ notified' = FALSE /\ bdraft' = NoWorld
        /\ server' = "none" /\ hdraft' = NoWorld
        /\ UNCHANGED <<refresh, world, wire, cut, pageVars>>
    BY <1>9, Zenon DEF BackendEnds
  <2>2. ended' \in BOOLEAN
    BY <1>0, <1>9, Zenon DEF BackendEnds, PathTypes
  <2>3. ServerTypes'
    BY <2>1 DEF ServerTypes, DraftInv
  <2>4. FeedTypes' /\ PathTypes'
    BY <1>0, <2>1, <2>2, Zenon DEF FeedTypes, PathTypes
  <2>5. QED
    BY <1>0, <2>1, <2>3, <2>4, GroupsKept, Zenon
<1>10. CASE BackendStarts
  <2>1. /\ backend' = "up"
        /\ UNCHANGED <<refresh, world, notified, bdraft, serverVars, pathVars, pageVars>>
    BY <1>10, Zenon DEF BackendStarts
  <2>2. FeedTypes'
    BY <1>0, <2>1, Zenon DEF FeedTypes
  <2>3. QED
    BY <1>0, <2>1, <2>2, GroupsKept, Zenon
<1>11. CASE Cut
  <2>1. /\ cut' = TRUE /\ wire' = <<>>
        /\ UNCHANGED <<ended, feedVars, serverVars, pageVars>>
    BY <1>11, Zenon DEF Cut
  <2>2. PathTypes'
    BY <1>0, <2>1, WireSizes, Zenon DEF PathTypes
  <2>3. QED
    BY <1>0, <2>1, <2>2, GroupsKept, Zenon
<1>12. ASSUME NEW ingress \in BOOLEAN, LoadPage(ingress) PROVE Types'
  <2>1. /\ page' \in {"none", "loaded"} /\ socket' = "none"
        /\ server' = "none" /\ hdraft' = NoWorld
    BY <1>12 DEF LoadPage
  <2>2. /\ live' = FALSE /\ shown' = Blank /\ expanded' = FALSE /\ last' = NoWorld
        /\ wire' = <<>> /\ ended' = FALSE /\ cut' = FALSE /\ UNCHANGED feedVars
    BY <1>12, Zenon DEF LoadPage
  <2>3. ServerTypes'
    BY <2>1 DEF ServerTypes, DraftInv
  <2>4. PathTypes'
    BY <2>2, WireSizes, Zenon DEF PathTypes
  <2>5. PageTypes'
    <3>1. /\ page' \in {"none", "loaded", "parsing", "ready"}
          /\ socket' \in {"none", "connecting", "open", "closed"}
          /\ last' \in MaybeWorld
      BY <2>1, <2>2
    <3>2. QED
      BY <2>2, <3>1, BlankType, Zenon DEF PageTypes
  <2>6. QED
    BY <1>0, <2>2, <2>3, <2>4, <2>5, GroupsKept, Zenon
<1>13. CASE SetConfig \/ InitAll \/ ConnectFails \/ CloseEvent
  <2>1. /\ page' \in {"none", "loaded", "parsing", "ready"}
        /\ socket' \in {"none", "connecting", "open", "closed"}
    BY <1>0, <1>13 DEF SetConfig, InitAll, ConnectFails, CloseEvent, PageTypes
  <2>2. live' \in BOOLEAN
    BY <1>0, <1>13, Zenon
       DEF SetConfig, InitAll, ConnectFails, CloseEvent, LiveAfterClose, PageTypes
  <2>3. UNCHANGED <<shown, expanded, last, feedVars, serverVars, pathVars>>
    BY <1>13, Zenon DEF SetConfig, InitAll, ConnectFails, CloseEvent
  <2>4. PageTypes'
    BY <1>0, <2>1, <2>2, <2>3, Zenon DEF PageTypes
  <2>5. QED
    BY <1>0, <2>3, <2>4, GroupsKept, Zenon
<1>14. CASE Deliver
  <2>1. Head(wire) \in Worlds /\ wire' \in Seq(Worlds) /\ Len(wire') <= WireSize
    BY <1>0, <1>14, HeadTailProperties, WireSizes DEF Deliver, PathTypes
  <2>2. shown'.counters \in [Counters -> Nat]
    <3>1. CASE page = "ready"
      BY <1>14, <2>1, <3>1, CountersType DEF Deliver, Rendered
    <3>2. CASE page # "ready"
      BY <1>0, <1>14, <3>2 DEF Deliver, PageTypes
    <3>3. QED
      BY <3>1, <3>2
  <2>3. live' \in BOOLEAN /\ expanded' \in BOOLEAN
    BY <1>0, <1>14, Zenon DEF Deliver, SameRows, PageTypes
  <2>4. last' \in MaybeWorld
    BY <1>0, <1>14, <2>1 DEF Deliver, PageTypes
  <2>5. UNCHANGED <<page, socket, ended, cut, feedVars, serverVars>>
    BY <1>14, Zenon DEF Deliver
  <2>6. PageTypes' /\ PathTypes'
    BY <1>0, <2>1, <2>2, <2>3, <2>4, <2>5, Zenon DEF PageTypes, PathTypes
  <2>7. QED
    BY <1>0, <2>5, <2>6, GroupsKept, Zenon
<1>15. CASE ExpandRow
  <2>1. /\ expanded' = TRUE
        /\ UNCHANGED <<page, socket, live, shown, last, feedVars, serverVars, pathVars>>
    BY <1>15, Zenon DEF ExpandRow
  <2>2. PageTypes'
    BY <1>0, <2>1, Zenon DEF PageTypes
  <2>3. QED
    BY <1>0, <2>1, <2>2, GroupsKept, Zenon
<1>16. CASE UNCHANGED vars
  BY <1>0, <1>16, GroupsKept, Zenon
<1>17. QED
  BY <1>1, <1>2, <1>3, <1>4, <1>5, <1>6, <1>7, <1>8, <1>9, <1>10, <1>11,
     <1>12, <1>13, <1>14, <1>15, <1>16, Zenon DEF Next, Backend, Page

\* A browser that has not opened the page satisfies them.
LEMMA TypeInit == ASSUME Init PROVE TypeOK /\ DraftInv
<1>1. /\ refresh \in BOOLEAN /\ world \in Worlds /\ backend \in {"up", "down"}
      /\ notified \in BOOLEAN /\ bdraft \in MaybeWorld
  BY DEF Init
<1>2. /\ server \in {"none", "accepted", "composed", "registered"}
      /\ hdraft \in MaybeWorld /\ DraftInv
  BY DEF Init, DraftInv
<1>3. wire \in Seq(Worlds) /\ Len(wire) <= WireSize
  <2>1. wire = <<>> /\ Len(wire) = 0
    BY DEF Init
  <2>2. QED
    BY <2>1, WireSizes
<1>4. ended \in BOOLEAN /\ cut \in BOOLEAN /\ live \in BOOLEAN /\ expanded \in BOOLEAN
  BY DEF Init
<1>5. /\ page \in {"none", "loaded", "parsing", "ready"}
      /\ socket \in {"none", "connecting", "open", "closed"}
  BY DEF Init
<1>6. shown.counters \in [Counters -> Nat] /\ last \in MaybeWorld
  BY BlankType DEF Init
<1>7. QED
  BY <1>1, <1>2, <1>3, <1>4, <1>5, <1>6 DEF TypeOK

\* The variables always have their types.
THEOREM TypeCorrect == Spec => [](TypeOK /\ DraftInv)
<1>1. TypeOK /\ DraftInv /\ [Next]_vars => (TypeOK /\ DraftInv)'
  BY TypeStep
<1>2. QED
  BY <1>1, TypeInit, PTL DEF Spec

-----------------------------------------------------------------------------
(* The page and its last message.                                          *)

\* The upstream servers on the page are those of one answer, if not that of the
\* last message then that of an earlier one.
ServersInv ==
  \/ shown.upstreams = <<>>
  \/ \E w \in Worlds : shown.upstreams = getDnsStats(w.dns).upstreams

\* ViewCoherent, and a page that received nothing shows nothing.
ViewInv ==
  /\ last = NoWorld => shown = Blank
  /\ ViewCoherent
  /\ ServersInv

\* The tables that are shown are tables.
LEMMA ShownType ==
  ASSUME TypeOK, ViewInv
  PROVE  shown.current \in Seq(CurrentRowSet) /\ shown.past \in Seq(PastRowSet)
<1>1. CASE last = NoWorld
  <2>1. shown.current = <<>> /\ shown.past = <<>>
    BY <1>1, BlankEmpty, Zenon DEF ViewInv
  <2>2. QED
    BY <2>1
<1>2. CASE last # NoWorld
  <2>1. last \in Worlds
    BY <1>2 DEF TypeOK
  <2>2. shown.current = CurrentRows(last) /\ shown.past = PastRows(last)
    BY <1>2, Zenon DEF ViewInv, ViewCoherent
  <2>3. QED
    BY <2>1, <2>2, RowsType
<1>3. QED
  BY <1>1, <1>2

\* However the tables are updated, they become those of the message.
LEMMA RenderedExact ==
  ASSUME TypeOK, ViewInv, NEW w \in Worlds
  PROVE  /\ Redrawn(shown.current, CurrentRows(w), "time_left") = CurrentRows(w)
         /\ Redrawn(shown.past, PastRows(w), "last_seen") = PastRows(w)
<1>1. Redrawn(shown.current, CurrentRows(w), "time_left") = CurrentRows(w)
  BY ShownType, RowsType, RedrawnExact, Zenon DEF CurrentRowSet
<1>2. Redrawn(shown.past, PastRows(w), "last_seen") = PastRows(w)
  BY ShownType, RowsType, RedrawnExact, Zenon DEF PastRowSet
<1>3. QED
  BY <1>1, <1>2

\* The clients that the text counts as static have YES in their row.
LEMMA StaticRows ==
  ASSUME NEW w \in Worlds
  PROVE  StaticClients(w)
           = Cardinality({i \in DOMAIN CurrentRows(w) : CurrentRows(w)[i].static})
<1>1. DOMAIN CurrentRows(w) = DOMAIN w.clients
  BY Zenon DEF CurrentRows
<1>2. \A i \in DOMAIN w.clients : CurrentRows(w)[i].static = w.clients[i].static
  BY Zenon DEF CurrentRows, CurrentRow
<1>3. {i \in DOMAIN CurrentRows(w) : CurrentRows(w)[i].static}
        = {i \in DOMAIN w.clients : w.clients[i].static}
  BY <1>1, <1>2, Zenon
<1>4. QED
  BY <1>3, Zenon DEF StaticClients

\* The number of clients in the pool.
LEMMA UsedType == ASSUME NEW w \in Worlds PROVE AddressesUsed(w) \in Nat
<1> DEFINE n == Len(w.clients)
           inside == {i \in DOMAIN w.clients : w.clients[i].inside}
<1>1. n \in Nat /\ DOMAIN w.clients = 1 .. n
  BY WorldType
<1>2. IsFiniteSet(1 .. n)
  BY <1>1, FS_Interval
<1>3. inside \subseteq 1 .. n
  BY <1>1
<1>4. IsFiniteSet(inside)
  BY <1>2, <1>3, FS_Subset, Zenon
<1>5. QED
  BY <1>4, FS_CardinalityType, Zenon DEF AddressesUsed

\* The usage is rounded.
LEMMA UsageRounded ==
  ASSUME NEW used \in Nat, dhcpPoolSize > 0
  PROVE  NearUsage(Usage(used), used)
<1> DEFINE size == dhcpPoolSize
           n == 2000 * used + size
           d == 2 * size
           u == Usage(used)
<1>1. size \in Int /\ size > 0
  BY Zenon, ConstantsAssumption
<1> HIDE DEF size
<1>2. n \in Nat /\ d \in Nat /\ d > 0
  BY <1>1
<1>3. u = n \div d
  BY DEF Usage, size
<1> HIDE DEF n, d, u
<1>4. u \in Int /\ u * d \in Int /\ u * d <= n /\ n < u * d + d
  BY <1>2, <1>3, SMT
<1>5. n - d < u * d /\ n - d = 2000 * used - size
  <2>1. \A m \in Int : n < m + d => n - d < m
    BY <1>2
  <2>2. n - d < u * d
    BY <1>4, <2>1, Zenon
  <2>3. n - d = 2000 * used - size
    BY <1>1 DEF n, d
  <2>4. QED
    BY <2>2, <2>3
<1>6. u * d <= 2000 * used + size /\ 2000 * used - size < u * d
  BY <1>4, <1>5 DEF n
<1>7. QED
  BY <1>6 DEF NearUsage, size, d, u

\* What a rendered message leaves on the page.
LEMMA DeliverView ==
  ASSUME TypeOK, ViewInv, Deliver, page = "ready"
  PROVE  /\ Head(wire) \in Worlds /\ last' = Head(wire)
         /\ shown'.current = CurrentRows(last')
         /\ ViewInv'
<1> DEFINE w == Head(wire)
           stats == getDnsStats(w.dns)
<1>1. w \in Worlds /\ w # NoWorld
  BY HeadTailProperties, WireSizes DEF Deliver, TypeOK
<1>2. last' = w /\ shown' = Rendered(w)
  BY DEF Deliver
<1>3. shown'.current = CurrentRows(w) /\ shown'.past = PastRows(w)
  BY <1>1, <1>2, RenderedExact DEF Rendered
<1>4. /\ shown'.status = Status(w)
      /\ shown'.counters = stats.counters
      /\ shown'.upstreams = UpstreamTable(shown.upstreams, stats.upstreams)
  BY <1>2, Zenon DEF Rendered
<1>5. shown'.status.used = AddressesUsed(w)
  BY <1>4 DEF Status
<1>6. StatusAgrees(shown'.status, shown'.current, shown'.past)
  <2> DEFINE rows == CurrentRows(w)
             status == Status(w)
  <2>1. /\ status.current = Len(rows) /\ status.past = Len(PastRows(w))
        /\ status.static = Cardinality({i \in DOMAIN rows : rows[i].static})
        /\ status.used = AddressesUsed(w) /\ status.usage = Usage(AddressesUsed(w))
    <3>1. /\ status.current = Len(w.clients) /\ status.past = Len(w.past)
          /\ status.static = StaticClients(w)
          /\ status.used = AddressesUsed(w) /\ status.usage = Usage(AddressesUsed(w))
      BY Zenon DEF Status
    <3>2. QED
      BY <1>1, <3>1, RowsType, StaticRows, Zenon
  <2> HIDE DEF rows, status
  <2>2. StatusAgrees(status, rows, PastRows(w))
    <3> DEFINE used == AddressesUsed(w)
    <3>1. used \in Nat
      BY <1>1, UsedType, Zenon
    <3> HIDE DEF used
    <3>2. dhcpPoolSize > 0 => NearUsage(Usage(used), used)
      BY <3>1, UsageRounded, Zenon
    <3>3. status.used = used /\ status.usage = Usage(used)
      BY <2>1, Zenon DEF used
    <3>4. QED
      BY <2>1, <3>2, <3>3, Zenon DEF StatusAgrees
  <2>3. QED
    BY <1>3, <1>4, <2>2, Zenon DEF rows, status
<1>7. stats.upstreams # <<>> => shown'.upstreams = stats.upstreams
  BY <1>4, Zenon DEF UpstreamTable
<1>8. ViewCoherent'
  BY <1>2, <1>3, <1>4, <1>5, <1>6, <1>7, Zenon DEF ViewCoherent
<1>9. ServersInv'
  BY <1>1, <1>4, <1>7, Zenon DEF UpstreamTable, ServersInv, ViewInv
<1>10. QED
  BY <1>1, <1>2, <1>3, <1>8, <1>9, Zenon DEF ViewInv

\* The steps that do not touch what is shown.
LEMMA ViewKept ==
  ASSUME ViewInv, UNCHANGED <<shown, last>> PROVE ViewInv'
BY Zenon DEF ViewInv, ViewCoherent, ServersInv

LEMMA ViewStep ==
  ASSUME TypeOK, ViewInv, [Next]_vars PROVE ViewInv'
<1>1. ASSUME NEW ingress \in BOOLEAN, LoadPage(ingress) PROVE ViewInv'
  <2>1. shown' = Blank /\ last' = NoWorld
    BY <1>1, Zenon DEF LoadPage
  <2>2. QED
    BY <2>1, BlankEmpty, Zenon DEF ViewInv, ViewCoherent, ServersInv
<1>2. CASE Deliver
  <2>1. CASE page = "ready"
    BY <1>2, <2>1, DeliverView
  <2>2. CASE page # "ready"
    BY <1>2, <2>2, ViewKept, Zenon DEF Deliver
  <2>3. QED
    BY <2>1, <2>2, Zenon
<1>3. ASSUME NEW w \in Worlds, WorldChanges(w) PROVE ViewInv'
  BY <1>3, ViewKept, Zenon DEF WorldChanges
<1>4. CASE Accept \/ Backend
  BY <1>4, ViewKept, Zenon DEF Accept, Backend, ComposeFirst, Register,
     BroadcastCompose, BroadcastSkip, BroadcastSend
<1>5. CASE ConnectionEnds \/ BackendEnds \/ BackendStarts \/ Cut
  BY <1>5, ViewKept, Zenon DEF ConnectionEnds, BackendEnds, BackendStarts, Cut
<1>6. CASE SetConfig \/ InitAll \/ ConnectFails \/ CloseEvent \/ ExpandRow
  BY <1>6, ViewKept, Zenon DEF SetConfig, InitAll, ConnectFails, CloseEvent, ExpandRow
<1>7. CASE UNCHANGED vars
  BY <1>7, ViewKept, Zenon
<1>8. QED
  BY <1>1, <1>2, <1>3, <1>4, <1>5, <1>6, <1>7, Zenon DEF Next, Page

\* The page shows exactly its last message in every table, text and number,
\* for every sequence of messages, losses and reloads.
THEOREM PageShowsLastMessage == Spec => []ViewCoherent
<1>1. Init => ViewInv
  BY BlankEmpty, Zenon DEF Init, ViewInv, ViewCoherent, ServersInv
<1>2. TypeOK /\ DraftInv /\ ViewInv /\ [Next]_vars => ViewInv'
  BY ViewStep
<1>3. ViewInv => ViewCoherent
  BY DEF ViewInv
<1>4. QED
  BY <1>1, <1>2, <1>3, TypeCorrect, PTL DEF Spec

\* Two tables with the same indices are equally long.
LEMMA SameIndices ==
  ASSUME NEW m \in Nat, NEW n \in Nat, 1 .. m = 1 .. n PROVE m = n
<1>1. m \in 1 .. m \/ m = 0
  OBVIOUS
<1>2. n \in 1 .. n \/ n = 0
  OBVIOUS
<1>3. (m \in 1 .. m <=> m \in 1 .. n) /\ (n \in 1 .. n <=> n \in 1 .. m)
  BY Zenon
<1>4. QED
  BY <1>1, <1>2, <1>3

\* Rows that are the same without their times differ in nothing but the time.
LEMMA SameWithoutTime ==
  ASSUME NEW old \in Seq(CurrentRowSet), NEW new \in Seq(CurrentRowSet),
         WithoutTime(new) = WithoutTime(old)
  PROVE  SameRows(old, new, {"time_left"})
<1>1. /\ DOMAIN old = 1 .. Len(old) /\ DOMAIN new = 1 .. Len(new)
      /\ Len(old) \in Nat /\ Len(new) \in Nat
  OBVIOUS
<1>2. DOMAIN new = DOMAIN old
  BY DEF WithoutTime
<1>3. Len(old) = Len(new)
  <2>1. 1 .. Len(old) = 1 .. Len(new)
    BY <1>1, <1>2, Zenon
  <2>2. QED
    BY <1>1, <2>1, SameIndices, Zenon
<1>4. ASSUME NEW i \in DOMAIN old PROVE new[i].name = old[i].name /\ new[i].static = old[i].static
  <2>1. WithoutTime(new)[i] = WithoutTime(old)[i]
    OBVIOUS
  <2>2. /\ WithoutTime(new)[i] = <<new[i].name, new[i].static>>
        /\ WithoutTime(old)[i] = <<old[i].name, old[i].static>>
    BY <1>2 DEF WithoutTime
  <2>3. QED
    BY <2>1, <2>2
<1>5. ASSUME NEW i \in DOMAIN old PROVE DOMAIN old[i] = {"name", "time_left", "static"}
  <2>1. old[i] \in CurrentRowSet
    BY <1>1, ElementOfSeq
  <2>2. QED
    BY <2>1 DEF CurrentRowSet
<1>6. ASSUME NEW i \in DOMAIN old, NEW col \in DOMAIN old[i] \ {"time_left"}
      PROVE  old[i][col] = new[i][col]
  <2>1. col = "name" \/ col = "static"
    BY <1>5
  <2>2. QED
    BY <1>4, <2>1
<1>7. QED
  BY <1>3, <1>6 DEF SameRows

\* The user's expanded rows survive every message that brings the same
\* clients in the same order.
THEOREM RowsAreLeftOpen == Spec => RowsStayOpen
<1>1. TypeOK /\ DraftInv /\ ViewInv /\ [Next]_vars =>
        [Deliver /\ expanded /\ WithoutTime(shown'.current) = WithoutTime(shown.current)
           => expanded']_vars
  <2> SUFFICES ASSUME TypeOK, ViewInv, Deliver, expanded,
                      WithoutTime(shown'.current) = WithoutTime(shown.current)
               PROVE  expanded'
    BY Zenon
  <2>1. CASE page = "ready"
    <3>1. Head(wire) \in Worlds /\ shown'.current = CurrentRows(Head(wire))
      BY <2>1, DeliverView
    <3>2. SameRows(shown.current, CurrentRows(Head(wire)), {"time_left"})
      BY <3>1, ShownType, RowsType, SameWithoutTime
    <3>3. QED
      BY <2>1, <3>2, Zenon DEF Deliver
  <2>2. CASE page # "ready"
    BY <2>2, Zenon DEF Deliver
  <2>3. QED
    BY <2>1, <2>2
<1>2. Init => ViewInv
  BY BlankEmpty, Zenon DEF Init, ViewInv, ViewCoherent, ServersInv
<1>3. TypeOK /\ DraftInv /\ ViewInv /\ [Next]_vars => ViewInv'
  BY ViewStep
<1>4. QED
  BY <1>1, <1>2, <1>3, TypeCorrect, PTL DEF Spec, RowsStayOpen

-----------------------------------------------------------------------------
(* The live indicator.                                                     *)

LEMMA LiveStep ==
  ASSUME TypeOK, LiveIsEarned, [Next]_vars PROVE LiveIsEarned'
<1> USE DEF LiveIsEarned
<1>1. ASSUME NEW w \in Worlds, WorldChanges(w) PROVE LiveIsEarned'
  BY <1>1, Zenon DEF WorldChanges
<1>2. CASE Backend
  BY <1>2, Zenon DEF Backend, ComposeFirst, Register, BroadcastCompose, BroadcastSkip,
     BroadcastSend
<1>3. CASE ConnectionEnds \/ BackendEnds \/ BackendStarts \/ Cut
  BY <1>3, Zenon DEF ConnectionEnds, BackendEnds, BackendStarts, Cut
<1>4. CASE Accept
  BY <1>4, Zenon DEF Accept
<1>5. ASSUME NEW ingress \in BOOLEAN, LoadPage(ingress) PROVE LiveIsEarned'
  BY <1>5, Zenon DEF LoadPage
<1>6. CASE SetConfig \/ InitAll
  <2>1. page # "ready" /\ live' = live
    BY <1>6 DEF SetConfig, InitAll
  <2>2. QED
    BY <2>1, Zenon
<1>7. CASE ConnectFails \/ CloseEvent
  BY <1>7, Zenon DEF ConnectFails, CloseEvent, LiveAfterClose
<1>8. CASE Deliver
  <2>1. CASE page = "ready"
    <3>1. Head(wire) # NoWorld
      BY <1>8, HeadTailProperties, WireSizes DEF Deliver, TypeOK
    <3>2. QED
      BY <1>8, <2>1, <3>1, Zenon DEF Deliver
  <2>2. CASE page # "ready"
    BY <1>8, <2>2, Zenon DEF Deliver
  <2>3. QED
    BY <2>1, <2>2
<1>9. CASE ExpandRow \/ UNCHANGED vars
  BY <1>9, Zenon DEF ExpandRow
<1>10. QED
  BY <1>1, <1>2, <1>3, <1>4, <1>5, <1>6, <1>7, <1>8, <1>9, Zenon DEF Next, Page

\* A page whose indicator is on has tables, an open connection and a message
\* of that connection.
THEOREM LiveOnlyWhenConnected == Spec => []LiveIsEarned
<1>1. Init => LiveIsEarned
  BY Zenon DEF Init, LiveIsEarned
<1>2. TypeOK /\ DraftInv /\ LiveIsEarned /\ [Next]_vars => LiveIsEarned'
  BY LiveStep
<1>3. QED
  BY <1>1, <1>2, TypeCorrect, PTL DEF Spec

-----------------------------------------------------------------------------
(* The numbers of dnsmasq.                                                 *)

Entry == [kind : EntryKinds, server : STRING, queries : Int]

\* What is read of an answer to servers.bind is the beginning of it.
LEMMA BeforeMalformedIsPrefix ==
  ASSUME NEW entries \in Seq(Entry)
  PROVE  /\ BeforeMalformed(entries) \in Seq(Entry)
         /\ \A i \in DOMAIN BeforeMalformed(entries) :
              /\ i \in DOMAIN entries
              /\ BeforeMalformed(entries)[i] = entries[i]
<1> DEFINE bad == {i \in DOMAIN entries : entries[i].kind = "malformed"}
<1>1. CASE bad = {}
  BY <1>1, Zenon DEF BeforeMalformed
<1>2. CASE bad # {}
  <2>1. bad \subseteq Nat /\ bad \subseteq 1 .. Len(entries)
    OBVIOUS
  <2>2. \E x \in bad : \A y \in bad : x <= y
    <3> HIDE DEF bad
    <3>1. QED
      BY <1>2, <2>1, SmallestNumber
  <2>3. Min(bad) \in bad
    <3> HIDE DEF bad
    <3>1. QED
      BY <2>2, Zenon DEF Min
  <2>4. BeforeMalformed(entries) = SubSeq(entries, 1, Min(bad) - 1)
    BY <1>2, Zenon DEF BeforeMalformed
  <2> DEFINE m == Min(bad) - 1
  <2>5. m \in 0 .. Len(entries)
    BY <2>1, <2>3
  <2> HIDE DEF m, bad
  <2>6. /\ SubSeq(entries, 1, m) \in Seq(Entry)
        /\ Len(SubSeq(entries, 1, m)) = m
        /\ \A i \in 1 .. m : SubSeq(entries, 1, m)[i] = entries[i]
    BY <2>5
  <2>7. QED
    BY <2>4, <2>5, <2>6 DEF m
<1>3. QED
  BY <1>1, <1>2

\* Every server of a message is a whole entry of the answer.
LEMMA ServersReported ==
  ASSUME NEW entries \in Seq(Entry)
  PROVE  \A i \in DOMAIN UpstreamServers(entries) :
           /\ UpstreamServers(entries)[i].kind = "stat"
           /\ \E j \in DOMAIN entries : entries[j] = UpstreamServers(entries)[i]
<1> DEFINE read == BeforeMalformed(entries)
           N == Len(read)
           Whole == {e \in Entry : e.kind = "stat" /\ \E j \in DOMAIN entries : entries[j] = e}
           Plus(n, s) == IF read[n].kind = "stat" THEN Append(s, read[n]) ELSE s
           Def(g) == [n \in 0 .. N |-> IF n = 0 THEN <<>> ELSE Plus(n, g[n - 1])]
           step == [n \in 1 .. N |-> [s \in Seq(Whole) |-> Plus(n, s)]]
           Servers == CHOOSE g : g = Def(g)
<1>1. N \in Nat /\ read \in Seq(Entry) /\ DOMAIN read = 1 .. N
  BY BeforeMalformedIsPrefix
<1>2. \A n \in 1 .. N, s \in Seq(Whole) : Plus(n, s) \in Seq(Whole)
  <2> SUFFICES ASSUME NEW n \in 1 .. N, NEW s \in Seq(Whole), read[n].kind = "stat"
               PROVE  Append(s, read[n]) \in Seq(Whole)
    OBVIOUS
  <2>1. read[n] \in Entry /\ n \in DOMAIN entries /\ read[n] = entries[n]
    BY <1>1, BeforeMalformedIsPrefix
  <2>2. read[n] \in Whole
    BY <2>1
  <2> HIDE DEF read, Whole
  <2>3. QED
    BY <2>2
<1>3. <<>> \in Seq(Whole)
  OBVIOUS
<1> HIDE DEF N, Plus, Whole
<1>4. PICK g \in [0 .. N -> Seq(Whole)] : g = Def(g)
  <2>1. step \in [1 .. N -> [Seq(Whole) -> Seq(Whole)]]
    BY <1>2
  <2>2. PICK g \in [0 .. N -> Seq(Whole)] : Follows(g, N, <<>>, step)
    <3> HIDE DEF step
    <3>1. QED
      BY <1>1, <1>3, <2>1, IndexRecursion
  <2>3. ASSUME NEW n \in 0 .. N, n # 0 PROVE g[n] = Plus(n, g[n - 1])
    <3>1. n \in 1 .. N /\ n - 1 \in 0 .. N
      BY <1>1, <2>3
    <3>2. g[n - 1] \in Seq(Whole)
      BY <3>1, <2>2
    <3>3. QED
      BY <2>2, <3>1, <3>2 DEF Follows
  <2>4. g = Def(g)
    BY <2>2, <2>3 DEF Follows
  <2> HIDE DEF Def
  <2>5. QED
    BY <2>2, <2>4, Zenon
<1>5. Servers = Def(Servers)
  <2> HIDE DEF Def
  <2>1. QED
    BY <1>4, Zenon
<1>6. UpstreamServers(entries) = Servers[N]
  BY Zenon DEF UpstreamServers, N, Plus
<1> HIDE DEF Servers
<1>7. Servers[0] = <<>> /\ \A n \in 1 .. N : Servers[n] = Plus(n, Servers[n - 1])
  BY <1>1, <1>5
<1> DEFINE S == {n \in 0 .. N : Servers[n] \in Seq(Whole)}
<1>8. 0 \in S
  <2>1. 0 \in 0 .. N
    BY <1>1
  <2>2. Servers[0] \in Seq(Whole)
    BY <1>3, <1>7, Zenon
  <2>3. QED
    BY <2>1, <2>2, Zenon
<1>9. ASSUME NEW n \in 1 .. N, n - 1 \in S PROVE n \in S
  <2>1. n \in 0 .. N /\ Servers[n - 1] \in Seq(Whole)
    BY <1>1, <1>9
  <2>2. QED
    BY <1>2, <1>7, <2>1
<1>10. N \in S
  <2>1. 0 .. N \subseteq S
    <3> HIDE DEF S
    <3>1. QED
      BY <1>1, <1>8, <1>9, IndexInduction
  <2>2. QED
    BY <1>1, <2>1
<1>11. ASSUME NEW i \in DOMAIN UpstreamServers(entries)
       PROVE  UpstreamServers(entries)[i] \in Whole
  BY <1>6, <1>10, <1>11
<1>12. QED
  BY <1>11 DEF Whole

\* A number that is not 0 was answered.
LEMMA CounterAnswered ==
  ASSUME NEW w \in Worlds, NEW q \in Counters, getDnsStats(w.dns).counters[q] # 0
  PROVE  w.dns.counters[q] = [kind |-> "number", value |-> getDnsStats(w.dns).counters[q]]
<1> DEFINE a == w.dns.counters[q]
<1>1. a \in Answers
  BY WorldType DEF Replies
<1>2. getDnsStats(w.dns).counters[q] = IntegerAnswer(a)
  BY DEF getDnsStats
<1> HIDE DEF a
<1>3. a.kind = "number" /\ IntegerAnswer(a) = a.value
  BY <1>2 DEF IntegerAnswer
<1>4. a = [kind |-> "number", value |-> a.value]
  BY <1>1, <1>3 DEF Answers
<1>5. QED
  BY <1>2, <1>3, <1>4, Zenon DEF a

\* Nothing on the page is a number or a server that dnsmasq did not report:
\* failed, partial and garbled answers leave 0 or what an earlier one said.
THEOREM NumbersAreAnswered == Spec => []NumbersAnswered
<1>1. Init => ViewInv
  BY BlankEmpty, Zenon DEF Init, ViewInv, ViewCoherent, ServersInv
<1>2. TypeOK /\ DraftInv /\ ViewInv /\ [Next]_vars => ViewInv'
  BY ViewStep
<1>3. TypeOK /\ ViewInv => NumbersAnswered
  <2> SUFFICES ASSUME TypeOK, ViewInv PROVE NumbersAnswered
    OBVIOUS
  <2>1. ASSUME NEW q \in Counters, shown.counters[q] # 0
        PROVE  last.dns.counters[q] = [kind |-> "number", value |-> shown.counters[q]]
    <3>1. last # NoWorld
      BY <2>1, BlankEmpty, Zenon DEF ViewInv
    <3>2. last \in Worlds
      BY <3>1, Zenon DEF TypeOK
    <3>3. shown.counters = getDnsStats(last.dns).counters
      BY <3>1, Zenon DEF ViewInv, ViewCoherent
    <3>4. QED
      BY <2>1, <3>2, <3>3, CounterAnswered
  <2>2. ASSUME shown.upstreams # <<>>
        PROVE  \E w \in Worlds :
                 \A i \in DOMAIN shown.upstreams :
                   shown.upstreams[i].kind = "stat" /\ \E j \in DOMAIN w.dns.servers :
                     w.dns.servers[j] = shown.upstreams[i]
    <3>1. PICK w \in Worlds : shown.upstreams = getDnsStats(w.dns).upstreams
      BY <2>2, Zenon DEF ViewInv, ServersInv
    <3>2. w.dns.servers \in Seq(Entry)
      BY WorldType DEF Replies, Entry
    <3>3. shown.upstreams = UpstreamServers(w.dns.servers)
      BY <3>1, Zenon DEF getDnsStats
    <3>4. \A i \in DOMAIN shown.upstreams :
            shown.upstreams[i].kind = "stat" /\ \E j \in DOMAIN w.dns.servers :
              w.dns.servers[j] = shown.upstreams[i]
      BY <3>2, <3>3, ServersReported
    <3>5. QED
      BY <3>4
  <2>3. QED
    BY <2>1, <2>2, Zenon DEF NumbersAnswered
<1>4. QED
  BY <1>1, <1>2, <1>3, TypeCorrect, PTL DEF Spec

=============================================================================
