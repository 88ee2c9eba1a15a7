------------------------------- MODULE WebPage -------------------------------
(***************************************************************************)
(* One browser page (frontend/libs/dnsmasq-dhcp.js) and its connection to  *)
(* the backend: loading, the WebSocket that the head of the page opens     *)
(* before its tables exist, messages rendered one after the other, and the *)
(* live indicator.                                                         *)
(*                                                                         *)
(* What the backend knows and dnsmasq answers is one state of the world    *)
(* here; how the backend comes to know it is module UIBackend.  Of its     *)
(* goroutines there are two that compose messages for the page, each with  *)
(* a draft of its own: the handler of the connection and the broadcaster.  *)
(* Other pages may be connected at the same time.  A message carries the   *)
(* world it was composed of, and the wire keeps the order of messages.     *)
(***************************************************************************)
EXTENDS DnsStats

CONSTANTS
  ClientNames,
  Times,    \* instants at which a lease expires or a client was seen
  Worlds,   \* what a message can be composed of
  NoWorld,  \* "no message"
  dhcpPoolSize, \* the size of the pool that the page was rendered with
  WireSize  \* bound of the messages under way to the page

\* The name stands for all that a row shows but its time and whether the
\* client is static; inside is is_inside_dhcp_pool.
ClientInfo == [name : ClientNames, expires : Times, static : BOOLEAN, inside : BOOLEAN]
PastInfo   == [name : ClientNames, last_seen : Times, static : BOOLEAN]

ASSUME ConstantsAssumption ==
  /\ Worlds \subseteq [clients : Seq(ClientInfo), past : Seq(PastInfo), dns : Replies]
  /\ NoWorld \notin Worlds
  /\ dhcpPoolSize \in Int
  /\ WireSize \in Nat \ {0}

VARIABLES
  refresh,  \* refresh_interval_sec > 0; never changes
  world,    \* what the backend would put into a message now
  backend,  \* up or down
  notified, \* a notification on broadcastCh
  bdraft,   \* the broadcaster's message, composed and not sent
  server,   \* the backend's side of the connection
  hdraft,   \* the handler's first message, composed and not sent
  wire,     \* messages under way, oldest first
  ended,    \* the connection ends after the messages under way
  cut,      \* nothing arrives any more, and nobody says so
  page,     \* none, or how far the page is loaded
  socket,   \* backend_ws
  live,     \* the indicator shows ok.png
  shown,    \* the tables and texts of the page
  expanded, \* the user has a row of the table of current clients open
  last      \* history: the last message that was rendered

feedVars   == <<refresh, world, backend, notified, bdraft>>
serverVars == <<server, hdraft>>
pathVars   == <<wire, ended, cut>>
pageVars   == <<page, socket, live, shown, expanded, last>>
vars == <<feedVars, serverVars, pathVars, pageVars>>

MaybeWorld == Worlds \cup {NoWorld}

-----------------------------------------------------------------------------
(* Slips of this code that the properties below must catch.                *)

NamesIgnored(old, new, ignored) == Len(old) = Len(new)

AllCompared(old, new, ignored) == old = new

StillLive == live

OnNotificationOnly == notified

-----------------------------------------------------------------------------
(* Rendering.                                                              *)

CurrentRow(c) == [name |-> c.name, time_left |-> c.expires, static |-> c.static]

PastRow(p) == [name |-> p.name, last_seen |-> p.last_seen, static |-> p.static]

CurrentRows(w) == [i \in DOMAIN w.clients |-> CurrentRow(w.clients[i])]

PastRows(w) == [i \in DOMAIN w.past |-> PastRow(w.past[i])]

\* compareArraysIgnoringColumns
SameRows(old, new, ignored) ==
  /\ Len(old) = Len(new)
  /\ \A i \in DOMAIN old :
       \A col \in DOMAIN old[i] \ ignored : old[i][col] = new[i][col]

\* The table after a message: cells of one column if nothing else changed,
\* or cleared and filled again.
Redrawn(old, new, column) ==
  IF SameRows(old, new, {column})
  THEN [i \in DOMAIN old |-> [old[i] EXCEPT ![column] = new[i][column]]]
  ELSE new

\* A page whose tables have been initialised and that received nothing yet.
Blank ==
  [ current   |-> <<>>,
    past      |-> <<>>,
    status    |-> "no text",
    upstreams |-> <<>>,
    counters  |-> [q \in Counters |-> 0] ]

\* updateDNSStatus: null leaves the table of the upstream servers alone.
UpstreamTable(old, upstreams) == IF upstreams = <<>> THEN old ELSE upstreams

StaticClients(w) == Cardinality({i \in DOMAIN w.clients : w.clients[i].static})

AddressesUsed(w) == Cardinality({i \in DOMAIN w.clients : w.clients[i].inside})

\* The usage of the pool in tenths of a percent, rounded; the size is -1 for
\* a pool that is too large to be counted.
Usage(used) ==
  IF dhcpPoolSize > 0
  THEN (2000 * used + dhcpPoolSize) \div (2 * dhcpPoolSize) ELSE 0

\* The numbers of updateDHCPStatus.
Status(w) ==
  [ current |-> Len(w.clients),
    static  |-> StaticClients(w),
    used    |-> AddressesUsed(w),
    usage   |-> Usage(AddressesUsed(w)),
    past    |-> Len(w.past) ]

\* processWebSocketEvent, for a message of this backend.
Rendered(w) ==
  LET stats == getDnsStats(w.dns) IN
  [ current   |-> Redrawn(shown.current, CurrentRows(w), "time_left"),
    past      |-> Redrawn(shown.past, PastRows(w), "last_seen"),
    status    |-> Status(w),
    upstreams |-> UpstreamTable(shown.upstreams, stats.upstreams),
    counters  |-> stats.counters ]

\* The indicator after the end of the connection.
LiveAfterClose == FALSE

\* What makes the broadcaster compose a message.
BroadcastDue == notified \/ refresh

-----------------------------------------------------------------------------
Init ==
  /\ refresh \in BOOLEAN
  /\ world \in Worlds
  /\ backend = "up"
  /\ notified = FALSE
  /\ bdraft = NoWorld
  /\ server = "none"
  /\ hdraft = NoWorld
  /\ wire = <<>>
  /\ ended = FALSE
  /\ cut = FALSE
  /\ page = "none"
  /\ socket = "none"
  /\ live = FALSE
  /\ shown = Blank
  /\ expanded = FALSE
  /\ last = NoWorld

TypeOK ==
  /\ refresh \in BOOLEAN
  /\ world \in Worlds
  /\ backend \in {"up", "down"}
  /\ notified \in BOOLEAN
  /\ bdraft \in MaybeWorld
  /\ server \in {"none", "accepted", "composed", "registered"}
  /\ hdraft \in MaybeWorld
  /\ wire \in Seq(Worlds) /\ Len(wire) <= WireSize
  /\ ended \in BOOLEAN
  /\ cut \in BOOLEAN
  /\ page \in {"none", "loaded", "parsing", "ready"}
  /\ socket \in {"none", "connecting", "open", "closed"}
  /\ live \in BOOLEAN
  /\ shown.counters \in [Counters -> Nat]
  /\ expanded \in BOOLEAN
  /\ last \in MaybeWorld

-----------------------------------------------------------------------------
(* The backend.                                                            *)

\* Leases, the history or the DNS statistics change; a new lease list is
\* followed by a notification of the broadcaster.
WorldChanges(w) ==
  /\ w # world
  /\ world' = w
  /\ notified' = (notified \/ (backend = "up" /\ w.clients # world.clients))
  /\ UNCHANGED <<refresh, backend, bdraft, serverVars, pathVars, pageVars>>

\* handleWebSocketConn: the upgrade of the page's request for /ws ...
Accept ==
  /\ backend = "up"
  /\ socket = "connecting"
  /\ socket' = "open"
  /\ server' = "accepted"
  /\ UNCHANGED <<hdraft, page, live, shown, expanded, last, feedVars, pathVars>>

\* ... the first message is composed ...
ComposeFirst ==
  /\ server = "accepted"
  /\ server' = "composed"
  /\ hdraft' = world
  /\ UNCHANGED <<feedVars, pathVars, pageVars>>

Sent(w) == wire' = IF cut THEN wire ELSE Append(wire, w)

\* ... the connection is registered and the message sent.
Register ==
  /\ server = "composed"
  /\ Len(wire) < WireSize
  /\ server' = "registered"
  /\ Sent(hdraft)
  /\ hdraft' = NoWorld
  /\ UNCHANGED <<ended, cut, feedVars, pageVars>>

\* broadcastUpdatesToClients, if there is any connection ...
BroadcastCompose ==
  /\ backend = "up"
  /\ BroadcastDue
  /\ bdraft = NoWorld
  /\ bdraft' = world
  /\ notified' = FALSE
  /\ UNCHANGED <<refresh, world, backend, serverVars, pathVars, pageVars>>

\* ... and if there is none.
BroadcastSkip ==
  /\ notified
  /\ bdraft = NoWorld
  /\ server # "registered"
  /\ notified' = FALSE
  /\ UNCHANGED <<refresh, world, backend, bdraft, serverVars, pathVars, pageVars>>

BroadcastSend ==
  /\ bdraft # NoWorld
  /\ IF server = "registered"
     THEN Len(wire) < WireSize /\ Sent(bdraft)
     ELSE UNCHANGED wire
  /\ bdraft' = NoWorld
  /\ UNCHANGED <<refresh, world, backend, notified, ended, cut, serverVars, pageVars>>

\* The connection is reset, or the broadcaster closes it after a failed write.
ConnectionEnds ==
  /\ server # "none"
  /\ server' = "none"
  /\ hdraft' = NoWorld
  /\ ended' = TRUE
  /\ UNCHANGED <<wire, cut, feedVars, pageVars>>

\* The backend ends, and with it its connections.
BackendEnds ==
  /\ backend = "up"
  /\ backend' = "down"
  /\ notified' = FALSE
  /\ bdraft' = NoWorld
  /\ server' = "none"
  /\ hdraft' = NoWorld
  /\ ended' = (ended \/ server # "none")
  /\ UNCHANGED <<refresh, world, wire, cut, pageVars>>

BackendStarts ==
  /\ backend = "down"
  /\ backend' = "up"
  /\ UNCHANGED <<refresh, world, notified, bdraft, serverVars, pathVars, pageVars>>

\* The path of the connection is gone without a sign: the machine sleeps, or
\* a proxy forgets it.
Cut ==
  /\ socket = "open"
  /\ ~cut
  /\ cut' = TRUE
  /\ wire' = <<>>
  /\ UNCHANGED <<ended, feedVars, serverVars, pageVars>>

-----------------------------------------------------------------------------
(* The page.                                                               *)

\* The user opens or reloads the page.  renderPage refuses a request that
\* did not come through Home Assistant.
LoadPage(ingress) ==
  /\ backend = "up"
  /\ page' = IF ingress THEN "loaded" ELSE "none"
  /\ socket' = "none"
  /\ live' = FALSE
  /\ shown' = Blank
  /\ expanded' = FALSE
  /\ last' = NoWorld
  /\ server' = "none"
  /\ hdraft' = NoWorld
  /\ wire' = <<>>
  /\ ended' = FALSE
  /\ cut' = FALSE
  /\ UNCHANGED feedVars

\* setConfig, called in the head of the page.
SetConfig ==
  /\ page = "loaded"
  /\ page' = "parsing"
  /\ socket' = "connecting"
  /\ UNCHANGED <<live, shown, expanded, last, feedVars, serverVars, pathVars>>

\* DOMContentLoaded: initAll.
InitAll ==
  /\ page = "parsing"
  /\ page' = "ready"
  /\ UNCHANGED <<socket, live, shown, expanded, last, feedVars, serverVars, pathVars>>

\* onerror and onclose of a connection that is refused.
ConnectFails ==
  /\ backend = "down"
  /\ socket = "connecting"
  /\ socket' = "closed"
  /\ live' = LiveAfterClose
  /\ UNCHANGED <<page, shown, expanded, last, feedVars, serverVars, pathVars>>

\* onmessage.  Before initAll the handler stops at a table or an element that
\* does not exist, and the message is lost.
Deliver ==
  /\ socket = "open"
  /\ ~cut
  /\ wire # <<>>
  /\ wire' = Tail(wire)
  /\ IF page = "ready"
     THEN /\ shown' = Rendered(Head(wire))
          /\ expanded' = (expanded /\ SameRows(shown.current, CurrentRows(Head(wire)),
                                               {"time_left"}))
          /\ live' = TRUE
          /\ last' = Head(wire)
     ELSE UNCHANGED <<shown, expanded, live, last>>
  /\ UNCHANGED <<page, socket, ended, cut, feedVars, serverVars>>

\* onclose.  The page does not connect again.
CloseEvent ==
  /\ socket = "open"
  /\ ended
  /\ wire = <<>>
  /\ ~cut
  /\ socket' = "closed"
  /\ live' = LiveAfterClose
  /\ UNCHANGED <<page, shown, expanded, last, feedVars, serverVars, pathVars>>

\* The user opens a row of the table of current clients.
ExpandRow ==
  /\ shown.current # <<>>
  /\ expanded' = TRUE
  /\ UNCHANGED <<page, socket, live, shown, last, feedVars, serverVars, pathVars>>

-----------------------------------------------------------------------------
Backend ==
  \/ ComposeFirst
  \/ Register
  \/ BroadcastCompose
  \/ BroadcastSkip
  \/ BroadcastSend

Page == SetConfig \/ InitAll \/ ConnectFails \/ Deliver \/ CloseEvent

Next ==
  \/ \E w \in Worlds : WorldChanges(w)
  \/ Accept
  \/ Backend
  \/ ConnectionEnds
  \/ BackendEnds
  \/ BackendStarts
  \/ Cut
  \/ \E ingress \in BOOLEAN : LoadPage(ingress)
  \/ Page
  \/ ExpandRow

(***************************************************************************)
(* The goroutines of the backend run, its ticker fires again and again,    *)
(* and the browser runs the page and hands it what arrives.  A request for *)
(* /ws is answered by a backend that is up.  Nobody owes a change, a       *)
(* reload or a start.                                                      *)
(***************************************************************************)
Fairness ==
  /\ WF_vars(Accept)
  /\ WF_vars(ComposeFirst \/ Register)
  /\ WF_vars(BroadcastCompose)
  /\ WF_vars(BroadcastSend)
  /\ WF_vars(SetConfig \/ InitAll)
  /\ WF_vars(ConnectFails)
  /\ WF_vars(Deliver \/ CloseEvent)

Spec == Init /\ [][Next]_vars

FairSpec == Spec /\ Fairness

-----------------------------------------------------------------------------
(* Properties.                                                             *)

\* A number of tenths of a percent is off by half a tenth at most.
NearUsage(usage, used) ==
  /\ usage * (2 * dhcpPoolSize) <= 2000 * used + dhcpPoolSize
  /\ 2000 * used - dhcpPoolSize < usage * (2 * dhcpPoolSize)

StatusAgrees(status, current, past) ==
  /\ status.current = Len(current)
  /\ status.past = Len(past)
  /\ status.static = Cardinality({i \in DOMAIN current : current[i].static})
  /\ dhcpPoolSize > 0 => NearUsage(status.usage, status.used)

\* The page agrees with the last message in every table and number, whatever
\* was rendered before it and however the tables were updated: the status
\* counts the rows that are shown, those with YES, and the clients in the pool,
\* and is at most half a tenth of a percent off the usage of the pool; only the
\* upstream servers are older when the message has none.
ViewCoherent ==
  last # NoWorld =>
    LET stats == getDnsStats(last.dns) IN
    /\ shown.current = CurrentRows(last)
    /\ shown.past = PastRows(last)
    /\ StatusAgrees(shown.status, shown.current, shown.past)
    /\ shown.status.used = AddressesUsed(last)
    /\ shown.counters = stats.counters
    /\ stats.upstreams # <<>> => shown.upstreams = stats.upstreams

\* The indicator is on only after a message of this very connection, and
\* not any more once the browser was told that the connection is gone.
LiveIsEarned ==
  live => page = "ready" /\ socket = "open" /\ last # NoWorld

\* Every number in the DNS text is one that dnsmasq answered for the last
\* message, or 0; every upstream server is one that dnsmasq reported as a
\* whole entry in one of its answers.
NumbersAnswered ==
  /\ \A q \in Counters :
       shown.counters[q] # 0 =>
         last.dns.counters[q] = [kind |-> "number", value |-> shown.counters[q]]
  /\ shown.upstreams # <<>> =>
       \E w \in Worlds :
         \A i \in DOMAIN shown.upstreams :
           shown.upstreams[i].kind = "stat" /\ \E j \in DOMAIN w.dns.servers :
             w.dns.servers[j] = shown.upstreams[i]

WithoutTime(table) == [i \in DOMAIN table |-> <<table[i].name, table[i].static>>]

\* A message in which only times have passed leaves an expanded row open.
RowsStayOpen ==
  [][Deliver /\ expanded /\ WithoutTime(shown'.current) = WithoutTime(shown.current)
       => expanded']_vars

\* A connection that ends is no longer shown as live, unless its end is lost.
DeadPageMarked == (ended /\ live) ~> (~live \/ cut)

Connected ==
  page = "ready" /\ server = "registered" /\ ~cut

\* With a refresh interval, a page whose connection lasts ends up showing the
\* world at rest for good, with the indicator on, although messages are lost
\* before the tables exist and two goroutines send in any order.
PageConverges ==
  refresh /\ <>[][UNCHANGED world]_vars =>
    (<>[]Connected => <>[](live /\ last = world))

=============================================================================
