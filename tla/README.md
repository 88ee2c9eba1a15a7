# A verification of the Dnsmasq-DHCP add-on

This directory holds TLA+ modules for the Home Assistant add-on *Dnsmasq-DHCP*, TLC configurations that check them on small
instances, and proofs, checked by TLAPS, of their most important properties for every value of the constants. Paths in this text are
relative to the root of the repository; `uibackend.go` and the other Go files without a path are under
`src/backend/pkg/uibackend/`, the s6 scripts under `src/rootfs/etc/s6-overlay/s6-rc.d/`.

Contents:

1. [The system](#1-the-system)
2. [The modules](#2-the-modules)
3. [The runs](#3-the-runs)
4. [Fairness](#4-fairness)
5. [The proofs](#5-the-proofs)
6. [Where the code and its promises part](#6-where-the-code-and-its-promises-part)
7. [What is not modelled](#7-what-is-not-modelled)
8. [Plan](#8-plan)

## 1. The system

```
              DHCP clients
                  |
   s6 -------> dnsmasq ----------> /data/dnsmasq.leases ----inotify----> backend (Go)
   | init.sh      | event                                                 |  WatchLeases
   v              v                                                       |  processLeaseUpdates
/data/startepoch  dnsmasq-dhcp-script.sh ---> /data/trackerdb.sqlite3 <---|  generateWebSocketMessage
   |              ^                                  ^                    |  forgetPastDhcpClients
   |______________|__________________________________|____________________|
                                                                          | WebSocket, one per browser
                                                                          v
                                                                       dnsmasq-dhcp.js
```

| Component | State | Operations | Talks to |
| --- | --- | --- | --- |
| **Web UI backend** (`uibackend.go`) | current clients (`dhcpClientData` under `dhcpClientDataLock`), registered connections (`clients` under `clientsLock`), two unbuffered channels | read the lease file at start, watch it, rebuild the list, broadcast on update and on a ticker, serve a connection, compose a message | lease file (inotify), browsers (WebSocket), tracker DB, dnsmasq (DNS statistics) |
| **Tracker DB** (`src/backend/pkg/trackerdb/trackerdb.go`) | table `dhcp_clients`, one row per client, SQLite's file lock | list the clients that are not current, purge the rows that are old | event script (other process, same file) |
| **Event script** (`src/rootfs/opt/bin/dnsmasq-dhcp-script.sh`) | none of its own; rows and the start epoch | create the table, insert or update a row on `add` and on `old`, ignore `old` events of dnsmasq's start-up | started by dnsmasq for one event at a time |
| **Start-up and supervision** (`dnsmasq-init/init.sh`, the `run` and `finish` scripts, `src/backend/main.go`) | `/data/startepoch`, the lease file | move the lease file away after a boot, write the start epoch, start and restart dnsmasq and the backend, halt the add-on | all of the above |
| **Options** (`addon_options.go`) | pool, reservations by IP and by MAC, friendly names, purge age | validate the options once per start; names, links and static addresses of clients | message composition |
| **IP pools** (`src/backend/pkg/ippool`, `ipnetworkinfo.go`) | none | validity, membership, size; coherence with netmask and gateway | options |
| **DNS statistics** (`dnsmasq.go`) | none | six queries to dnsmasq | message composition |
| **Web page** (`src/frontend/libs/dnsmasq-dhcp.js`, `index.templ.html`) | three tables, two texts, the live indicator, one WebSocket | load, open the connection, create the tables, render a message, mark the end of the connection | backend |

What is hard in it, and so what the properties are about (the full list, each with its line, is `hazards` in `PROJECT.json`):

- **Interleaving.** Broadcaster, rebuilder and one handler per connection share two mutexes, a map and a slice that is rebuilt in
  place. Correct: a browser sees only lists that dnsmasq wrote as a whole; no change is lost on the way; a connection has one writer; the map is
  not changed under a `range`; nobody waits in a circle or keeps a lock; every served browser ends up with the last list.
- **Other processes.** The script writes the database while the backend reads and purges it. Correct: what is not old is not
  purged, also if it was refreshed between SELECT and DELETE; what was stored stays; the purge reports what it deleted; old rows go.
- **Restarts.** The start epoch ties rows, script and backend together across starts of the add-on, of dnsmasq and of the
  backend. Correct: one epoch per run; rows claim only contacts that took place; the notes in the page are true; a client ends up in
  the table it belongs to.
- **Numbers and texts.** Time zones, the width of `int`, address arithmetic in two families, two maps for one list of
  reservations. Correct: the purge age is what the option says; accepted ranges are coherent and counted right; a client is static
  when past if an address is reserved for it, and when current if that address is the one it holds; it has the same name in both
  tables; a link is that of the client that shows it.
- **The page.** It opens its connection before its tables exist, updates tables selectively, and never connects again.
  Correct: what it shows is one message, whatever was there before; its live indicator is earned and lost; it catches up with messages
  that it lost.

## 2. The modules

| Module | Models | Extends |
| --- | --- | --- |
| `UIBackend` | the live feed, from the lease file to the browsers | |
| `LiveView` | what the feed promises; implemented by `UIBackend` | |
| `TrackerDB` | the database under script, readers, purge and stops of the add-on | |
| `ClientHistory` | what the database promises; implemented by `TrackerDB` and by `PastClients` | |
| `PastClients` | start epoch, filter of the script, restarts, the two lists of a message | |
| `IpPool` | ranges, networks, pools | |
| `Durations` | `parseDuration`, with a reference meaning | |
| `AddonOptions` | validation of the options, names, links and static addresses | `IpPool`, `Durations` |
| `DnsStats` | the answers to six queries, and what of them is sent | |
| `WebPage` | a browser page and its connection | `DnsStats` |
| `MC*` | instances for TLC | the module named |
| `*Proofs` | theorems | the module named |
| `Induction` | induction and recursion over sets, for the proofs about sums and sequences | |

The modules are cut where one process sees another through a file. `PastClients` contains the feed and the database as single
steps: what justifies this is checked one level down, in `UIBackend` (a copied list is a whole list, and the last one
arrives) and in `TrackerDB` (a row is stored or not, a purge removes what is old): both `TrackerDB` and `PastClients` implement
`ClientHistory`, whose steps are those that `PastClients` takes for granted. `WebPage` does the same on the other side: the backend is
a world and two goroutines that send it, in any order, because `UIBackend` shows that this is what reaches a connection. Slips, the operators headed "Slips of this code
that the properties below must catch", are not used by the specifications: each is a plausible bug in the definition that
`mutants` in `PROJECT.json` pairs it with, and shows that a property would notice it.

### UIBackend and LiveView

One variable per program counter (`watcher`, `proc`, `bcast`, `handler[c]`) and one per piece of shared or carried data. A
statement under a lock is one action if nothing else can look at what it touches, and several if it can: the rebuild of the list is
`LockData`, one `AppendClient` per lease, `UnlockData`, because a reader without the lock could see it half-way. Both channels are
unbuffered, so a send and its receive are one action (`ReceiveLeases`, `NotifyBroadcaster`). A connection is a slot that is used
again. `len(b.clients)` is read without the lock in the code (line 323); the outcomes of that race, the lengths before and after an
update, are those of `CheckClients` before and after it.

The faults of the environment are a constant: a request for `/ws` that cannot be upgraded (the code goes on with a nil connection),
a browser that stops reading and perhaps resumes (no write deadline is set, so a write waits for it), an error of the inotify
watcher, and a lease file that cannot be read at the start, after which the backend ends with status 0 and s6 starts it again
(`BaselineFails`, `Restart`). `PeerStalls` has the guard that no write to this browser is under way: one that stops during a write has stopped before it. A change
of the lease file that falls between the baseline read and the hook is reported to nobody; the history variable `missed`
records it, and `NoChangeLost` excepts that window and nothing else: as long as the watcher runs, a change is reported and not yet
looked at (`dirty`), on its way through the channel and the rebuild (`Latest`), or known.

`WaitsFor(g, h)` says when goroutine `g` cannot go on before `h` does: the other side of an unbuffered channel, or the holder of a
lock. `NoCircularWait` is the absence of deadlock among the goroutines of the backend, for every subset of them. A system that stands
still is then held up from outside: an idle lease file, a browser that does not read, or a handler that died with the lock
(`feed_bad_upgrade`). TLC's own deadlock check says less, since dnsmasq and the browsers can always move.

`WatchLeases` and `ReadLeases` are of a library that is not in the repository, `go-dnsmasq-utils`, and are modelled from how
`uibackend.go` uses them. dnsmasq rewrites its file in place: a read between truncation and writing is one more content in `Files`.

`LiveView` has no goroutine and no lock: the backend knows one whole list at a time, takes over the lists in the order it
read them, and shows browsers lists it knew. It does *not* promise that a browser never goes back to an older list: the broadcaster
composes its message before it waits for `clientsLock`, a handler can deliver a newer one first. `FeedConverges` says that this does
not last. Under the refinement mapping `Feed` a rebuild counts as done when it starts.

### TrackerDB

A query is a cursor, open until `rows.Close`; SQLite commits no write meanwhile. The Go driver then waits and the `sqlite3`
command of the script fails at once, which the script only logs. The script is three steps (stamp, CREATE TABLE, INSERT) of which
the add-on's end can cut off any; the purge is SELECT, close, DELETE on another connection, with the same threshold. Texts that are
compared by SQLite are modelled by what the comparison sees: the local digits of the threshold and the UTC digits of the column
(`Threshold`). The clock counts coarse ticks, a run of the script sees it advance once at most.

`ClientHistory` has a clock, a row per client and the clients whose last report is not in the table, and four steps: time passes, a
contact is stored at most a tick late and never before an older row, a contact is missed, all rows beyond an age go at once. Under the
mapping of `TrackerDB` a purge takes place at its DELETE with the threshold that it computed before its SELECT, and a report is owed from
its stamp on.

### PastClients

`StartAddon` is `dnsmasq-init`, with the reset of the lease file; `StartDnsmasq`, `DnsmasqKilled`, `StartBackend`, `BackendEnds` and
`StopAddon` are what s6 and its `finish` scripts do. `Grant`, `Renew`, `Announce`, `GrantV6` and `Expire` are the events of dnsmasq
with the script's run on them; `Announce` is the `old` event for a lease that dnsmasq read when it started, which the script tells
from a renewal by the age of the start epoch alone. A message is composed in two steps (list of current clients, then database), so
that everything else can happen in between. History variables hold what the program does not know: the true last contact
(`heard`) and whether it was stored (`lost`: a busy database, or a renewal that fell into the first seconds and was taken for a
start-up event).

Assumptions: the clock does not step back, the add-on is not up again in the tick in which it was stopped, and, where `Prompt` is
set, dnsmasq has announced its leases before the script's threshold. `Prompt` excludes a slow dnsmasq and also a slow
`dnsmasq-init`: the script resolves the NTP host names after it has written the epoch (`dnsmasq-init/init.sh:145-152`), and dnsmasq
starts after that. A boot counts as recent for any start of the add-on within
five minutes, so `justRebooted` is free at every start.

### IpPool, Durations and AddonOptions

An address is the number of its 16 bytes, as in `iprange.go`; the IPv4 addresses are a block of these numbers. A netmask is the
size of the blocks it divides the addresses into, with 4 or with 16 bytes, since `net.IPNet.Contains` depends on it; a single block
stands for `/0` and for a mask that is not contiguous, for which `net.IPMask.Size` finds no ones.

A duration is a sign and a sequence of quantities with units, as `parseDuration`'s regular expression finds them; quantities below a
minute are left out. Results are minutes and a rest in units of 2^11 ns: a minute is a multiple of it, and so is every overflow of 32
and of 64 bits, which keeps the arithmetic exact within TLC's integers. A single number that `time.ParseDuration` cannot hold is
rejected (`Readable`). The product `int(dur) * _hours` has the width of `int`, the sum that of a `time.Duration`, and both wrap
(`Int64`): above 292 years `parseDuration` returns something else without an error. Texts on both sides of that limit are among the
inputs, and `PurgeAsConfigured` is about those whose quantities add up to at most 292 years.

`StaticAsReserved` compares the two maps of the reservations with the reservations that were read (`reservations`, a history
variable). The maps have different keys, so they do not agree with each other: if one address is reserved for two clients, both are
static when past, and only the one that was read last is when it holds the address. The property allows this and nothing else.
`NameKept` compares what the page shows: a client without a name is `N/A` among the past ones.

`AddonOptions` reads the options in the order of `UnmarshalJSON`: every entry is accepted or ends the start. `main` ignores the
error, so s6 starts the backend again (`Restart`), for ever if the options stay invalid. Settings that are only copied are left out.
A link template is a value, and the constant `GoodLinks` says with which friendly names it renders a URI: the friendly name is the one
variable of a template that depends on where the template was found (`evaluateLink`); a failing template and one that renders no URI
both give no link.

### DnsStats and WebPage

An answer to a query failed, did not hold exactly one text, is not a number, or is one; the answer to `servers.bind` is a sequence of
texts, each with another number of fields, with a field that is no number, or good. `getDnsStats` keeps what it got until the first
malformed entry (`BeforeMalformed`), appended one after the other (`UpstreamServers`), and its caller uses that although an error came
with it.

In `WebPage` a message is the *world* it was composed of: the current and past clients and the answers of dnsmasq. The
handler of the connection and the broadcaster each compose a message first and send it later (`hdraft`, `bdraft`), as in `UIBackend`;
`wire` is what TCP has not delivered yet. A connection ends with an event once everything before it was delivered (`ended`), or
without one (`cut`). The page goes through `loaded`, `parsing` and `ready`: `setConfig` opens the WebSocket in the head of the
page, `initAll` creates the tables at `DOMContentLoaded`, and a message in between throws in its handler and is lost. A row of
a table has a static flag, a name, for the other columns that `compareArraysIgnoringColumns` compares, and a time for the one that it
ignores; `expanded` is a row that the user has open, which only the refill of a table closes. The text above the tables is the record
of its numbers (`Status`): current, static and past clients, used addresses, and the usage of the pool, of which the page knows the
size from its rendering (the constant `dhcpPoolSize`). The uptime and the words of the text are left out.

## 3. The runs

All runs but the `violation` ones must finish without error; between them they take every action of every module. Deadlock
is checked in all of them.

| Run | Bounds | Shows |
| --- | --- | --- |
| `feed_safety` | 2 connections, 2 lists of 2 and 1 leases, all faults | `SnapshotWhole`, `OneWriter`, `RegisteredWhileServed`, `NoCircularWait`, `NoChangeLost`, `RangeUndisturbed`, and that the feed implements `LiveView` (`FeedSpec`) |
| `feed_live` | 1 connection slot used again and again, browsers that stall and resume, a failing watcher | `FeedConverges`, `DeadConnectionsForgotten`, `ClientsLockReleased`, `ConnectionServed` |
| `feed_norefresh` | as above, `refresh_interval_sec` 0 | **violation** of `FeedConverges` |
| `feed_bad_upgrade` | 2 slots, a request that cannot be upgraded | **violation** of `FeedConverges` |
| `tracker` | 2 clients, one with an identifier that does not parse, 2 readers, 1 stop, 5 instants | `ContactTracked`, `PurgeSparesRecent`, `PurgeReportFaithful`, `OldRowsForgotten`, and that the database implements `ClientHistory` (`HistorySpec`) |
| `tracker_local_time` | time zone 2 ticks east of UTC | **violation** of `PurgeSparesRecent` |
| `tracker_busy` | 1 reader | **violation** of `EveryContactStored` |
| `history` | 1 client, 6 instants, threshold and purge age of 2, 1 restart of dnsmasq by s6, any number of starts | `GhostsOnlyAfterRespawn`, `NoWrongEpoch`, `NotesTruthful`, `ListedWhereItBelongs`, `HistorySpec` |
| `history_respawn` | the same | **violation** of `StartupEventsIgnored` |
| `options` | 32 addresses, 8 of them IPv4, 2 entries per section | `PoolsCoherent`, `PoolSizeExact`, `StaticAsReserved`, `NameKept`, `LinksBelong`, `PurgeAsConfigured` |
| `options_32bit` | the same, `int` of 32 bits | **violation** of `PurgeAsConfigured` |
| `page` | 4 worlds, 2 messages under way, with and without a refresh interval | `ViewCoherent`, `LiveIsEarned`, `NumbersAnswered`, `RowsStayOpen`, `DeadPageMarked`, `PageConverges` |

Why the bounds are enough:

- *Feed.* Two connections are enough for two writers, for a handler against the broadcaster and for one connection that blocks
  another. The two lists share no lease and none of their parts is a list, so a half-built one is noticed. Connections and leases of
  one list are interchangeable, which `feed_safety` uses as symmetry; the runs with liveness do not, and have one slot to stay small:
  the slot's successive connections overlap with broadcasts that were composed for earlier ones. That one connection can keep
  another one waiting is in `feed_safety` and in `feed_bad_upgrade`, with two.
- *Tracker.* The clients meet only in the purge (one row that does not parse spoils it for the other) and in the script, which runs
  once at a time. With a purge age of 2, five instants let a row grow old, be purged and be stored again.
- *History.* The clients do not share state other than the clock, the epochs and the row that does not parse. Starting
  and stopping takes a tick, so six instants hold up to five runs of the add-on.
- *Options.* Two entries are enough for every pair of overlapping, disjoint or equal ranges and of reservations with the same
  address, the same client, both or neither: `(mac1, 9)` followed by `(mac2, 9)` is the case in which the maps differ. The entries contain every order of start, end and gateway, both families, mixed
  ones, and netmasks of every kind. `MaxInt64` is 6, so that a range and a sum exceed it. Duplicate friendly names and
  names that agree with a host name are among the entries, and link templates of both kinds in both sections. The durations include
`400y`, `-600y`, `200y200y` and a number too large to be read.
- *Page.* Between the four worlds a lease is renewed (only times change), a client moves between the tables or from its reserved
  address into the pool, of 3 addresses so that its usage is rounded up and down, the
  number of rows changes, and queries fail in each way. Two messages under way are those of the two goroutines that send. Reloads,
  restarts of the backend and changes of the world are not bounded.

`StartupEventsIgnored`, `EveryContactStored` are the strong forms of `GhostsOnlyAfterRespawn` and `ContactTracked`: what the comments
of the code say, and what the code keeps to. The exceptions named in the weaker ones are exactly the ones found.

## 4. Fairness

- *UIBackend.* Go's scheduler runs every goroutine that can run: weak fairness of each. `sync.Mutex` hands over to a waiter that
  starved for a millisecond, and `select` chooses among ready cases at random: strong fairness of the actions that take a lock
  and of the broadcaster's receive. Nothing is assumed of dnsmasq, of browsers or of the network; `FeedConverges` assumes that
  the lease file eventually rests. A write to a browser that does not read has no deadline, so all four properties have the hypothesis
  `WritesReturn`, that no write is stuck for ever: the browser resumes or leaves. While it is stuck everybody waits for it.
- *TrackerDB.* A script that was started, a cursor that was opened and the purge goroutine go on: weak fairness. DELETE is strongly
  fair: the driver polls the lock for 5 s while cursors last milliseconds. No contact and no stop is owed.
- *PastClients.* The backend's goroutines go on, and its ticker composes a message again and again (weak fairness). No start, stop
  or contact is owed.
- *WebPage.* The two goroutines and the browser go on, and a backend that is up answers a request (weak fairness). No change, reload
  or start is owed, and a connection may always end or be cut: `PageConverges` is about pages whose connection lasts, with
  a refresh interval, when the world has come to rest.
- *AddonOptions* has safety properties only and no fairness.

## 5. The proofs

Every theorem holds for all values of the constants that satisfy the named assumptions, which TLC evaluates in the runs.

| Module | Theorem | Says |
| --- | --- | --- |
| `UIBackendProofs` | `TypeCorrect`, `InvCorrect` | the types, and the inductive invariant `Inv` |
| | `SnapshotsAreWhole`, `WritersExclusive`, `ServedAreRegistered` | three invariants of `feed_safety` |
| | `NobodyWaitsInACircle`, `ChangesAreNotLost` | `NoCircularWait` and `NoChangeLost` |
| | `RangeIsUndisturbed` | its action property |
| | `FeedImplementsLiveView` | `Spec => FeedSpec`, the refinement |
| `TrackerDBProofs` | `TypeCorrect`, `InvCorrect` | the types, and the inductive invariant, unless the zone is east of UTC |
| | `ContactsAreTracked`, `PurgeIsSparing`, `PurgeReportIsFaithful` | the safety properties of `tracker` |
| | `TrackerImplementsHistory` | `Spec => HistorySpec`, unless the zone is east of UTC |
| `PastClientsProofs` | `TypeCorrect`, `InvCorrect`, `GhostInvCorrect` | the types and the inductive invariants |
| | `EpochsAgree`, `GhostsNeedARespawn`, `NotesAreTruthful` | the safety properties of `history`; the last two assume `Prompt` |
| | `HistorySurvivesRestarts` | `Spec => HistorySpec` |
| `AddonOptionsProofs` | `TypeCorrect`, `PoolsAreCoherent`, `StaticIsAsReserved` | the types, and two invariants of `options` |
| | `NameIsKept` | `NameKept`, if no reservation is named like dnsmasq's marker `*` |
| | `LinksAreOwn` | `LinksBelong` |
| | `PoolSizeIsExact` | `PoolSizeExact` |
| | `PurgesAsConfigured` | `PurgeAsConfigured`, if `int` has 64 bits: for every text up to 292 years |
| | `PurgesWithinSeconds` | if `int` has 32 bits: the purge age is at most 2.15 s for each quantity of its text, so that it takes 28 of them to configure a minute |
| `IpPoolProofs` | `DisjointSize` | the size of any number of disjoint ranges, in an `int64` that does not overflow |
| `DurationsProofs` | `ParsedExactly` | with 64 bits `parseDuration` computes what a text means, for any number of quantities that add up to 292 years at most |
| | `ParsedToSeconds` | the bound of `PurgesWithinSeconds`, for up to 2^30 quantities: a text of two gigabytes would wrap the sum as well |
| `WebPageProofs` | `TypeCorrect` | the types |
| | `PageShowsLastMessage`, `LiveOnlyWhenConnected`, `RowsAreLeftOpen` | `ViewCoherent`, `LiveIsEarned`, `RowsStayOpen` |
| | `NumbersAreAnswered` | `NumbersAnswered` |
| `Induction` | `SmallestNumber`, `NatSetInduction`, `IndexInduction`, `IndexRecursion` | induction over `Nat` and over indices, and the existence of functions that are defined by recursion over them |

The arguments:

- *Feed.* None of the invariants is inductive alone. `SnapshotWhole` needs `DataInv`: the lock is held exactly while the list is
  being filled, what is filled is part of the batch, and outside of it the data is a list of `Files`. That in turn needs `BootInv`:
  before the baseline nothing runs that could copy the empty data. `OneWriter` and `RangeUndisturbed` follow from `LockInv`, which says
  who holds `clientsLock` in terms of the program counters, a handler that panicked included. `RegisteredWhileServed` is
  strengthened to hold from the registration on. The refinement maps each action to a step of `LiveView` or a stutter; the only steps
  that are not obvious are those that move lists through the pipe (`PipeShapes`) and those that send a message, where
  `DraftInv` gives that there is one. `NobodyWaitsInACircle` follows from `LockInv` and `DataInv` by one observation, `HoldersDoNotWait`:
  who holds a lock waits for nobody, so that no wait for a lock is part of a circle, and the channels alone are a chain from the watcher
  to the broadcaster. `NoChangeLost` is inductive with `DataInv`, which says that a finished rebuild is the whole batch.
- *Tracker.* `PurgeInv` relates the threshold of a running purge to the clock it read and the rows it selected to those its
  DELETE will find: a row it selected is either still deleted or was stored again since. `ScriptInv` bounds the age of
  the stamp the script carries, so that what it stores is what was contacted.
- *History.* `EpochInv` orders the epochs (rows up to the start epoch, backend equal to it while up, the start epoch strictly before now
  while the add-on is down), from which a new run's epoch is later than every row of an earlier run. `HeardInv` says that a row with
  an older epoch whose last contact was stored was not heard since. `GhostInv` carries the time that is left for announcements.
- *Options.* `PoolsAreCoherent` rests on `AcceptedCoherent`: blocks of a netmask are intervals (`BlocksConvex`), so what lies between two
  addresses of a block lies in it, and start and end of one family leave no room for the other one, because the private IPv6 addresses
  are above the IPv4 block. `StaticIsAsReserved` and `LinksAreOwn` follow from `MapsInv`: the map by address
  has one entry per address, every entry of both maps is a reservation that was read, and every such reservation has its address in
  the one map and its client in the other.
  `PoolSizeIsExact` and `PurgesAsConfigured` have small invariants (`PoolsAccepted`, every range of the pool passed the checks;
  `DurationInv`, a serving backend purges by what was parsed) and large lemmas, about sums over sequences of any length; see below.
  `NameIsKept` needs no induction: the rules for current and past clients agree on every state of the maps.
- *Refinements of the history.* `RowsInv` says that no row is younger than the client's last contact; with `PurgeInv`, a
  DELETE is a `Forget` at the instant at which the purge computed its threshold. East of UTC it is not, and the theorem excludes it. In
  `PastClients` every run of the script is a `Store` or a `Miss`, and starts, reboots and respawns are stutters.
- *Page.* `RedrawnExact`: if two tables of equal length agree in all columns but one, exchanging the cells of that one
  gives the new table. With it, `ViewInv` (the page before any message is blank, and after one it is that message) is inductive for
  every world. Its part `ServersInv` says that the servers in the page are those of one answer, if not of the last one then of an
  earlier one, and with it `NumbersAreAnswered` follows. `RowsAreLeftOpen` goes the other way: rows with the same names pass the comparison.

- *Data.* The sums of `PoolSize`, `parseDuration` and `Minutes` and the filter of `UpstreamServers` are recursive functions over the
  indices of a sequence. The induction theorems of the library take an operator, which the provers cannot instantiate, so `Induction` states the
  same for sets: a set with 0 and the successor of each of its indices has all of them (`IndexInduction`), which follows from the least element
  of a set of numbers. `IndexRecursion` gives that the function which a recursive definition chooses exists, and from there `PoolSizeSum`,
  `DurationSum`, `MinutesSum` and `ServersReported` are inductions over the set of indices for which the claim holds. `DisjointSize` then adds the
  cardinalities of intervals; no partial sum exceeds
  what the whole pool contains, so that none of them wraps (`NoWrap`). `ParsedExactly` shows that no partial sum leaves the range of an `int64`, since each is
  at most the whole one. `ParsedToSeconds` bounds each
  quantity by half the range of an `int` of 32 bits (`WrapBounds`), because the multiplication by the hours of the unit wraps as well.

Only model-checked: everything with fairness (`FeedConverges`, `DeadConnectionsForgotten`, `ClientsLockReleased`, `ConnectionServed`,
`OldRowsForgotten`, `ListedWhereItBelongs`, `DeadPageMarked`, `PageConverges`), since the prover has neither fairness nor ENABLED. Every
invariant and every action property that a passing run checks is a theorem.

## 6. Where the code and its promises part

Each is the one property of a `violation` run, quoted with its source under `findings` in `PROJECT.json`.

1. `feed_norefresh` (`uibackend.go:268`): a lease change between the composition of a connection's first message and its registration
   is not shown in that browser, until the next change if the refresh is turned off.
2. `feed_bad_upgrade` (`uibackend.go:262`): a request for `/ws` that is not a WebSocket upgrade leaves `clientsLock` locked, since
   `Fatalf` only logs. No browser is updated any more until the backend restarts.
3. `tracker_local_time` (`trackerdb.go:195`): the purge threshold is local time, the column UTC, and SQLite compares the texts.
4. `tracker_busy` (`dnsmasq-dhcp-script.sh:81`): without a busy timeout the script loses the contacts it cannot write at once.
5. `history_respawn` (`dnsmasq/finish:7`): if s6 restarts a killed dnsmasq, the start-up filter of the script compares with an
   old epoch, and every lease counts as a contact.
6. `options_32bit` (`addon_options.go:93`): where `int` has 32 bits, `1d` turns the purge off and the default `30d` deletes every past
   client at the first purge.

Consequences the models contain but no text of the project contradicts: a browser that stops reading blocks the broadcast to all others
until it resumes or TCP gives up (`WritesReturn`); an error of the watcher freezes the list; a page whose first message arrives before
its tables exist stays empty until the next message, with `refresh_interval_sec` 0 until the next change; a page whose connection is cut
without a sign stays live; a page never connects again; one DHCPv6 identifier that is no MAC
address stops the purge and empties the table of past clients; overlapping ranges are counted twice; the link of a reservation
is shown for whoever holds its address, while its static flag asks for the client too; of two clients for which one address is reserved
only the last is static while it holds it, both are when past; a purge age above 292 years wraps (`400y` turns the purge off, `600y` is
15 years); a lease file that cannot be read makes s6 start the backend for ever.

Seen while reading, in parts that no property is about:

- The loop at `uibackend.go:183-187`, "Make this more clear", replaces the marker `*` in a copy and has no effect: `*` is what
  the page shows.
- A link template may use the variables that `evaluateLink` provides (`uibackend.go:517-523`), which do not include the `name` that
  `src/DOCS.md:219` lists.
- `dnsmasq-dhcp.js:111` registers the order `custom-time-order`, line 126 asks for `custom-date-order`.
- `NewUIBackend` returns an empty `UIBackend`, with a nil logger, if it cannot open the start epoch (`uibackend.go:104-105`):
  `ListenAndServe` then ends in a nil dereference rather than in the error that was logged. A Go panic exits with status 2, so
  `backend/finish` halts the add-on instead of starting the backend again.

## 7. What is not modelled

- Sorting, JSON, HTML, the formatting of times and all other formatting; tabs, colours and the user's sorting in the page; messages
  of another shape than this backend's, for which `processWebSocketEvent` has branches.
- `readAddonConfig` (the version shown in the page) and the other settings that are copied into the page once.
- Resolution of NTP and DNS host names and the template of `dnsmasq.conf` in `dnsmasq-init`: texts computed once from the options.
- nginx, the log helper, packaging, the configuration schema.
- `GetDhcpClient`, `TrackNewDhcpClient` and `NewTestDB` of `trackerdb.go`, which only unit tests use.

## 8. Plan

Done: the feed and its refinement, the tracker DB, the history across restarts, the options and the pools, the abstract history and its
two refinements, liveness of the feed under stalled browsers and a failing watcher, the DNS statistics and the page, each with its
proofs.

To come, most important first:

1. The sending side of `WebPage` as a refinement of `LiveView`'s connections, so that "two goroutines that send a world" is shown too.
2. Liveness of the feed with two connections, which needs a smaller model of the rebuild.
3. A second client in `history`.
4. Proofs: that a rejected option never serves; how much overlapping ranges are counted too often; bounds on what a purge of
   the tracker leaves behind.
