---------------------------- MODULE AddonOptions ----------------------------
(***************************************************************************)
(* The add-on options: how the backend reads and validates them at its     *)
(* start (UnmarshalJSON of AddonOptions) and what it derives from them for *)
(* current and past clients (names, static addresses, pool membership).    *)
(*                                                                         *)
(* The options are read section by section and entry by entry; the first   *)
(* invalid entry makes the whole start fail.  s6 then starts the backend   *)
(* again, with the options that the user has stored meanwhile.             *)
(***************************************************************************)
EXTENDS IpPool, Durations

CONSTANTS
  PoolEntries,        \* the entries to choose from in dhcp_pools,
  ReservationEntries, \* ... in dhcp_ip_address_reservations,
  NameEntries,        \* ... and in dhcp_clients_friendly_names
  DurationOptions,    \* the values of forget_past_clients_after
  Ports,              \* the values of web_ui.port
  Hostnames,          \* host names of clients
  GoodLinks,          \* pairs of a link template and the friendly name with
                      \* which it renders a URI, whoever the client is
  MaxEntries          \* bound of the entries of a section

NoMac == "no mac"

\* The marker of dnsmasq for a client without a host name.
Marker == "*"

ASSUME OptionsAssumption ==
  /\ PoolEntries \subseteq Networks
  /\ \A e \in ReservationEntries : e.ip \in Addresses \cup {NoIP}
  /\ \A d \in DurationOptions :
       d.neg \in BOOLEAN /\ d.quantities \in Seq(Quantities)
  /\ Ports \subseteq Int
  /\ {Marker, ""} \cap Hostnames = {}
  /\ \A pair \in GoodLinks : pair[1] \notin {"none", "unparsable"}
  /\ MaxEntries \in Nat

VARIABLES
  section,       \* the section being read, or serving, or rejected
  entries,       \* the entries of the section that were read
  dhcpPool,      \* the networks with their ranges
  reservations,  \* history: the reservations that were read
  byIP,          \* ipAddressReservationsByIP: one entry per address
  byMAC,         \* ipAddressReservationsByMAC: one entry per client
  friendlyNames, \* one entry per client
  forgetOption,  \* the value of forget_past_clients_after
  forgetAfter    \* ... and what it was parsed to

reservationVars == <<reservations, byIP, byMAC>>
mapVars == <<reservationVars, friendlyNames>>
forgetVars == <<forgetOption, forgetAfter>>
vars == <<section, entries, dhcpPool, mapVars, forgetVars>>

Sections == {"pools", "port", "reservations", "names", "duration", "serving",
             "rejected"}

NoDuration == [neg |-> FALSE, quantities |-> <<>>]

HasAddresses(e) == e.ip # NoIP /\ e.mac # NoMac

TypeOK ==
  /\ section \in Sections
  /\ entries \in 0 .. MaxEntries
  /\ dhcpPool \in Seq(PoolEntries)
  /\ reservations \cup byIP \cup byMAC \subseteq
       {e \in ReservationEntries : HasAddresses(e)}
  /\ friendlyNames \subseteq {e \in NameEntries : e.mac # NoMac}
  /\ forgetOption \in DurationOptions \cup {NoDuration}

Init ==
  /\ section = "pools"
  /\ entries = 0
  /\ dhcpPool = <<>>
  /\ reservations = {}
  /\ byIP = {}
  /\ byMAC = {}
  /\ friendlyNames = {}
  /\ forgetOption = NoDuration
  /\ forgetAfter = [min |-> 0, rest |-> 0]

-----------------------------------------------------------------------------
(* Slips that the properties must catch.                                   *)

MacUnchecked(e) == e.ip # NoIP /\ e.link # "unparsable"

\* A second reservation of an address is not entered for its client.
OnlyNewAddresses(e) ==
  IF \E f \in byIP : f.ip = e.ip THEN byMAC
  ELSE {f \in byMAC : f.mac # e.mac} \cup {e}

-----------------------------------------------------------------------------
(* UnmarshalJSON.                                                          *)

\* The address, the MAC address and the link template of an entry.
Usable(e) == e.ip # NoIP /\ e.mac # NoMac /\ e.link # "unparsable"

Reject ==
  /\ section' = "rejected"
  /\ UNCHANGED <<entries, dhcpPool, mapVars, forgetVars>>

Accepted(nw) == IsValid(nw) /\ HasValidIPs(nw) /\ HasValidGateway(nw)

ReadPool(nw) ==
  /\ section = "pools"
  /\ entries < MaxEntries
  /\ IF Accepted(nw)
     THEN /\ dhcpPool' = Append(dhcpPool, nw)
          /\ entries' = entries + 1
          /\ UNCHANGED <<section, mapVars, forgetVars>>
     ELSE Reject

CheckPort(port) ==
  /\ section = "port"
  /\ IF port \in 1 .. 32768
     THEN /\ section' = "reservations"
          /\ UNCHANGED <<entries, dhcpPool, mapVars, forgetVars>>
     ELSE Reject

\* A later entry for the same key replaces an earlier one, in each map.
PutByIP(e)  == {f \in byIP : f.ip # e.ip} \cup {e}
PutByMAC(e) == {f \in byMAC : f.mac # e.mac} \cup {e}

ReadReservation(e) ==
  /\ section = "reservations"
  /\ entries < MaxEntries
  /\ IF Usable(e)
     THEN /\ reservations' = reservations \cup {e}
          /\ byIP' = PutByIP(e)
          /\ byMAC' = PutByMAC(e)
          /\ entries' = entries + 1
          /\ UNCHANGED <<section, dhcpPool, friendlyNames, forgetVars>>
     ELSE Reject

ReadFriendlyName(e) ==
  /\ section = "names"
  /\ entries < MaxEntries
  /\ IF e.mac # NoMac /\ e.link # "unparsable"
     THEN /\ friendlyNames' = {f \in friendlyNames : f.mac # e.mac} \cup {e}
          /\ entries' = entries + 1
          /\ UNCHANGED <<section, dhcpPool, reservationVars, forgetVars>>
     ELSE Reject

\* The end of a list.
EndSection ==
  /\ \/ section = "pools" /\ section' = "port"
     \/ section = "reservations" /\ section' = "names"
     \/ section = "names" /\ section' = "duration"
  /\ entries' = 0
  /\ UNCHANGED <<dhcpPool, mapVars, forgetVars>>

ReadDuration(d) ==
  /\ section = "duration"
  /\ IF Parses(d.quantities)
     THEN /\ forgetOption' = d
          /\ forgetAfter' = parseDuration(d.neg, d.quantities)
          /\ section' = "serving"
          /\ UNCHANGED <<entries, dhcpPool, mapVars>>
     ELSE Reject

\* The backend ends, after a rejection at once, and s6 starts it again.
Restart ==
  /\ section \in {"serving", "rejected"}
  /\ section' = "pools"
  /\ entries' = 0
  /\ dhcpPool' = <<>>
  /\ reservations' = {}
  /\ byIP' = {}
  /\ byMAC' = {}
  /\ friendlyNames' = {}
  /\ forgetOption' = NoDuration
  /\ forgetAfter' = [min |-> 0, rest |-> 0]

Next ==
  \/ \E nw \in PoolEntries : ReadPool(nw)
  \/ \E port \in Ports : CheckPort(port)
  \/ \E e \in ReservationEntries : ReadReservation(e)
  \/ \E e \in NameEntries : ReadFriendlyName(e)
  \/ EndSection
  \/ \E d \in DurationOptions : ReadDuration(d)
  \/ Restart

Spec == Init /\ [][Next]_vars

-----------------------------------------------------------------------------
(* What the backend tells of a client.                                     *)

HasNameFor(mac) == \E e \in friendlyNames : e.mac = mac

NameFor(mac) == (CHOOSE e \in friendlyNames : e.mac = mac).name

getFriendlyNameFor(mac, hostname) ==
  IF HasNameFor(mac) THEN NameFor(mac)
  ELSE IF hostname # Marker THEN hostname ELSE ""

hasIpAddressReservationByIP(ip, mac) ==
  \E e \in byIP : e.ip = ip /\ e.mac = mac

hasIpAddressReservationByMAC(mac) == \E e \in byMAC : e.mac = mac

ReservationName(mac) == (CHOOSE e \in byMAC : e.mac = mac).name

\* What the table of past clients shows instead of an empty name.
OrNA(name) == IF name = "" THEN "N/A" ELSE name

\* The name of a reservation overrides the friendly name as well.
ReservationFirst(mac, hostname) ==
  OrNA(IF hasIpAddressReservationByMAC(mac) THEN ReservationName(mac)
       ELSE getFriendlyNameFor(mac, hostname))

\* The name of a past client: that of its reservation rather than its host's.
PastName(mac, hostname) ==
  LET name == getFriendlyNameFor(mac, hostname) IN
  OrNA(IF name = hostname /\ hasIpAddressReservationByMAC(mac)
       THEN ReservationName(mac)
       ELSE name)

NoLink == "no link"

\* The link of the client's reservation, wherever it has its lease.
ReservationLinks(ip, mac) == {e.link : e \in {f \in byMAC : f.mac = mac}}

\* The templates that the reservation of an address has.
AddressLinks(ip, mac) == {e.link : e \in {f \in byIP : f.ip = ip}}

\* The template of the client's entry among the friendly names, which hides
\* that of its address even if it has none itself; only the former knows the
\* friendly name.
evaluateLink(ip, mac) ==
  LET named == HasNameFor(mac)
      name  == IF named THEN NameFor(mac) ELSE ""
      links == IF named THEN {(CHOOSE e \in friendlyNames : e.mac = mac).link}
               ELSE AddressLinks(ip, mac)
  IN  IF \E link \in links : <<link, name>> \in GoodLinks
      THEN CHOOSE link \in links : <<link, name>> \in GoodLinks
      ELSE NoLink

-----------------------------------------------------------------------------
(* Properties.                                                             *)

Coherent(nw) ==
  \A ip \in Addresses :
    Contains(nw, ip) =>
      /\ IsV4(ip) <=> IsV4(nw.gateway)
      /\ NetContains(nw, ip)
      /\ NetContains([nw EXCEPT !.start = ip], nw.gateway)

\* All addresses of an accepted range belong to one family and to the
\* configured network, as its gateway does.
PoolsCoherent == \A i \in DOMAIN dhcpPool : Coherent(dhcpPool[i])

Disjoint ==
  \A i, j \in DOMAIN dhcpPool :
    i # j => \/ dhcpPool[i].end < dhcpPool[j].start
             \/ dhcpPool[j].end < dhcpPool[i].start

\* The size of a pool of disjoint ranges is the number of addresses for which
\* a client is inside the pool; it is -1 only for too large a range, and
\* wrong only for a sum that does not fit an int64.
PoolSizeExact ==
  LET inside == Cardinality({ip \in Addresses : PoolContains(dhcpPool, ip)}) IN
  Disjoint /\ inside <= MaxInt64 => PoolSize(dhcpPool) = inside

Reserved(ip, mac) == \E e \in reservations : e.ip = ip /\ e.mac = mac

\* What the two maps say is what the options say: a past client is static if
\* and only if an address is reserved for it, a current one if and only if
\* the address it holds is.  An address that is reserved for several clients
\* is the exception, and the only one: then one of them, and no other client,
\* is static while it holds it.
StaticAsReserved ==
  LET macs == {e.mac : e \in ReservationEntries}
      ips  == {e.ip : e \in ReservationEntries}
  IN \A mac \in macs :
       /\ hasIpAddressReservationByMAC(mac) <=> \E ip \in ips : Reserved(ip, mac)
       /\ \A ip \in ips :
            /\ hasIpAddressReservationByIP(ip, mac) =>
                 /\ Reserved(ip, mac)
                 /\ \A other \in macs \ {mac} :
                      ~hasIpAddressReservationByIP(ip, other)
            /\ Reserved(ip, mac) =>
                 \/ hasIpAddressReservationByIP(ip, mac)
                 \/ \E other \in macs \ {mac} :
                      Reserved(ip, other) /\ hasIpAddressReservationByIP(ip, other)

\* A client keeps its name when it becomes a past one, N/A if it had none.
\* dnsmasq names a client by its reservation; it marks a client without a name
\* in its lease file and leaves the name empty for the script.
NameKept ==
  section = "serving" =>
    \A mac \in {e.mac : e \in ReservationEntries \cup NameEntries} \ {NoMac} :
      \A hostname \in Hostnames \cup {Marker} :
        (\A e \in byMAC : e.mac = mac => e.name = hostname) =>
          PastName(mac, IF hostname = Marker THEN "" ELSE hostname) =
            OrNA(getFriendlyNameFor(mac, hostname))

\* A client shows the link of its own entry or of the address it holds, never
\* one that was configured for another client whose address it does not have;
\* at its reserved address it shows that reservation's link, if it is good and
\* no entry among the friendly names hides it.
LinksBelong ==
  section = "serving" =>
    \A mac \in {e.mac : e \in ReservationEntries \cup NameEntries} \ {NoMac} :
      \A ip \in {e.ip : e \in ReservationEntries} \ {NoIP} :
        LET link == evaluateLink(ip, mac) IN
        /\ link # NoLink =>
             \/ \E e \in friendlyNames : e.mac = mac /\ e.link = link
             \/ \E e \in byIP : e.ip = ip /\ e.link = link
        /\ \A e \in byIP :
             /\ e.ip = ip /\ e.mac = mac
             /\ <<e.link, "">> \in GoodLinks
             /\ ~HasNameFor(mac)
             => link = e.link

\* Past clients are purged after the time the option says, and never if it
\* says zero or less, as long as its quantities add up to 292 years at most.
PurgeAsConfigured ==
  section = "serving" /\ Minutes(FALSE, forgetOption.quantities) <= HalfMinutes =>
    LET minutes == Minutes(forgetOption.neg, forgetOption.quantities) IN
    /\ IsPositive(forgetAfter) <=> minutes > 0
    /\ forgetAfter = [min |-> minutes, rest |-> 0]

=============================================================================
