------------------------- MODULE AddonOptionsProofs -------------------------
(***************************************************************************)
(* What TLAPS proves of the options, for any numbers of addresses and any  *)
(* options of any length: the type invariant, that accepted ranges lie in  *)
(* the networks they are configured for and are counted right, that the    *)
(* purge age is what the option says up to the range of an int64 (and      *)
(* counts seconds with an int of 32 bits), that the two maps of the        *)
(* reservations tell who has one, and that names and links are the         *)
(* client's own.                                                           *)
(***************************************************************************)
EXTENDS AddonOptions, IpPoolProofs, DurationsProofs, TLAPS

USE DEF NoIP, Addresses

\* The addresses of an accepted range, and its gateway, share its network.
LEMMA AcceptedCoherent ==
  ASSUME NEW nw \in Networks, Accepted(nw) PROVE Coherent(nw)
<1> USE Numbers
<1>1. /\ nw.start \in Private /\ nw.end \in Private /\ nw.gateway \in Private
      /\ nw.start < nw.end
      /\ NetContains(nw, nw.end) /\ NetContains(nw, nw.gateway)
  BY DEF Accepted, IsValid, HasValidIPs, HasValidGateway, Networks
<1>2. /\ nw.start \in Nat /\ nw.end \in Nat /\ nw.gateway \in Nat
      /\ Block(nw) \in Nat \ {0}
  <2>1. /\ nw.start \in 0 .. V6Size - 1 /\ nw.end \in 0 .. V6Size - 1
        /\ nw.gateway \in 0 .. V6Size - 1
        /\ V4Size \in Nat \ {0} /\ V6Size \in Nat \ {0}
    BY <1>1, Zenon
  <2>2. nw.mask \in Masks
    BY DEF Networks
  <2>3. nw.mask.block \in 1 .. V4Size \/ nw.mask.block \in 1 .. V6Size
    BY <2>2, Zenon DEF Masks
  <2>4. nw.mask.block \in Nat \ {0}
    BY <2>1, <2>3
  <2>5. QED
    BY <2>1, <2>4 DEF Block
<1>3. SUFFICES ASSUME NEW ip \in Addresses, Contains(nw, ip)
               PROVE  /\ IsV4(ip) <=> IsV4(nw.gateway)
                      /\ NetContains(nw, ip)
                      /\ NetContains([nw EXCEPT !.start = ip], nw.gateway)
  BY DEF Coherent
<1>4. ip \in Nat /\ nw.start <= ip /\ ip <= nw.end
  BY <1>1, <1>2, <1>3 DEF Contains
<1>5. IsV4(ip) <=> IsV4(nw.start)
  BY <1>1, <1>2, <1>4 DEF NetContains, IsV4, IPv4
<1>6. ip \div Block(nw) = nw.start \div Block(nw)
  BY <1>1, <1>2, <1>4, BlocksConvex DEF NetContains
<1>7. NetContains(nw, ip)
  BY <1>1, <1>2, <1>4, <1>5, <1>6 DEF NetContains
<1>8. NetContains([nw EXCEPT !.start = ip], nw.gateway)
  <2> DEFINE at == [nw EXCEPT !.start = ip]
  <2>1. at.start = ip /\ at.mask = nw.mask
    BY DEF Networks
  <2>2. Block(at) = Block(nw)
    BY <2>1, <1>5 DEF Block
  <2>3. QED
    BY <1>1, <1>2, <1>4, <1>5, <1>6, <2>1, <2>2 DEF NetContains
<1>9. QED
  BY <1>1, <1>5, <1>7, <1>8 DEF NetContains

-----------------------------------------------------------------------------
\* What the proofs need of the entries.
LEMMA Entries ==
  PoolEntries \subseteq Networks /\ Ports \subseteq Int /\ MaxEntries \in Nat
BY Zenon, OptionsAssumption

\* The check of the port decides on the next section and changes nothing else.
LEMMA PortStep ==
  ASSUME NEW port \in Ports, CheckPort(port)
  PROVE  /\ section' \in {"reservations", "rejected"}
         /\ UNCHANGED <<entries, dhcpPool, mapVars, forgetVars>>
<1>1. port \in Int
  BY Entries, Zenon
<1>2. ASSUME NEW n \in Int, CheckPort(n)
      PROVE  /\ section' \in {"reservations", "rejected"}
             /\ UNCHANGED <<entries, dhcpPool, mapVars, forgetVars>>
  BY <1>2 DEF CheckPort, Reject
<1>3. QED
  BY <1>1, <1>2, Zenon

USE DEF Next, vars, mapVars, reservationVars, forgetVars

\* Every step keeps the types.
LEMMA TypeStep == ASSUME TypeOK, [Next]_vars PROVE TypeOK'
<1> USE Entries DEF TypeOK, Sections
<1>1. ASSUME NEW nw \in PoolEntries, ReadPool(nw) PROVE TypeOK'
  <2>1. CASE Accepted(nw)
    BY <1>1, <2>1 DEF ReadPool
  <2>2. CASE ~Accepted(nw)
    BY <1>1, <2>2 DEF ReadPool, Reject
  <2>3. QED
    BY <2>1, <2>2
<1>2. ASSUME NEW port \in Ports, CheckPort(port) PROVE TypeOK'
  BY <1>2, PortStep
<1>3. ASSUME NEW e \in ReservationEntries, ReadReservation(e) PROVE TypeOK'
  BY <1>3 DEF ReadReservation, Reject, Usable, HasAddresses, PutByIP, PutByMAC
<1>4. ASSUME NEW e \in NameEntries, ReadFriendlyName(e) PROVE TypeOK'
  BY <1>4 DEF ReadFriendlyName, Reject
<1>5. CASE EndSection
  BY <1>5 DEF EndSection
<1>6. ASSUME NEW d \in DurationOptions, ReadDuration(d) PROVE TypeOK'
  BY <1>6 DEF ReadDuration, Reject
<1>7. CASE Restart
  BY <1>7 DEF Restart
<1>8. CASE UNCHANGED vars
  BY <1>8
<1>9. QED
  BY <1>1, <1>2, <1>3, <1>4, <1>5, <1>6, <1>7, <1>8

\* The variables always have their types.
THEOREM TypeCorrect == Spec => []TypeOK
<1>1. Init => TypeOK
  BY Entries DEF Init, TypeOK, Sections
<1>2. QED
  BY <1>1, TypeStep, PTL DEF Spec

\* The pool holds nothing but accepted ranges, whatever is being read.
PoolsAccepted == \A i \in DOMAIN dhcpPool : Accepted(dhcpPool[i])

\* Only an accepted range is added, and a start begins with none.
LEMMA PoolsStep ==
  ASSUME TypeOK, PoolsAccepted, [Next]_vars PROVE PoolsAccepted'
<1>1. ASSUME NEW nw \in PoolEntries, ReadPool(nw), Accepted(nw)
      PROVE  PoolsAccepted'
  <2>1. dhcpPool' = Append(dhcpPool, nw)
    BY <1>1 DEF ReadPool
  <2>2. dhcpPool \in Seq(PoolEntries)
    BY DEF TypeOK
  <2>3. \A i \in DOMAIN dhcpPool' :
          dhcpPool'[i] = nw \/ (i \in DOMAIN dhcpPool /\ dhcpPool'[i] = dhcpPool[i])
    BY <2>1, <2>2
  <2>4. QED
    BY <1>1, <2>3, Zenon DEF PoolsAccepted
<1>2. ASSUME NEW nw \in PoolEntries, ReadPool(nw), ~Accepted(nw)
      PROVE  PoolsAccepted'
  BY <1>2 DEF ReadPool, Reject, PoolsAccepted
<1>3. CASE Restart
  BY <1>3 DEF Restart, PoolsAccepted
<1>4. ASSUME dhcpPool' = dhcpPool PROVE PoolsAccepted'
  BY <1>4 DEF PoolsAccepted
<1>5. ASSUME NEW port \in Ports, CheckPort(port) PROVE dhcpPool' = dhcpPool
  BY <1>5, PortStep
<1>6. ASSUME NEW e \in ReservationEntries, ReadReservation(e)
      PROVE  dhcpPool' = dhcpPool
  BY <1>6 DEF ReadReservation, Reject
<1>7. ASSUME NEW e \in NameEntries, ReadFriendlyName(e)
      PROVE  dhcpPool' = dhcpPool
  BY <1>7 DEF ReadFriendlyName, Reject
<1>8. ASSUME EndSection PROVE dhcpPool' = dhcpPool
  BY <1>8 DEF EndSection
<1>9. ASSUME NEW d \in DurationOptions, ReadDuration(d)
      PROVE  dhcpPool' = dhcpPool
  BY <1>9 DEF ReadDuration, Reject
<1>10. ASSUME UNCHANGED vars PROVE dhcpPool' = dhcpPool
  BY <1>10
<1>11. QED
  BY <1>1, <1>2, <1>3, <1>4, <1>5, <1>6, <1>7, <1>8, <1>9, <1>10

\* The ranges of the pool are networks that were accepted.
LEMMA PoolsCorrect == Spec => [](TypeOK /\ PoolsAccepted)
<1>1. Init => PoolsAccepted
  BY DEF Init, PoolsAccepted
<1>2. TypeOK /\ PoolsAccepted /\ [Next]_vars => PoolsAccepted'
  BY PoolsStep
<1>3. QED
  BY <1>1, <1>2, TypeCorrect, PTL DEF Spec

\* The pool as a sequence of networks.
LEMMA PoolType ==
  ASSUME TypeOK, PoolsAccepted
  PROVE  /\ dhcpPool \in Seq(Networks)
         /\ \A i \in DOMAIN dhcpPool : dhcpPool[i] \in Networks /\ IsValid(dhcpPool[i])
<1>1. dhcpPool \in Seq(PoolEntries) /\ PoolEntries \subseteq Networks
  BY Entries DEF TypeOK
<1>2. \A i \in DOMAIN dhcpPool : IsValid(dhcpPool[i])
  BY Zenon DEF PoolsAccepted, Accepted
<1>3. QED
  BY <1>1, <1>2

\* All addresses of the pool lie in the networks they are configured for.
THEOREM PoolsAreCoherent == Spec => []PoolsCoherent
<1>1. TypeOK /\ PoolsAccepted => PoolsCoherent
  BY PoolType, AcceptedCoherent, Zenon DEF PoolsAccepted, PoolsCoherent
<1>2. QED
  BY <1>1, PoolsCorrect, PTL

\* The size that the backend reports for a pool of disjoint ranges is the
\* number of addresses for which it takes a client to be inside the pool,
\* however many ranges there are, as long as it fits an int64.
THEOREM PoolSizeIsExact == Spec => []PoolSizeExact
<1>1. TypeOK /\ PoolsAccepted => PoolSizeExact
  <2> SUFFICES ASSUME TypeOK, PoolsAccepted, Disjoint,
                      Cardinality({ip \in Addresses : PoolContains(dhcpPool, ip)})
                        <= MaxInt64
               PROVE  PoolSize(dhcpPool)
                        = Cardinality({ip \in Addresses : PoolContains(dhcpPool, ip)})
    BY Zenon DEF PoolSizeExact
  <2>1. QED
    BY PoolType, DisjointSize DEF Disjoint
<1>2. QED
  BY <1>1, PoolsCorrect, PTL

\* What makes the maps tell who has a reservation: their entries are
\* reservations that were read, one for each address in byIP; and what was read
\* last for a client, or for an address, is in a map.
OnePerAddress == \A e, f \in byIP : e.ip = f.ip => e = f

MapsInv ==
  /\ OnePerAddress
  /\ byIP \cup byMAC \subseteq reservations
  /\ \A e \in reservations : \E f \in byIP : f.ip = e.ip
  /\ \A e \in reservations : \E f \in byMAC : f.mac = e.mac

\* Every step keeps that; only a reservation and a new start touch the maps.
LEMMA MapsStep == ASSUME MapsInv, [Next]_vars PROVE MapsInv'
<1>1. ASSUME NEW e \in ReservationEntries, ReadReservation(e), Usable(e)
      PROVE  MapsInv'
  <2>1. /\ reservations' = reservations \cup {e}
        /\ byIP' = {f \in byIP : f.ip # e.ip} \cup {e}
        /\ byMAC' = {f \in byMAC : f.mac # e.mac} \cup {e}
    BY <1>1 DEF ReadReservation, PutByIP, PutByMAC
  <2>2. OnePerAddress'
    BY <2>1 DEF OnePerAddress, MapsInv
  <2>3. byIP' \cup byMAC' \subseteq reservations'
    BY <2>1 DEF MapsInv
  <2>4. ASSUME NEW r \in reservations' PROVE \E f \in byIP' : f.ip = r.ip
    BY <2>1 DEF MapsInv
  <2>5. ASSUME NEW r \in reservations' PROVE \E f \in byMAC' : f.mac = r.mac
    BY <2>1 DEF MapsInv
  <2>6. QED
    BY <2>2, <2>3, <2>4, <2>5, Zenon DEF MapsInv
<1>2. CASE Restart
  BY <1>2 DEF Restart, MapsInv, OnePerAddress
<1> DEFINE Kept == UNCHANGED reservationVars
<1>3. ASSUME Kept PROVE MapsInv'
  BY <1>3 DEF MapsInv, OnePerAddress
<1>4. ASSUME NEW e \in ReservationEntries, ReadReservation(e), ~Usable(e)
      PROVE  Kept
  BY <1>4 DEF ReadReservation, Reject
<1>5. ASSUME NEW nw \in PoolEntries, ReadPool(nw) PROVE Kept
  BY <1>5 DEF ReadPool, Reject
<1>6. ASSUME NEW port \in Ports, CheckPort(port) PROVE Kept
  BY <1>6, PortStep
<1>7. ASSUME NEW e \in NameEntries, ReadFriendlyName(e) PROVE Kept
  BY <1>7 DEF ReadFriendlyName, Reject
<1>8. ASSUME EndSection PROVE Kept
  BY <1>8 DEF EndSection
<1>9. ASSUME NEW d \in DurationOptions, ReadDuration(d) PROVE Kept
  BY <1>9 DEF ReadDuration, Reject
<1>10. ASSUME UNCHANGED vars PROVE Kept
  BY <1>10
<1> HIDE DEF MapsInv, Kept
<1>11. QED
  BY <1>1, <1>2, <1>3, <1>4, <1>5, <1>6, <1>7, <1>8, <1>9, <1>10

LEMMA MapsCorrect == Spec => [](TypeOK /\ MapsInv)
<1>1. Init => MapsInv
  BY DEF Init, MapsInv, OnePerAddress
<1>2. MapsInv /\ [Next]_vars => MapsInv'
  BY MapsStep
<1>3. QED
  BY <1>1, <1>2, TypeCorrect, PTL DEF Spec

\* A past client is static if and only if it has a reservation, and a current
\* one if and only if its address is reserved for it, but that an address
\* reserved for several clients makes one of them static only.
THEOREM StaticIsAsReserved == Spec => []StaticAsReserved
<1> DEFINE macs == {e.mac : e \in ReservationEntries}
           ips  == {e.ip : e \in ReservationEntries}
<1>1. ASSUME TypeOK, MapsInv PROVE StaticAsReserved
  <2> USE DEF Reserved, hasIpAddressReservationByIP, hasIpAddressReservationByMAC
  <2>1. \A e \in reservations : e.mac \in macs /\ e.ip \in ips
    <3>1. reservations \subseteq ReservationEntries
      BY <1>1 DEF TypeOK
    <3>2. QED
      BY <3>1
  <2>2. ASSUME NEW mac
        PROVE  hasIpAddressReservationByMAC(mac) <=> \E ip \in ips : Reserved(ip, mac)
    BY <1>1, <2>1 DEF MapsInv
  <2>3. ASSUME NEW mac, NEW ip, hasIpAddressReservationByIP(ip, mac)
        PROVE  /\ Reserved(ip, mac)
               /\ \A other \in macs \ {mac} : ~hasIpAddressReservationByIP(ip, other)
    BY <1>1, <2>3 DEF MapsInv, OnePerAddress
  <2>4. ASSUME NEW mac, NEW ip, Reserved(ip, mac)
        PROVE  \/ hasIpAddressReservationByIP(ip, mac)
               \/ \E other \in macs \ {mac} :
                    Reserved(ip, other) /\ hasIpAddressReservationByIP(ip, other)
    <3>1. PICK f \in byIP : f.ip = ip
      BY <1>1, <2>4 DEF MapsInv
    <3>2. f \in reservations /\ f.mac \in macs
      BY <1>1, <2>1 DEF MapsInv
    <3>3. QED
      BY <3>1, <3>2
  <2> HIDE DEF Reserved, hasIpAddressReservationByIP, hasIpAddressReservationByMAC
  <2>5. QED
    BY <2>2, <2>3, <2>4, Zenon DEF StaticAsReserved
<1>2. QED
  BY <1>1, MapsCorrect, PTL

\* A backend that serves has read a duration, and purges by what it was parsed
\* to.
DurationInv ==
  section = "serving" =>
    /\ forgetOption \in DurationOptions
    /\ forgetAfter = parseDuration(forgetOption.neg, forgetOption.quantities)

\* Every other section is left before the backend serves.
LEMMA DurationStep == ASSUME DurationInv, [Next]_vars PROVE DurationInv'
<1>1. ASSUME NEW d \in DurationOptions, ReadDuration(d) PROVE DurationInv'
  <2>1. CASE Parses(d.quantities)
    BY <1>1, <2>1, Zenon DEF ReadDuration, DurationInv
  <2>2. CASE ~Parses(d.quantities)
    BY <1>1, <2>2 DEF ReadDuration, Reject, DurationInv
  <2>3. QED
    BY <2>1, <2>2
<1> DEFINE NotYet == section' # "serving"
           Kept   == section' = section /\ UNCHANGED forgetVars
<1>2. ASSUME NotYet \/ Kept PROVE DurationInv'
  BY <1>2, Zenon DEF DurationInv
<1>3. ASSUME NEW nw \in PoolEntries, ReadPool(nw) PROVE NotYet
  BY <1>3 DEF ReadPool, Reject
<1>4. ASSUME NEW port \in Ports, CheckPort(port) PROVE NotYet
  BY <1>4, PortStep
<1>5. ASSUME NEW e \in ReservationEntries, ReadReservation(e) PROVE NotYet
  BY <1>5 DEF ReadReservation, Reject
<1>6. ASSUME NEW e \in NameEntries, ReadFriendlyName(e) PROVE NotYet
  BY <1>6 DEF ReadFriendlyName, Reject
<1>7. ASSUME EndSection PROVE NotYet
  BY <1>7 DEF EndSection
<1>8. ASSUME Restart PROVE NotYet
  BY <1>8 DEF Restart
<1>9. ASSUME UNCHANGED vars PROVE Kept
  BY <1>9, Zenon
<1> HIDE DEF NotYet, Kept
<1>10. QED
  BY <1>1, <1>2, <1>3, <1>4, <1>5, <1>6, <1>7, <1>8, <1>9, Zenon

\* With an int of 64 bits past clients are purged after the time that the
\* option says, and never if it says zero or less, for every text whose
\* quantities add up to what an int64 of ns holds, 292 years.
THEOREM PurgesAsConfigured ==
  ASSUME IntBits = 64 PROVE Spec => []PurgeAsConfigured
<1>1. Init => DurationInv
  BY DEF Init, DurationInv
<1>2. DurationInv => PurgeAsConfigured
  <2> SUFFICES ASSUME DurationInv, section = "serving",
                      Minutes(FALSE, forgetOption.quantities) <= HalfMinutes
               PROVE  PurgeAsConfigured
    BY Zenon DEF PurgeAsConfigured
  <2> DEFINE minutes == Minutes(forgetOption.neg, forgetOption.quantities)
  <2>1. forgetOption.neg \in BOOLEAN /\ forgetOption.quantities \in Seq(Quantities)
    BY Zenon, OptionsAssumption DEF DurationInv
  <2>2. forgetAfter = [min |-> minutes, rest |-> 0] /\ minutes \in Int
    BY <2>1, ParsedExactly, Zenon DEF DurationInv
  <2> HIDE DEF minutes
  <2>3. IsPositive(forgetAfter) <=> minutes > 0
    BY <2>2 DEF IsPositive
  <2>4. QED
    BY <2>2, <2>3, Zenon DEF PurgeAsConfigured, minutes
<1>3. QED
  BY <1>1, <1>2, DurationStep, PTL DEF Spec

\* With an int of 32 bits the age at which a serving backend purges is at most
\* 2.15 seconds for each quantity of the option, whatever its numbers and units,
\* so that one quantity never makes an age of a minute.
THEOREM PurgesWithinSeconds ==
  ASSUME IntBits = 32
  PROVE  Spec => [](section = "serving" /\ Len(forgetOption.quantities) <= MaxQuantities =>
           LET limit == Len(forgetOption.quantities) * HalfInt
           IN  \E r \in - limit .. limit : forgetAfter = Duration(0, r))
<1> DEFINE limit == Len(forgetOption.quantities) * HalfInt
           Short == section = "serving" /\ Len(forgetOption.quantities) <= MaxQuantities =>
                      \E r \in - limit .. limit : forgetAfter = Duration(0, r)
<1>1. Init => DurationInv
  BY DEF Init, DurationInv
<1>2. DurationInv => Short
  <2> SUFFICES ASSUME DurationInv, section = "serving",
                      Len(forgetOption.quantities) <= MaxQuantities
               PROVE  \E r \in - limit .. limit : forgetAfter = Duration(0, r)
    OBVIOUS
  <2>1. forgetOption.neg \in BOOLEAN /\ forgetOption.quantities \in Seq(Quantities)
    BY Zenon, OptionsAssumption DEF DurationInv
  <2>2. QED
    BY <2>1, ParsedToSeconds, Zenon DEF DurationInv
<1>3. QED
  BY <1>1, <1>2, DurationStep, PTL DEF Spec

-----------------------------------------------------------------------------
(* What the backend tells of a client.                                     *)

\* The name of a past client is that of the current one, whatever was read.
LEMMA NameOfPast ==
  ASSUME NEW mac, NEW hostname,
         \A e \in byMAC : e.name # Marker,
         \A e \in byMAC : e.mac = mac => e.name = hostname
  PROVE  PastName(mac, IF hostname = Marker THEN "" ELSE hostname) =
           OrNA(getFriendlyNameFor(mac, hostname))
<1> DEFINE past == IF hostname = Marker THEN "" ELSE hostname
           name == getFriendlyNameFor(mac, past)
           reserved == ReservationName(mac)
<1>1. hasIpAddressReservationByMAC(mac) => reserved = hostname /\ hostname # Marker
  BY Zenon DEF hasIpAddressReservationByMAC, ReservationName
<1>2. past # Marker
  BY DEF Marker
<1>3. hostname # Marker => past = hostname
  OBVIOUS
<1>4. name = getFriendlyNameFor(mac, hostname)
  <2>1. CASE HasNameFor(mac)
    BY <2>1, Zenon DEF getFriendlyNameFor
  <2>2. CASE ~HasNameFor(mac)
    BY <1>2, <2>2 DEF getFriendlyNameFor
  <2>3. QED
    BY <2>1, <2>2
<1>5. CASE name = past /\ hasIpAddressReservationByMAC(mac)
  <2>1. PastName(mac, past) = OrNA(reserved)
    BY <1>5, Zenon DEF PastName
  <2>2. reserved = past
    BY <1>1, <1>3, <1>5, Zenon
  <2>3. QED
    BY <1>4, <1>5, <2>1, <2>2, Zenon
<1>6. CASE ~(name = past /\ hasIpAddressReservationByMAC(mac))
  <2>1. PastName(mac, past) = OrNA(name)
    BY <1>6, Zenon DEF PastName
  <2>2. QED
    BY <1>4, <2>1, Zenon
<1>7. QED
  BY <1>5, <1>6, Zenon

\* A client keeps its name when it becomes a past one, if no reservation is
\* called like the marker.
THEOREM NameIsKept ==
  ASSUME \A e \in ReservationEntries : e.name # Marker
  PROVE  Spec => []NameKept
<1>1. TypeOK => NameKept
  <2> SUFFICES ASSUME TypeOK PROVE NameKept
    OBVIOUS
  <2>1. \A e \in byMAC : e.name # Marker
    BY DEF TypeOK
  <2>2. QED
    BY <2>1, NameOfPast, Zenon DEF NameKept
<1>2. QED
  BY <1>1, TypeCorrect, PTL

\* The templates that a link is chosen from.
LEMMA LinkChosen ==
  ASSUME NEW ip, NEW mac, evaluateLink(ip, mac) # NoLink
  PROVE  \/ \E e \in friendlyNames : e.mac = mac /\ e.link = evaluateLink(ip, mac)
         \/ \E e \in byIP : e.ip = ip /\ e.link = evaluateLink(ip, mac)
<1> DEFINE entry == CHOOSE e \in friendlyNames : e.mac = mac
           name  == IF HasNameFor(mac) THEN NameFor(mac) ELSE ""
           links == IF HasNameFor(mac) THEN {entry.link} ELSE AddressLinks(ip, mac)
<1>1. evaluateLink(ip, mac) \in links
  BY Zenon DEF evaluateLink
<1>2. CASE HasNameFor(mac)
  <2>1. entry \in friendlyNames /\ entry.mac = mac
    BY <1>2, Zenon DEF HasNameFor
  <2>2. evaluateLink(ip, mac) = entry.link
    BY <1>1, <1>2, Zenon
  <2>3. QED
    BY <2>1, <2>2, Zenon
<1>3. CASE ~HasNameFor(mac)
  BY <1>1, <1>3, Zenon DEF AddressLinks
<1>4. QED
  BY <1>2, <1>3

\* An address has one reservation, so one template.
LEMMA LinkOfReservation ==
  ASSUME OnePerAddress, NEW e \in byIP, <<e.link, "">> \in GoodLinks,
         ~HasNameFor(e.mac)
  PROVE  evaluateLink(e.ip, e.mac) = e.link
<1>1. \A f \in byIP : f.ip = e.ip => f = e
  BY Zenon DEF OnePerAddress
<1>2. AddressLinks(e.ip, e.mac) = {e.link}
  BY <1>1, Zenon DEF AddressLinks
<1>3. evaluateLink(e.ip, e.mac)
        = IF \E link \in {e.link} : <<link, "">> \in GoodLinks
          THEN CHOOSE link \in {e.link} : <<link, "">> \in GoodLinks
          ELSE NoLink
  BY <1>2, Zenon DEF evaluateLink
<1>4. QED
  BY <1>3, Zenon

\* Links come from the client's entry or the reservation of its address.
THEOREM LinksAreOwn == Spec => []LinksBelong
<1>1. MapsInv => LinksBelong
  BY LinkChosen, LinkOfReservation, Zenon DEF LinksBelong, MapsInv
<1>2. QED
  BY <1>1, MapsCorrect, PTL

=============================================================================
