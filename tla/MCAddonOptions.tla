--------------------------- MODULE MCAddonOptions ---------------------------
(***************************************************************************)
(* Instances of AddonOptions for TLC, with 32 addresses of which 8 .. 15   *)
(* are IPv4.                                                               *)
(***************************************************************************)
EXTENDS AddonOptions, TLC

MCPrivate == {9, 10, 11, 13, 14} \cup 24 .. 31

Net(start, end, gateway, v4, block) ==
  [start |-> start, end |-> end, gateway |-> gateway,
   mask |-> [v4 |-> v4, block |-> block]]

\* Every order of addresses, both families and every length of the mask, one
\* gateway per network; then some particular ones.
MCPoolEntries ==
  {Net(s, e, g, v4, block) : s \in {9, 10, 13}, e \in {9, 11, 13, 14}, g \in {10, 13},
                            v4 \in {TRUE}, block \in {2, 4, 8}} \cup
  {Net(s, e, 25, FALSE, block) : s \in {24, 28}, e \in {27, 31}, block \in {4, 8}} \cup
  {Net(NoIP, 9, 10, TRUE, 4), Net(9, NoIP, 10, TRUE, 4), Net(9, 11, NoIP, TRUE, 4),
   Net(9, 27, 10, TRUE, 4), Net(9, 27, 10, FALSE, 16), Net(24, 27, 25, TRUE, 2),
   Net(9, 11, 10, FALSE, 4), Net(9, 13, 10, FALSE, 16), Net(8, 9, 10, TRUE, 4),
   Net(9, 12, 10, TRUE, 4)}

Reservation(mac, ip, name, link) ==
  [mac |-> mac, ip |-> ip, name |-> name, link |-> link]

MCReservationEntries ==
  {Reservation(m, ip, m, "none") : m \in {"mac1", "mac2"}, ip \in {9, 10}} \cup
  {Reservation("mac1", 9, "mac1", "of9"), Reservation("mac1", 10, "mac1", "byName"),
   Reservation(NoMac, 9, "host", "none"), Reservation("mac1", NoIP, "host", "none"),
   Reservation("mac1", 9, "host", "unparsable")}

FriendlyName(mac, name, link) == [mac |-> mac, name |-> name, link |-> link]

MCNameEntries ==
  {FriendlyName("mac1", n, "none") : n \in {"friend", "mac1"}} \cup
  {FriendlyName("mac1", "friend", "byName"), FriendlyName("mac2", "", "byName"),
   FriendlyName(NoMac, "friend", "none"), FriendlyName("mac1", "x", "unparsable")}

\* One template renders the address, the other the friendly name.
MCGoodLinks == {<<"of9", name>> : name \in {"", "friend", "mac1"}} \cup
               {<<"byName", name>> : name \in {"friend", "mac1"}}

MCHostnames == {"mac1", "mac2", "host"}

Q(hours, minutes, unit) == [hours |-> hours, minutes |-> minutes, unit |-> unit]

\* 30d, 1.5h30m, 2.5d, 1y1M, 0, a text without a number, -2w, and beyond 292
\* years 400y, -600y, 200y200y and one quantity that cannot be read.
MCDurationOptions ==
  {[neg |-> FALSE, quantities |-> q] :
     q \in {<<Q(30, 0, "d")>>, <<Q(1, 30, "h"), Q(0, 30, "h")>>, <<Q(2, 30, "d")>>,
            <<Q(1, 0, "y"), Q(1, 0, "M")>>, <<Q(0, 0, "h")>>, <<>>,
            <<Q(400, 0, "y")>>, <<Q(200, 0, "y"), Q(200, 0, "y")>>,
            <<Q(2562048, 0, "h")>>}} \cup
  {[neg |-> TRUE, quantities |-> q] :
     q \in {<<Q(2, 0, "w")>>, <<Q(600, 0, "y")>>}}

=============================================================================
