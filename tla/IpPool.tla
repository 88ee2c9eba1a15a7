------------------------------- MODULE IpPool -------------------------------
(***************************************************************************)
(* The IP ranges of the DHCP pool and the checks of the networks they are  *)
(* configured for (packages ippool and uibackend).                         *)
(*                                                                         *)
(* An address is the number of its 16 bytes; the IPv4 addresses are a      *)
(* block of these numbers, "mapped" into IPv6.  The addresses are scaled   *)
(* down to V6Size and V4Size.                                              *)
(***************************************************************************)
EXTENDS Integers, Sequences, FiniteSets

CONSTANTS
  V6Size,     \* the number of IPv6 addresses
  V4Size,     \* the number of IPv4 addresses
  MappedBase, \* the number of the first IPv4 address
  Private,    \* the addresses of RFC 1918 and RFC 4193
  MaxInt64    \* the largest int64

IPv4 == MappedBase .. MappedBase + V4Size - 1

\* fc00::/7 lies above the IPv4 addresses.
ASSUME AddressAssumption ==
  /\ V6Size \in Nat \ {0} /\ V4Size \in Nat \ {0}
  /\ MappedBase \in Nat /\ MappedBase % V4Size = 0
  /\ MappedBase + V4Size <= V6Size
  /\ Private \subseteq 0 .. V6Size - 1
  /\ \A ip \in Private \ IPv4 : ip > MappedBase
  /\ MaxInt64 \in Nat \ {0}

Addresses == 0 .. V6Size - 1

\* net.ParseIP of a text that is no address: nil.
NoIP == -1

\* net.IP.To4() # nil.
IsV4(ip) == ip \in IPv4

\* A netmask of 4 or 16 bytes, by the size of the blocks that it divides the
\* addresses into.  net.IPMask.Size() finds no ones in /0 and in a mask that
\* is not contiguous: a single block stands for both.
Masks == [v4 : {TRUE}, block : 1 .. V4Size] \cup
         [v4 : {FALSE}, block : 1 .. V6Size]

HasOnes(mask) == mask.block < IF mask.v4 THEN V4Size ELSE V6Size

Networks == [start : Addresses \cup {NoIP}, end : Addresses \cup {NoIP},
             gateway : Addresses \cup {NoIP}, mask : Masks]

-----------------------------------------------------------------------------
(* Slips that the properties must catch.                                   *)

EndUnchecked(nw) ==
  {nw.start, nw.end, nw.gateway} \subseteq Private /\ HasOnes(nw.mask)

SizeOffByOne(r) ==
  IF r.end - r.start > MaxInt64 THEN -1 ELSE r.end - r.start

-----------------------------------------------------------------------------
(* A range.                                                                *)

IsValid(r) == r.start # NoIP /\ r.end # NoIP /\ r.end > r.start

Contains(r, ip) == NoIP \notin {ip, r.start, r.end} /\ ip \in r.start .. r.end

\* Size: -1 for more addresses than fit an int64.
RangeSize(r) ==
  IF r.end - r.start + 1 > MaxInt64 THEN -1 ELSE r.end - r.start + 1

-----------------------------------------------------------------------------
(* A network: net.IPNet{Start, Netmask}.                                   *)

\* The size of its block.  An IPv4 address under a mask of 16 bytes has the
\* last 4 of them.
Block(nw) ==
  IF IsV4(nw.start) /\ nw.mask.block > V4Size THEN V4Size ELSE nw.mask.block

\* net.IPNet.Contains.  No address is in an IPv6 network with an IPv4 mask.
NetContains(nw, ip) ==
  /\ NoIP \notin {nw.start, ip}
  /\ IsV4(ip) <=> IsV4(nw.start)
  /\ nw.mask.v4 => IsV4(nw.start)
  /\ ip \div Block(nw) = nw.start \div Block(nw)

HasValidIPs(nw) ==
  /\ {nw.start, nw.end, nw.gateway} \subseteq Private
  /\ HasOnes(nw.mask)
  /\ NetContains(nw, nw.end)

HasValidGateway(nw) == NetContains(nw, nw.gateway)

-----------------------------------------------------------------------------
(* The pool: a sequence of ranges.                                         *)

PoolContains(pool, ip) == \E i \in DOMAIN pool : Contains(pool[i], ip)

\* Overflow of the int64 sum wraps around.
Wrap64(n) == ((n + MaxInt64 + 1) % (2 * (MaxInt64 + 1))) - (MaxInt64 + 1)

PoolSize(pool) ==
  LET Sum[n \in 0 .. Len(pool)] ==
        IF n = 0 THEN 0 ELSE Wrap64(Sum[n - 1] + RangeSize(pool[n]))
  IN IF \E i \in DOMAIN pool : RangeSize(pool[i]) = -1 THEN -1
     ELSE Sum[Len(pool)]

=============================================================================
