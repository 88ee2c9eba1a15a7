------------------------------ MODULE Durations ------------------------------
(***************************************************************************)
(* parseDuration of addon_options.go, with the widths of Go's types int    *)
(* and time.Duration.                                                      *)
(*                                                                         *)
(* A text is a sign and a sequence of quantities, each a number with a     *)
(* unit: 2.5d is 2 hours and 30 minutes of unit d, as the code first reads *)
(* it with its unit replaced by h.  A time.Duration, 64 bits of ns, is a   *)
(* number of minutes and a rest below a minute, in units of 2^11 ns:       *)
(* minutes, and all that an overflow adds or takes away, are multiples of  *)
(* it.  Quantities below a minute are left out.                            *)
(***************************************************************************)
EXTENDS Integers, Sequences

CONSTANT IntBits \* the width of int: 64, or 32 on armv7 and i386

ASSUME IntBitsAssumption == IntBits \in {32, 64}

\* The units in a minute of 60e9 ns, and those that 32 bits of ns hold.
Minute      == 29296875
IntUnits    == 2^21
MinuteUnits == Minute % IntUnits
HourUnits   == (60 * Minute) % IntUnits

\* 2^63 ns, that is 292 years, and twice as much, the turn of an int64: each
\* in whole minutes, and the rest in units.
HalfMinutes == 153722867
HalfRest    == 8229871
TurnMinutes == 307445734
TurnRest    == 16459742

\* The hours of the units that time.ParseDuration does not know; "h" stands
\* for those it knows.
unitMap == [h |-> 1, d |-> 24, w |-> 7 * 24, M |-> 30 * 24, y |-> 365 * 24]

Quantities == [hours : Nat, minutes : 0 .. 59, unit : DOMAIN unitMap]

-----------------------------------------------------------------------------
(* Integers of limited width.                                              *)

\* What an int of 32 bits makes of a number of units.
Wrap32(n) == ((n + IntUnits \div 2) % IntUnits) - IntUnits \div 2

Duration(min, rest) == [min |-> min + rest \div Minute, rest |-> rest % Minute]

Below(d, e) == d.min < e.min \/ (d.min = e.min /\ d.rest < e.rest)

IsInt64(d) ==
  /\ Below(d, Duration(HalfMinutes, HalfRest))
  /\ ~Below(d, Duration(-HalfMinutes, -HalfRest))

\* A duration, a number of whole turns earlier.
TurnedBack(d, turns) ==
  Duration(d.min - turns * TurnMinutes, d.rest - turns * TurnRest)

\* What an int64 makes of a duration; the minutes of a turn are its number of
\* turns but for one.
Int64(d) ==
  LET turns == d.min \div TurnMinutes
  IN  IF IsInt64(d) THEN d
      ELSE IF IsInt64(TurnedBack(d, turns)) THEN TurnedBack(d, turns)
      ELSE TurnedBack(d, turns + 1)

-----------------------------------------------------------------------------
(* Slips that the properties must catch.                                   *)

SignForgotten(neg, d) == d

-----------------------------------------------------------------------------
\* time.ParseDuration takes a number of hours and minutes in an int64 of ns.
Readable(q) == 60 * q.hours + q.minutes <= HalfMinutes

\* The texts that parseDuration does not reject: it finds a quantity, and
\* each one can be read.
Parses(quantities) ==
  quantities # <<>> /\ \A i \in DOMAIN quantities : Readable(quantities[i])

\* time.Duration(int(dur) * _hours): the product has the width of int.
Scaled(q) ==
  IF IntBits = 64
  THEN Int64([min |-> (60 * q.hours + q.minutes) * unitMap[q.unit], rest |-> 0])
  ELSE LET int == Wrap32(q.hours * HourUnits + q.minutes * MinuteUnits)
       IN  Duration(0, IF q.unit = "h" THEN int
                       ELSE Wrap32(Wrap32(int * 24) * (unitMap[q.unit] \div 24)))

Sum64(d, e) == Int64(Duration(d.min + e.min, d.rest + e.rest))

Signed(neg, d) == IF neg THEN Int64(Duration(-d.min, -d.rest)) ELSE d

\* The sum is a time.Duration, of 64 bits on every machine.
parseDuration(neg, quantities) ==
  LET Sum[n \in 0 .. Len(quantities)] ==
        IF n = 0 THEN [min |-> 0, rest |-> 0]
        ELSE Sum64(Sum[n - 1], Scaled(quantities[n]))
  IN Signed(neg, Sum[Len(quantities)])

IsPositive(d) == d.min > 0 \/ (d.min = 0 /\ d.rest > 0)

-----------------------------------------------------------------------------
(* The reference: what the text means, in minutes.                         *)

Minutes(neg, quantities) ==
  LET Sum[n \in 0 .. Len(quantities)] ==
        IF n = 0 THEN 0
        ELSE Sum[n - 1] +
             (60 * quantities[n].hours + quantities[n].minutes) *
             unitMap[quantities[n].unit]
  IN IF neg THEN - Sum[Len(quantities)] ELSE Sum[Len(quantities)]

=============================================================================
