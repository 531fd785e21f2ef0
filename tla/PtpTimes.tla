------------------------------ MODULE PtpTimes ------------------------------
(***************************************************************************)
(* The times of PTP: rav::ptp::Timestamp and rav::ptp::TimeInterval, each  *)
(* with its seconds apart from the rest, and how they are added, scaled,   *)
(* written on the wire and turned into RTP timestamps.                     *)
(*                                                                         *)
(* What the code computes as a double in seconds is a whole number of      *)
(* nanoseconds here: a double has room for a quarter of a microsecond next *)
(* to today's seconds.                                                     *)
(***************************************************************************)
EXTENDS Numbers

CONSTANTS
  Second,          \* nanoseconds in a second, 10^9
  FractionScale,   \* k_fractional_scale, 2^16
  WireLimit,       \* int64_t is -WireLimit - 1 .. WireLimit
  RtpModulus       \* RTP timestamps in packets are modulo 2^32

ASSUME TimeAssumption ==
  /\ Second \in Nat \ {0} /\ FractionScale \in Nat \ {0}
  /\ WireLimit \in Nat /\ RtpModulus \in Nat \ {0}

Magnitude(n) == IF n < 0 THEN -n ELSE n

\* A number in an int64_t; what overflows wraps.
Fits(n) == -WireLimit - 1 <= n /\ n <= WireLimit
Int64(n) == ((n + WireLimit + 1) % (2 * (WireLimit + 1))) - WireLimit - 1

-----------------------------------------------------------------------------
(* TimeInterval: seconds, and fractions of nanoseconds.                     *)

SecondFractions == Second * FractionScale

\* Mutant of Interval: a negative rest that is whole seconds borrows one too many.
IntervalBorrowing(seconds, fractions) ==
  LET borrow == Magnitude(Quotient(fractions, SecondFractions)) + 1
  IN  IF fractions \in 0..(SecondFractions - 1) THEN [seconds |-> seconds, fractions |-> fractions]
      ELSE IF fractions > 0
      THEN [seconds |-> seconds + fractions \div SecondFractions, fractions |-> fractions % SecondFractions]
      ELSE [seconds |-> seconds - borrow, fractions |-> fractions + borrow * SecondFractions]

\* normalize: seconds are carried, or borrowed until the rest is not negative.
Interval(seconds, fractions) ==
  LET carry == Quotient(fractions, SecondFractions)
      borrow == Magnitude(carry) + (IF Remainder(fractions, SecondFractions) # 0 THEN 1 ELSE 0)
  IN  IF fractions >= SecondFractions
      THEN [seconds |-> seconds + carry, fractions |-> fractions - carry * SecondFractions]
      ELSE IF fractions < 0
      THEN [seconds |-> seconds - borrow, fractions |-> fractions + borrow * SecondFractions]
      ELSE [seconds |-> seconds, fractions |-> fractions]

\* from_wire_format
FromWireFormat(value) ==
  LET nanos == value \div FractionScale
      seconds == Quotient(nanos, Second)
  IN  Interval(seconds, ((nanos - seconds * Second) * FractionScale) + (value % FractionScale))

\* to_wire_format: the limit when the seconds alone go beyond it.
ToWireFormat(i) ==
  LET Times(a, n) == AfterError(a, SafeProduct(-WireLimit - 1, WireLimit, a.value, n))
      seconds == Times(Times(Good(i.seconds), Second), FractionScale)
      sum == AfterError(seconds, SafeSum(-WireLimit - 1, WireLimit, seconds.value, i.fractions))
  IN  CASE sum.error = "overflow" -> WireLimit
        [] sum.error = "underflow" -> -WireLimit - 1
        [] OTHER -> sum.value

\* operator+ and operator-
Plus(a, b) == Interval(a.seconds + b.seconds, a.fractions + b.fractions)
Minus(a, b) == Interval(a.seconds - b.seconds, a.fractions - b.fractions)

\* operator*: the fraction of a nanosecond is multiplied by the magnitude of a factor.
Fraction(i) == i.fractions % FractionScale
FractionsTimes(i, n) == (i.fractions - Fraction(i)) * n + Fraction(i) * Magnitude(n)
Multiplied(i, n) == Interval(Int64(i.seconds * n), Int64(FractionsTimes(i, n)))

\* operator/: what is left of the seconds is divided with the fractions.
FractionsToDivide(i, n) == i.fractions + Remainder(i.seconds, n) * SecondFractions
Divided(i, n) == Interval(Quotient(i.seconds, n), Quotient(Int64(FractionsToDivide(i, n)), n))

\* total_nanos, and total_seconds_double in whole nanoseconds
TotalNanos(i) == i.seconds * Second + i.fractions \div FractionScale

\* nanos_rounded
NanosRounded(i) ==
  i.fractions \div FractionScale + (IF Fraction(i) >= FractionScale \div 2 THEN 1 ELSE 0)

-----------------------------------------------------------------------------
(* Timestamp: seconds and nanoseconds, which are not negative.              *)

NoTimestamp == [seconds |-> 0, nanos |-> 0]

\* Timestamp(nanos), and to_seconds_double
FromNanos(n) == [seconds |-> n \div Second, nanos |-> n % Second]
Nanos(ts) == ts.seconds * Second + ts.nanos

\* operator< and the others, which are made of it
IsEarlier(a, b) == a.seconds < b.seconds \/ (a.seconds = b.seconds /\ a.nanos < b.nanos)

\* Nanoseconds that make a second are carried.
Carried(seconds, nanos) ==
  IF nanos >= Second THEN [seconds |-> seconds + 1, nanos |-> nanos - Second] ELSE [seconds |-> seconds, nanos |-> nanos]

\* add: of the interval only whole nanoseconds.
AddInterval(ts, i) ==
  LET nanos == ts.nanos + i.fractions \div FractionScale
      carried == Carried(ts.seconds, nanos)
  IN  IF i.seconds >= 0 THEN Carried(ts.seconds + i.seconds, nanos)
      ELSE IF -i.seconds > carried.seconds THEN NoTimestamp
      ELSE [carried EXCEPT !.seconds = @ + i.seconds]

\* add_seconds, of a number of nanoseconds: time does not go below zero.
AddNanos(ts, n) ==
  LET seconds == Magnitude(Quotient(n, Second))
      nanos == Magnitude(Remainder(n, Second))
      borrow == IF nanos > ts.nanos THEN 1 ELSE 0
  IN  IF n >= 0 THEN Carried(ts.seconds + seconds, ts.nanos + nanos)
      ELSE IF borrow > ts.seconds \/ seconds > ts.seconds - borrow THEN NoTimestamp
      ELSE [seconds |-> ts.seconds - borrow - seconds, nanos |-> ts.nanos + borrow * Second - nanos]

\* to_time_interval, and operator+ and operator- of two timestamps
ToInterval(ts) == Interval(ts.seconds, ts.nanos * FractionScale)
Difference(a, b) == Minus(ToInterval(a), ToInterval(b))

\* to_rtp_timestamp and to_rtp_timestamp32
ToRtp(ts, rate) == ts.seconds * rate + (ts.nanos * rate) \div Second
ToRtp32(ts, rate) == ToRtp(ts, rate) % RtpModulus

\* from_rtp_timestamp, and from_rtp_timestamp32 with the upper half of a time now
FromRtp(samples, rate) == FromNanos((samples * Second) \div rate)
FromRtp32(ts, samples, rate) == FromRtp(ToRtp(ts, rate) - ToRtp32(ts, rate) + samples, rate)

-----------------------------------------------------------------------------
(* On the wire: write_to and from_data of a timestamp, and a correction     *)
(* field, which is an interval.                                             *)

TimestampSize == 10
ShowTimestamp(ts) == BigEndian(ts.seconds, 6) \o BigEndian(ts.nanos, 4)
ReadTimestamp(data, offset) ==
  [seconds |-> ReadUnsigned(data, offset, 6), nanos |-> ReadUnsigned(data, offset + 6, 4)]

Correction(field) == TotalNanos(FromWireFormat(field))
=============================================================================
