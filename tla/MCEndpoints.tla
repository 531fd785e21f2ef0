---------------------------- MODULE MCEndpoints ----------------------------
(***************************************************************************)
(* Instances for TLC of what happens at the sockets of a node: a PTP port  *)
(* that measures its delay, the sockets of PTP ports, and the sockets and  *)
(* groups of the audio receiver; and of the arithmetic of PTP times.  They *)
(* share nothing, so that a behaviour is about one of them.                *)
(***************************************************************************)
EXTENDS PtpDelay, RtpMembership, UdpSocket

VARIABLES endpoint, sum

\* PtpDelay
Identity(n) == [clock |-> <<0, 1, 2, 255, 254, 3, 4, n>>, port |-> 1]
ThisPort == Identity(0)
TwoMasters == {Identity(1), Identity(2)}
Phases == [m \in TwoMasters |-> IF m = Identity(1) THEN 5000 ELSE 5300]

\* Two masters, the second of which is less than a second ahead.
Jump ==
  [twoStep |-> FALSE, ordered |-> TRUE, slowest |-> 20, lossy |-> FALSE, corrections |-> {0}, waits |-> {0}, logMin |-> 0,
   until |-> 1200, switches |-> 1, breaks |-> 0, copies |-> 0, strays |-> 0]

\* Anything may happen to the messages of a few Syncs.
Disorder ==
  [twoStep |-> TRUE, ordered |-> FALSE, slowest |-> 60, lossy |-> TRUE, corrections |-> {0}, waits |-> {0}, logMin |-> -1,
   until |-> 220, switches |-> 0, breaks |-> 0, copies |-> 1, strays |-> 0]

\* Switches within the network hold messages back and say so.
Resident ==
  [twoStep |-> TRUE, ordered |-> TRUE, slowest |-> 40, lossy |-> FALSE, corrections |-> {0, 20}, waits |-> {0, 60}, logMin |-> -1,
   until |-> 180, switches |-> 0, breaks |-> 0, copies |-> 0, strays |-> 0]

\* Messages for others, and a pause.
Crowd ==
  [twoStep |-> FALSE, ordered |-> TRUE, slowest |-> 40, lossy |-> TRUE, corrections |-> {20}, waits |-> {0}, logMin |-> 1,
   until |-> 140, switches |-> 1, breaks |-> 1, copies |-> 0, strays |-> 1]

AllScenarios == {Jump, Disorder, Resident, Crowd}

\* RtpMembership: two groups, two ports, and a stream without group.
CONSTANTS g1, g2, u, p1, p2, red, blue

Session(group, number) == [group |-> group, port |-> number, multicast |-> group # u]
First == Session(g1, p1)
OtherGroup == Session(g2, p1)
OtherPort == Session(g1, p2)
Unicast == Session(u, p1)

AllSessions == {First, OtherGroup, OtherPort, Unicast}
AllPairs == {<<First, NoSession>>, <<First, First>>, <<OtherGroup, First>>, <<NoSession, OtherPort>>, <<Unicast, NoSession>>}
\* Two networks, one for both streams, or none.
AllInterfaces == {<<red, blue>>, <<blue, red>>, <<red, red>>, <<red, NoInterface>>, <<NoInterface, NoInterface>>}

\* Readers differ in nothing but their ids.
Symmetric == Permutations(Ids)

-----------------------------------------------------------------------------
(***************************************************************************)
(* An application that computes with a time and an interval, and a history *)
(* of the result: what it should be at least and at most, and what it is.  *)
(***************************************************************************)
CONSTANTS TimesUsed, IntervalsUsed, Factors, Rate, MaxSteps

ASSUME OperandAssumption ==
  TimesUsed \subseteq Nat /\ IntervalsUsed \subseteq Int /\ Factors \subseteq Int \ {0} /\ Rate \in Nat \ {0}

\* Around a second and below zero
AllIntervals == {1, 3, 3999, 4000, -4000, -4001}
\* The last is more than int64_t has room for: 32767 are eight seconds.
AllFactors == {2, 3, -2, 7, 12}

Fractions(i) == i.seconds * SecondFractions + i.fractions

StartOfSum ==
  [time |-> NoTimestamp, interval |-> Interval(0, 0), low |-> 0, high |-> 0, is |-> 0, steps |-> 0]

NewTime(ts, low, high) == sum' = [sum EXCEPT !.time = ts, !.low = low, !.high = high, !.is = Nanos(ts), !.steps = @ + 1]
NewInterval(i, low, high) ==
  sum' = [sum EXCEPT !.interval = i, !.low = low, !.high = high, !.is = Fractions(i), !.steps = @ + 1]

Least(n) == Max({0, n})
Limited(n) == Max({-WireLimit - 1, Min({WireLimit, n})})

AddsToTime ==
  \/ LET due == Least(Nanos(sum.time) + TotalNanos(sum.interval)) IN NewTime(AddInterval(sum.time, sum.interval), due, due)
  \/ \E n \in {sign * k : sign \in {1, -1}, k \in TimesUsed} :
       LET due == Least(Nanos(sum.time) + n) IN NewTime(AddNanos(sum.time, n), due, due)

\* By way of an RTP timestamp of 32 bits, as long as the upper half of the time has not changed.
ThroughRtp ==
  \E n \in TimesUsed :
    LET present == FromNanos(n)
    IN  /\ ToRtp(present, Rate) \div RtpModulus = ToRtp(sum.time, Rate) \div RtpModulus
        /\ NewTime(FromRtp32(present, ToRtp32(sum.time, Rate), Rate), Nanos(sum.time) - Second \div Rate - 1, Nanos(sum.time))

\* The fraction of a nanosecond keeps its sign when a factor is negative: the product
\* is too large by twice what the fraction makes.  Nothing is said of what overflows.
MultipliesBy(k) ==
  LET i == sum.interval
      is == Multiplied(i, k)
      misplaced == IF k < 0 THEN 2 * Fraction(i) * Magnitude(k) ELSE 0
      due == IF Fits(i.seconds * k) /\ Fits(FractionsTimes(i, k)) THEN Fractions(i) * k + misplaced ELSE Fractions(is)
  IN  NewInterval(is, due, due)

DividesBy(k) ==
  LET i == sum.interval
      is == Divided(i, k)
      due == IF Fits(FractionsToDivide(i, k)) THEN Quotient(Fractions(i), k) ELSE Fractions(is)
  IN  NewInterval(is, due - 1, due + 1)

Calculates ==
  \/ \E n \in TimesUsed :
       LET due == (Nanos(sum.time) - n) * FractionScale IN NewInterval(Difference(sum.time, FromNanos(n)), due, due)
  \/ \E n \in IntervalsUsed :
       LET i == Interval(0, n)
           plus == Fractions(sum.interval) + n
           minus == Fractions(sum.interval) - n
       IN  NewInterval(Plus(sum.interval, i), plus, plus) \/ NewInterval(Minus(sum.interval, i), minus, minus)
  \/ \E k \in Factors : MultipliesBy(k) \/ DividesBy(k)

\* The limits stand for what does not fit, and for seconds that alone do not.
ThroughWire ==
  LET low == IF sum.interval.seconds * SecondFractions < -WireLimit - 1 THEN -WireLimit - 1 ELSE Limited(Fractions(sum.interval))
  IN  NewInterval(FromWireFormat(ToWireFormat(sum.interval)), low, low)

Computes == sum.steps < MaxSteps /\ (AddsToTime \/ ThroughRtp \/ Calculates \/ ThroughWire)

\* Whatever is computed with times one after the other is what integers would give, but
\* for two operations: the parts are in their ranges, sums and differences are exact, times
\* stop at zero and wire formats at their limits, a quotient misses less than one fraction,
\* and an RTP timestamp less than one sample.  A product is exact for a positive factor;
\* for a negative one it is too large by twice the product of the fraction of a nanosecond,
\* as operator*= gives that the wrong sign.  What overflows int64_t in a product, or in the
\* rest of the seconds that a quotient needs (more than 140 737 of them), is only in its
\* ranges.  (normalize, add, add_seconds, the operators and conversions of Timestamp and
\* TimeInterval)
TimesAreExact ==
  /\ sum.time.seconds >= 0 /\ sum.time.nanos \in 0..(Second - 1)
  /\ sum.interval.fractions \in 0..(SecondFractions - 1)
  /\ sum.low <= sum.is /\ sum.is <= sum.high
  /\ \A n \in TimesUsed : IsEarlier(sum.time, FromNanos(n)) <=> Nanos(sum.time) < n

-----------------------------------------------------------------------------

EndpointsInit ==
  /\ endpoint \in {"port", "receiver", "sockets", "times"}
  /\ Init /\ MembershipInit /\ SocketsInit /\ sum = StartOfSum
  /\ endpoint # "port" => scenario = Jump /\ master.who = Identity(1)

EndpointsNext ==
  /\ UNCHANGED endpoint
  /\ \/ endpoint = "port" /\ Next /\ UNCHANGED <<sum, membershipVars, socketVars>>
     \/ endpoint = "receiver" /\ MembershipNext /\ UNCHANGED <<sum, vars, socketVars>>
     \/ endpoint = "sockets" /\ SocketsNext /\ UNCHANGED <<sum, vars, membershipVars>>
     \/ endpoint = "times" /\ Computes /\ UNCHANGED <<vars, membershipVars, socketVars>>

EndpointsSpec == EndpointsInit /\ [][EndpointsNext]_<<endpoint, sum, vars, membershipVars, socketVars>>
=============================================================================
