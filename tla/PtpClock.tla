------------------------------ MODULE PtpClock ------------------------------
(***************************************************************************)
(* What a slave port of rav::ptp::Instance follows its master with: the    *)
(* messages as bytes, LocalClock, the statistics of the measured offsets   *)
(* (SlidingStats), the filter of the mean path delay (BasicFilter) and     *)
(* update_local_ptp_clock.                                                 *)
(*                                                                         *)
(* Times are in nanoseconds.                                               *)
(***************************************************************************)
EXTENDS PtpTimes, SequencesExt, FiniteSetsExt

CONSTANT Invalid   \* the result of a message that does not parse

-----------------------------------------------------------------------------
(***************************************************************************)
(* The PTP messages that a port receives, and the one it sends, as bytes:  *)
(* rav::ptp::MessageHeader and the messages that follow it.  Identities    *)
(* are those of IEEE 1588: eight bytes, and the number of a port.          *)
(***************************************************************************)

HeaderSize == 34

MessageTypes ==
  [sync |-> 0, delay_req |-> 1, p_delay_req |-> 2, p_delay_resp |-> 3, follow_up |-> 8, delay_resp |-> 9,
   p_delay_resp_follow_up |-> 10, announce |-> 11, signaling |-> 12, management |-> 13]
TypeOf(number) == IF \E t \in DOMAIN MessageTypes : MessageTypes[t] = number
                  THEN CHOOSE t \in DOMAIN MessageTypes : MessageTypes[t] = number ELSE "reserved"

\* The flags of a header by the octet and the bit that they are read from (from_octets).
FlagBits ==
  [alternate_master_flag |-> <<1, 0>>, two_step_flag |-> <<1, 1>>, unicast_flag |-> <<1, 2>>,
   profile_specific_1 |-> <<1, 5>>, profile_specific_2 |-> <<1, 6>>,
   leap61 |-> <<2, 0>>, leap59 |-> <<2, 1>>, current_utc_offset_valid |-> <<2, 2>>, ptp_timescale |-> <<2, 3>>,
   time_traceable |-> <<2, 4>>, frequency_traceable |-> <<2, 5>>, synchronization_uncertain |-> <<2, 6>>]
FromOctets(octets) == {f \in DOMAIN FlagBits : Bits(octets[FlagBits[f][1]], FlagBits[f][2], 1) = 1}

\* The place of each flag in the number that is written (to_octets).
FlagShifts ==
  [profile_specific_2 |-> 14, profile_specific_1 |-> 13, unicast_flag |-> 10, two_step_flag |-> 9,
   alternate_master_flag |-> 8, synchronization_uncertain |-> 6, frequency_traceable |-> 5, time_traceable |-> 4,
   ptp_timescale |-> 3, current_utc_offset_valid |-> 2, leap59 |-> 1, leap61 |-> 0]
ToOctets(flags) == MapThenSumSet(LAMBDA f : 2^FlagShifts[f], flags)

ShowIdentity(id) == id.clock \o BigEndian(id.port, 2)
ReadIdentity(data, offset) == [clock |-> View(data, offset, 8), port |-> ReadUnsigned(data, offset + 8, 2)]

\* MessageHeader::write_to
ShowHeader(h) ==
  <<((h.sdo.major % 16) * 16) + MessageTypes[h.type], (h.version.minor * 16) + (h.version.major % 16)>>
    \o BigEndian(h.length, 2) \o <<h.domain, h.sdo.minor>> \o BigEndian(ToOctets(h.flags), 2)
    \o BigEndian(h.correction, 8) \o BigEndian(0, 4) \o ShowIdentity(h.source) \o BigEndian(h.seq, 2)
    \o <<0>> \o BigEndian(h.log, 1)

\* MessageHeader::from_data
ReadHeader(data) ==
  IF data = <<>> \/ Len(data) # ReadUnsigned(data, 2, 2)
  THEN Invalid
  ELSE [sdo |-> [major |-> Bits(data[1], 4, 4), minor |-> data[6]], type |-> TypeOf(Bits(data[1], 0, 4)),
        version |-> [major |-> Bits(data[2], 0, 4), minor |-> Bits(data[2], 4, 4)],
        length |-> Len(data), domain |-> data[5], flags |-> FromOctets(View(data, 6, 2)),
        correction |-> ReadSigned(data, 8, 8), source |-> ReadIdentity(data, 20),
        seq |-> ReadUnsigned(data, 30, 2), log |-> ReadSigned(data, 33, 1)]

\* Mutant of Matches: whichever the sequence id.
MatchesSource(h, other) == h.source = other.source

\* MessageHeader::matches
Matches(h, other) == h.source = other.source /\ h.seq = other.seq

\* SyncMessage::write_to: also a Delay_Req, and what masters send (external)
ShowSync(m) == ShowHeader(m.header) \o ShowTimestamp(m.origin)
ShowDelayResp(m) == ShowHeader(m.header) \o ShowTimestamp(m.received) \o ShowIdentity(m.requester)
ShowAnnounce(m) ==
  ShowHeader(m.header) \o ShowTimestamp(m.origin) \o BigEndian(m.utcOffset, 2) \o <<0, m.priority1>>
    \o <<m.quality.class, m.quality.accuracy>> \o BigEndian(m.quality.variance, 2) \o <<m.priority2>>
    \o m.grandmaster \o BigEndian(m.steps, 2) \o <<m.timeSource>>

\* The bodies (SyncMessage::from_data, FollowUpMessage::from_data and so on); a body that is too short is refused.
ReadOrigin(h, body) == IF Len(body) < TimestampSize THEN Invalid ELSE [header |-> h, origin |-> ReadTimestamp(body, 0)]
ReadDelayResp(h, body) ==
  IF Len(body) < TimestampSize + 10 THEN Invalid
  ELSE [header |-> h, received |-> ReadTimestamp(body, 0), requester |-> ReadIdentity(body, TimestampSize)]
ReadAnnounce(h, body) ==
  IF Len(body) < 30 THEN Invalid
  ELSE [header |-> h, origin |-> ReadTimestamp(body, 0), utcOffset |-> ReadSigned(body, 10, 2),
        priority1 |-> body[14],
        quality |-> [class |-> body[15], accuracy |-> body[16], variance |-> ReadUnsigned(body, 16, 2)],
        priority2 |-> body[19], grandmaster |-> View(body, 19, 8), steps |-> ReadUnsigned(body, 27, 2),
        timeSource |-> body[30]]

-----------------------------------------------------------------------------
CONSTANTS
  StatsWindow,           \* measurements in ptp_stats_.offset_from_master, 51
  LockThreshold,         \* k_lock_threshold, 10
  CalibratedThreshold    \* k_calibrated_threshold, 1.8 ms

ASSUME ClockAssumption ==
  StatsWindow \in Nat \ {0} /\ LockThreshold \in Nat /\ CalibratedThreshold \in Nat

\* boost::circular_buffer::push_back: the oldest makes room.
Pushed(elements, size, e) ==
  LET longer == Append(elements, e)
  IN  IF Len(longer) > size THEN Tail(longer) ELSE longer

Total(window) == FoldLeft(+, 0, window)

\* The median of an even number of values is between two of them.
TwiceMedian(window) ==
  LET sorted == SortSeq(window, <)
      n == Len(window)
  IN  IF n = 0 THEN 0 ELSE sorted[(n + 1) \div 2] + sorted[(n + 2) \div 2]

\* is_outlier_median
IsOutlierMedian(window, value, threshold) == Magnitude(2 * value - TwiceMedian(window)) > 2 * threshold

\* is_outlier_zscore(value, 1.75): more than 7/4 standard deviations from the
\* mean.  Both sides are squares, n times as large.
IsOutlierZscore(window, value) ==
  LET n == Len(window)
      variance == n * Total([i \in 1..n |-> window[i] * window[i]]) - Total(window) * Total(window)
      distance == n * value - Total(window)
  IN  variance # 0 /\ 16 * distance * distance > 49 * variance

-----------------------------------------------------------------------------

NewClock == [shift |-> 0, ratio |-> 0, synced |-> 0, adjustments |-> 0, calibrated |-> FALSE, offsets |-> <<>>]

\* What frequency_ratio_ is more than 1, in units of a thousandth of Second^-2: a
\* thousandth of the third power of the offset in seconds.  The limit of a half
\* is beyond the offsets that are adjusted, which are less than a second.
FrequencyRatio(offset) == Quotient(-(offset * offset * offset), Second)

\* What the ratio makes of the time since the last correction, to the nearest nanosecond.
Drift(clock, system) ==
  LET drift == (system - clock.synced) * clock.ratio
      scale == 1000 * Second * Second
  IN  Quotient(drift + (IF drift < 0 THEN -1 ELSE 1) * (scale \div 2), scale)

\* LocalClock::get_adjusted_time
LocalTime(clock, system) == AddNanos(AddNanos(FromNanos(system), Drift(clock, system)), clock.shift)

IsCalibrated(clock) == clock.adjustments >= LockThreshold /\ clock.calibrated

\* adjust; the adjustments are compared with the threshold only.
Adjusted(clock, offset, now) ==
  [clock EXCEPT !.shift = @ - offset, !.ratio = FrequencyRatio(offset), !.synced = now,
                !.adjustments = IF @ < LockThreshold THEN @ + 1 ELSE @]

\* step, and the reset of the statistics that goes with it
Stepped(clock, offset, now) ==
  [shift |-> clock.shift - offset, ratio |-> 0, synced |-> now, adjustments |-> 0, calibrated |-> FALSE, offsets |-> <<>>]

Measured(clock, offset) == [clock EXCEPT !.offsets = Pushed(@, StatsWindow, offset)]

\* k_clock_step_threshold_seconds is one second.
IsStep(offset) == Magnitude(offset) >= Second

\* A measurement that does not move the clock.
IsIgnored(clock, offset) ==
  ~IsStep(offset) /\ IsCalibrated(clock) /\ IsOutlierZscore(Measured(clock, offset).offsets, offset)

WithCalibration(clock) == [clock EXCEPT !.calibrated = Magnitude(TwiceMedian(clock.offsets)) <= 2 * CalibratedThreshold]

\* Mutant of Updated: an outlier is not counted among the measurements.
UpdatedWithoutOutliers(clock, offset, now) ==
  IF IsStep(offset) THEN Stepped(clock, offset, now)
  ELSE IF IsIgnored(clock, offset) THEN clock
  ELSE WithCalibration(Adjusted(Measured(clock, offset), offset, now))

\* update_local_ptp_clock
Updated(clock, offset, now) ==
  IF IsStep(offset) THEN Stepped(clock, offset, now)
  ELSE IF IsIgnored(clock, offset) THEN Measured(clock, offset)
  ELSE WithCalibration(Adjusted(Measured(clock, offset), offset, now))

-----------------------------------------------------------------------------
(***************************************************************************)
(* BasicFilter: its confidence range, and what it makes of a value         *)
(***************************************************************************)

Gain == 10      \* the inverse of gain_
NewRange == Second

Clamped(value, range) == IF value > range THEN range ELSE IF value < -range THEN -range ELSE value

FilterRange(range, value) ==
  IF Magnitude(value) > range THEN 2 * range ELSE range - (range - Magnitude(value)) \div Gain

Filtered(range, value) == Quotient(IF Magnitude(value) > range THEN Clamped(value, 2 * range) ELSE value, Gain)
=============================================================================
