------------------------------ MODULE PtpDelay ------------------------------
(***************************************************************************)
(* A port of rav::ptp that follows a master: it measures the delay of the  *)
(* path with requests and responses and sets its clock by every Sync.      *)
(* The masters and the network are the environment; a message is its bytes.*)
(* Which master the port follows is decided in module PtpBmca.             *)
(*                                                                         *)
(* True time is `now`: the system's monotonic clock.  The history says of  *)
(* every message when its Sync was sent and when it arrived, so that what  *)
(* the port works out can be compared with the truth.                      *)
(***************************************************************************)
EXTENDS PtpClock

CONSTANTS
  Masters,           \* the port identities of the masters
  Own,               \* port_ds_.port_identity
  Domain,            \* default_ds_.domain_number, of an instance with sdoId 0
  Phase,             \* how far each master's clock is ahead of the system's
  SyncsUntilFirst,   \* syncs_until_delay_req_ at first, 10
  SyncsKept,         \* the capacity of both ring buffers, 8
  DelaysKept,        \* values in mean_delay_stats_, 31
  FirstCount,        \* values before an outlier is believed to be one, 10
  DelayThreshold,    \* how far an outlier is from the median, 1 ms
  Tick,              \* the resolution of true time
  SyncInterval,      \* of the masters
  PathDelay,         \* the network takes at least this long
  Scenarios          \* what happens around the port, each a record of:
                     \*   twoStep    whether the masters send Follow_Ups
                     \*   ordered    whether messages arrive in the order they were sent
                     \*   slowest    how long the network may take
                     \*   lossy      whether messages may be lost
                     \*   corrections  of the residence times in the network
                     \*   logMin     the log of the request interval that the masters ask for
                     \*   waits      of the random waits before a request
                     \*   until      bound: the end of time
                     \*   switches, breaks, copies, strays  bounds: changes of the
                     \*              parent, times without one, duplicates, messages
                     \*              that are not for this port

ASSUME DelayAssumption ==
  /\ SyncsKept \in Nat \ {0} /\ DelaysKept \in Nat \ {0} /\ FirstCount \in Nat
  /\ Phase \in [Masters -> Nat] /\ Own \notin Masters

VARIABLES
  scenario,   \* the scenario, and what is left of its bounds
  now,
  clock,      \* Instance::local_clock_ and ptp_stats_
  port,       \* the Port: active if slave or uncalibrated
  master,     \* the grandmaster: who, its next sequence id, and the last Sync's time
  wire,       \* messages on their way to the port
  requests,   \* Delay_Reqs on their way to the master
  measured    \* history: the last correction and delay, and the outliers in a row

vars == <<scenario, now, clock, port, master, wire, requests, measured>>

-----------------------------------------------------------------------------
(* RequestResponseDelaySequence                                             *)

\* The constructor, for a Sync that has been received at sync.received.
NewSequence(sync) ==
  [sync |-> sync, state |-> IF "two_step_flag" \in sync.header.flags THEN "awaiting_follow_up" ELSE "ready_to_be_scheduled",
   sendAt |-> NoTimestamp, t1 |-> sync.origin, t3 |-> NoTimestamp, t4 |-> NoTimestamp,
   followUpCorrection |-> 0, respCorrection |-> 0, asked |-> now]

\* Mutant of WithFollowUp: the precise time of the Sync is not taken.
WithFollowUpCorrection(seq, m) ==
  IF seq.state # "awaiting_follow_up" THEN seq
  ELSE [seq EXCEPT !.followUpCorrection = Correction(m.header.correction), !.state = "ready_to_be_scheduled"]

\* update
WithFollowUp(seq, m) ==
  IF seq.state # "awaiting_follow_up" THEN seq
  ELSE [seq EXCEPT !.followUpCorrection = Correction(m.header.correction), !.t1 = m.origin,
                   !.state = "ready_to_be_scheduled"]

\* update
WithResponse(seq, m) ==
  IF seq.state # "awaiting_delay_resp" THEN seq
  ELSE [seq EXCEPT !.respCorrection = Correction(m.header.correction), !.t4 = m.received, !.state = "delay_resp_received"]

\* create_delay_req_message
DelayReq(seq) ==
  [header |-> [seq.sync.header EXCEPT !.source = Own, !.type = "delay_req", !.length = HeaderSize + TimestampSize,
                                      !.correction = 0],
   origin |-> NoTimestamp]

\* 2 to the power of an exponent that may be negative, of a second
SecondsOfLog(log) == IF log >= 0 THEN 2^log * Second ELSE Second \div 2^(-log)

\* schedule_delay_req_message_send: the waits of the scenario that are not longer
\* than twice the interval that the master asks for.
Waits(logMin) == {w \in scenario.waits : w <= SecondsOfLog(logMin + 1)}
Scheduled(seq, wait) ==
  [seq EXCEPT !.sendAt = AddNanos(seq.sync.received, wait), !.state = "delay_req_send_scheduled"]

\* set_delay_req_sent_time
Sent(seq, time) == [seq EXCEPT !.t3 = time, !.state = "awaiting_delay_resp", !.asked = now]

\* calculate_mean_path_delay, twice
TwiceMeanPathDelay(seq) ==
  Nanos(seq.sync.received) - Nanos(seq.t3) + Nanos(seq.t4) - Nanos(seq.t1)
    - Correction(seq.sync.header.correction) - seq.respCorrection
    - IF "two_step_flag" \in seq.sync.header.flags THEN seq.followUpCorrection ELSE 0

-----------------------------------------------------------------------------
(* The port                                                                 *)

NewPort ==
  [active |-> FALSE, parent |-> Own, meanDelay |-> 0, delays |-> <<>>, range |-> NewRange,
   untilRequest |-> SyncsUntilFirst, logMin |-> 0, syncs |-> <<>>, sequences |-> <<>>]

Time == LocalTime(clock, now)

\* should_process_ptp_messages
ShouldProcess(header) ==
  /\ header.domain = Domain /\ header.sdo.major = 0
  /\ header.source.clock # Own.clock
  /\ "alternate_master_flag" \notin header.flags

\* The guard that Sync, Follow_Up and Delay_Resp share
IsFromParent(header) == port.active /\ header.source = port.parent

\* The Syncs until the next request: none if the master asks for more than it sends.
RequestGap(logMin, logSync) == IF logMin >= logSync THEN 2^(logMin - logSync) ELSE 0

WithSequence(p, sync) ==
  IF p.untilRequest <= 0
  THEN [p EXCEPT !.sequences = Pushed(@, SyncsKept, NewSequence(sync)),
                 !.untilRequest = RequestGap(p.logMin, sync.header.log)]
  ELSE [p EXCEPT !.untilRequest = @ - 1]

\* process_request_response_delay_sequence, after the clock was corrected: the
\* sequences, of which each that is ready waits for some time, and the requests.
Processed(seqs, waits, time) ==
  [i \in DOMAIN seqs |->
     LET seq == IF seqs[i].state = "ready_to_be_scheduled" THEN Scheduled(seqs[i], waits[i]) ELSE seqs[i]
     IN  IF seq.state = "delay_req_send_scheduled" /\ ~IsEarlier(time, seq.sendAt) THEN Sent(seq, time) ELSE seq]

\* send_delay_req_message
Requests(before, after) ==
  {[bytes |-> ShowSync(DelayReq(after[i])), at |-> now] :
     i \in {j \in DOMAIN after : after[j].state = "awaiting_delay_resp" /\ before[j].state # "awaiting_delay_resp"}}

Process(p, newClock) ==
  \E waits \in [DOMAIN p.sequences -> Waits(p.logMin)] :
    LET after == Processed(p.sequences, waits, LocalTime(newClock, now))
    IN  /\ port' = [p EXCEPT !.sequences = after]
        /\ requests' = requests \cup Requests(p.sequences, after)

\* calculate_offset_from_master
Offset(sync, origin, followUpCorrection) ==
  Nanos(sync.received) - Nanos(origin) - port.meanDelay - Correction(sync.header.correction) - followUpCorrection

\* What the clock's error should be: the delay of the path as the port knows it,
\* instead of the time that the Sync did take.
Aim(sync) == port.meanDelay - (sync.arrived - sync.about.sent - sync.about.resided)
WasCorrected(sync) == sync.received # LocalTime(clock, sync.arrived)

\* update_local_ptp_clock
Correct(sync, offset) ==
  LET ignored == IsIgnored(clock, offset)
  IN  /\ clock' = Updated(clock, offset, now)
      /\ measured' = [measured EXCEPT
           !.outliers = IF ignored THEN @ + 1 ELSE 0,
           !.error = IF ignored \/ WasCorrected(sync) THEN 0 ELSE clock'.shift + Drift(clock, sync.arrived) - Phase[sync.header.source],
           !.aim = IF ignored \/ WasCorrected(sync) THEN 0 ELSE Aim(sync)]

\* handle_sync_message
HandleSync(m, about) ==
  LET sync == m @@ [received |-> Time, arrived |-> now, about |-> about]
      p == WithSequence(port, sync)
      twoStep == "two_step_flag" \in m.header.flags
  IN  IF ~IsFromParent(m.header) THEN UNCHANGED <<port, clock, requests, measured>>
      ELSE /\ IF twoStep THEN UNCHANGED <<clock, measured>> ELSE Correct(sync, Offset(sync, m.origin, 0))
           /\ Process(IF twoStep THEN [p EXCEPT !.syncs = Pushed(@, SyncsKept, sync)] ELSE p, clock')

\* handle_follow_up_message
HandleFollowUp(m) ==
  LET p == [port EXCEPT !.sequences =
              [i \in DOMAIN @ |-> IF Matches(@[i].sync.header, m.header) THEN WithFollowUp(@[i], m) ELSE @[i]]]
      found == SelectInSeq(port.syncs, LAMBDA sync : Matches(sync.header, m.header))
  IN  IF ~IsFromParent(m.header) THEN UNCHANGED <<port, clock, requests, measured>>
      ELSE /\ IF found = 0 THEN UNCHANGED <<clock, measured>>
              ELSE Correct(port.syncs[found], Offset(port.syncs[found], m.origin, Correction(m.header.correction)))
           /\ Process(p, clock')

\* The mean delay goes through the filter, unless it is far from the delays that
\* were in use when the responses before came.
WithDelay(p, delay) ==
  LET delays == Pushed(p.delays, DelaysKept, p.meanDelay)
  IN  IF Len(delays) > FirstCount /\ IsOutlierMedian(delays, delay, DelayThreshold)
      THEN [p EXCEPT !.delays = delays]
      ELSE [p EXCEPT !.delays = delays, !.meanDelay = Filtered(p.range, delay), !.range = FilterRange(@, delay)]

\* What twice the mean delay should be: both ways, and what the clock was
\* corrected by between the arrival of the Sync and the request.
TwiceTruth(seq, about) ==
  (seq.sync.arrived - seq.sync.about.sent - seq.sync.about.resided) + (about.sent - seq.asked - about.resided)
    + (Nanos(seq.sync.received) - seq.sync.arrived) - (Nanos(seq.t3) - seq.asked)

\* handle_delay_resp_message
HandleDelayResp(m, about) ==
  LET found == SelectInSeq(port.sequences, LAMBDA seq : seq.sync.header.seq = m.header.seq)
      seq == WithResponse(port.sequences[found], m)
      isAnswer == port.sequences[found].state = "awaiting_delay_resp" /\ about.asked = seq.asked
                    /\ seq.sync.header.source = m.header.source
  IN  /\ IF IsFromParent(m.header) /\ m.requester = Own /\ found # 0
         THEN /\ port' = WithDelay([port EXCEPT !.sequences[found] = seq, !.logMin = m.header.log],
                                   Quotient(TwiceMeanPathDelay(seq), 2))
              /\ measured' = IF isAnswer
                             THEN [measured EXCEPT !.delay = TwiceMeanPathDelay(seq), !.truth = TwiceTruth(seq, about)]
                             ELSE measured
         ELSE UNCHANGED <<port, measured>>
      /\ UNCHANGED <<clock, requests>>

\* An Announce that qualifies: its master is near enough.
IsQualified(m) == m.steps < 255

\* handle_announce_message, which may change the parent of the port
HandleAnnounce(m) ==
  /\ \/ port' = [port EXCEPT !.active = TRUE, !.parent = m.header.source]
     \/ UNCHANGED port
  /\ UNCHANGED <<clock, requests, measured>>

\* handle_recv_event
HandleRecvEvent(packet) ==
  LET header == ReadHeader(packet.bytes)
      body == From(packet.bytes, HeaderSize)
  IN  IF header = Invalid \/ ~ShouldProcess(header) THEN UNCHANGED <<port, clock, requests, measured>>
      ELSE CASE header.type = "sync" -> HandleSync(ReadOrigin(header, body), packet.about)
             [] header.type = "follow_up" -> HandleFollowUp(ReadOrigin(header, body))
             [] header.type = "delay_resp" -> HandleDelayResp(ReadDelayResp(header, body), packet.about)
             [] header.type = "announce" /\ IsQualified(ReadAnnounce(header, body)) -> HandleAnnounce(ReadAnnounce(header, body))
             [] OTHER -> UNCHANGED <<port, clock, requests, measured>>

-----------------------------------------------------------------------------
(* The masters and the network                                              *)

Header(type, source, seq, size) ==
  [sdo |-> [major |-> 0, minor |-> 0], type |-> type, version |-> [major |-> 2, minor |-> 1],
   length |-> HeaderSize + size, domain |-> Domain, flags |-> {}, correction |-> 0, source |-> source,
   seq |-> seq, log |-> 0]

MasterTime == FromNanos(now + Phase[master.who])
Packet(bytes, about) == [bytes |-> bytes, at |-> now, about |-> about]

SyncOf(type, seq, flags, correction, origin) ==
  ShowSync([header |-> [Header(type, master.who, seq, TimestampSize) EXCEPT !.flags = flags, !.correction = correction],
            origin |-> origin])

\* A Sync, with its Follow_Up if there are two steps.
SendSync ==
  /\ now % SyncInterval = 0 /\ master.synced # now
  /\ LET seq == master.seqs[master.who]
     IN  /\ \E c \in scenario.corrections, d \in IF scenario.twoStep THEN scenario.corrections ELSE {0} :
              LET about == [sent |-> now, resided |-> c + d]
                  field(n) == n * FractionScale
              IN  wire' = wire \cup
                    IF scenario.twoStep
                    THEN {Packet(SyncOf("sync", seq, {"two_step_flag"}, field(c), NoTimestamp), about),
                          Packet(SyncOf("follow_up", seq, {}, field(d), MasterTime), about)}
                    ELSE {Packet(SyncOf("sync", seq, {}, field(c), MasterTime), about)}
         /\ master' = [master EXCEPT !.seqs[master.who] = @ + 1, !.synced = now]
  /\ UNCHANGED <<scenario, now, clock, port, requests, measured>>

AnnounceOf(m) ==
  ShowAnnounce([header |-> Header("announce", m, 0, 30), origin |-> NoTimestamp, utcOffset |-> 37, priority1 |-> 128,
                quality |-> [class |-> 248, accuracy |-> 254, variance |-> 65535], priority2 |-> 128,
                grandmaster |-> m.clock, steps |-> 0, timeSource |-> 32])

\* Another master takes over, or the same one is heard of again.
SendAnnounce(m) ==
  /\ scenario.switches > 0
  /\ scenario' = [scenario EXCEPT !.switches = @ - 1]
  /\ master' = [master EXCEPT !.who = m]
  /\ wire' = wire \cup {Packet(AnnounceOf(m), {})}
  /\ UNCHANGED <<now, clock, port, requests, measured>>

\* Messages that arrive on the same socket and are not for this port: of another
\* domain, of an alternate master, of a master that is not the parent, an answer
\* to another port, and one that was cut off.
Strays ==
  LET header == Header("sync", master.who, master.seqs[master.who], TimestampSize)
      show(h) == ShowSync([header |-> h, origin |-> NoTimestamp])
  IN  {show([header EXCEPT !.domain = Domain + 1]), show([header EXCEPT !.flags = {"alternate_master_flag"}]),
       show([header EXCEPT !.source.port = 9]), Front(show(header)),
       ShowDelayResp([header |-> [header EXCEPT !.type = "delay_resp", !.length = @ + 10], received |-> NoTimestamp,
                      requester |-> [Own EXCEPT !.port = 9]])}

SendStray ==
  /\ scenario.strays > 0
  /\ scenario' = [scenario EXCEPT !.strays = @ - 1]
  /\ \E bytes \in Strays : wire' = wire \cup {Packet(bytes, {})}
  /\ UNCHANGED <<now, clock, port, master, requests, measured>>

\* The master answers a Delay_Req.
Answer ==
  /\ \E request \in requests, c \in scenario.corrections :
       LET m == ReadOrigin(ReadHeader(request.bytes), From(request.bytes, HeaderSize))
           header == [Header("delay_resp", master.who, m.header.seq, TimestampSize + 10)
                        EXCEPT !.correction = c * FractionScale, !.log = scenario.logMin]
       IN  /\ now >= request.at + PathDelay
           /\ requests' = requests \ {request}
           /\ wire' = wire \cup {Packet(ShowDelayResp([header |-> header, received |-> MasterTime,
                                                        requester |-> m.header.source]),
                                        [asked |-> request.at, sent |-> now, resided |-> c])}
  /\ UNCHANGED <<scenario, now, clock, port, master, measured>>

\* A message arrives, and may arrive once more.
Receive ==
  /\ \E packet \in wire :
       /\ now >= packet.at + PathDelay
       /\ scenario.ordered => \A other \in wire : packet.at <= other.at
       /\ HandleRecvEvent(packet)
       /\ \/ wire' = wire \ {packet} /\ UNCHANGED scenario
          \/ scenario.copies > 0 /\ scenario' = [scenario EXCEPT !.copies = @ - 1] /\ UNCHANGED wire
  /\ UNCHANGED <<now, master>>

\* The port hears no master for too long.
AnnounceReceiptTimeout ==
  /\ scenario.breaks > 0 /\ port.active
  /\ scenario' = [scenario EXCEPT !.breaks = @ - 1]
  /\ port' = [port EXCEPT !.active = FALSE]
  /\ UNCHANGED <<now, clock, master, wire, requests, measured>>

\* Time passes, and what is too long on its way is lost.
Elapse ==
  LET underway(packets) == {p \in packets : now + Tick <= p.at + scenario.slowest}
  IN  /\ now + Tick <= scenario.until
      /\ now % SyncInterval = 0 => master.synced = now
      /\ scenario.lossy \/ (underway(wire) = wire /\ underway(requests) = requests)
      /\ now' = now + Tick
      /\ wire' = underway(wire) /\ requests' = underway(requests)
      /\ UNCHANGED <<scenario, clock, port, master, measured>>

Init ==
  /\ scenario \in Scenarios
  /\ now = 0 /\ clock = NewClock /\ port = NewPort
  /\ \E m \in Masters :
       /\ master = [who |-> m, seqs |-> [n \in Masters |-> 0], synced |-> -1]
       /\ wire = {Packet(AnnounceOf(m), {})}
  /\ requests = {}
  /\ measured = [outliers |-> 0, error |-> 0, aim |-> 0, delay |-> 0, truth |-> 0]

Next ==
  \/ SendSync \/ (\E m \in Masters : SendAnnounce(m)) \/ SendStray \/ Answer
  \/ Receive \/ AnnounceReceiptTimeout \/ Elapse

Spec == Init /\ [][Next]_vars

-----------------------------------------------------------------------------

\* A correction leaves the clock as far from the master's as the delay that is
\* measured differs from the time that the Sync took, whatever was lost, copied,
\* overtaken or not for this port, unless the clock was corrected between the
\* arrival of that Sync and its Follow_Up.  What the frequency ratio had moved the
\* clock by when the Sync arrived is part of the measured offset and gone with the
\* correction, which sets another ratio: the clock is off by it besides.
ClockFollowsMaster == measured.error = measured.aim

\* The mean delay is half of the way there and back, without the time in the
\* network's own devices, and with half of what the clock was corrected by in
\* between, when the answer is to the request of that very Sync.
DelaysAreMeasured == measured.delay = measured.truth

\* "Allowing a maximum per non-filtered outliers to avoid getting in a loop where
\* all measurements are filtered out": a jump of the master's time is followed
\* before half of the window consists of what was ignored.
JumpsAreFollowed == 2 * measured.outliers < StatsWindow
=============================================================================
