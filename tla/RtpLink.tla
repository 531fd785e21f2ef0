------------------------------ MODULE RtpLink ------------------------------
(***************************************************************************)
(* A sender and a receiver of one RAVENNA stream: rtp::AudioSender, the    *)
(* network and rtp::AudioReceiver.  The network may lose, repeat, reorder  *)
(* and delay the packets of each of the redundant streams on its own: what *)
(* arrives is any packet that was sent.                                    *)
(*                                                                         *)
(* The history variables say, without a ring buffer, what the reader's     *)
(* buffer should hold, and what the statistics should count.               *)
(***************************************************************************)
EXTENDS RtpAudioSender, RtpAudioReceiver, FiniteSets

CONSTANTS
  StartTs,      \* where the sender's clock starts
  Scenarios     \* what the applications and the network do, each a record of:
                \*   live      whether packets arrive while others are still to be sent:
                \*             none depends on that, as any that was sent may arrive
                \*   sends     how many frames the sender's buffers may have
                \*   gaps      how far one may be ahead of what is expected
                \*   maxTs     bound: the last timestamp that is sent or read
                \*   arrivals  bound: packets of each stream that arrive
                \*   reads     how many frames the receiver's buffers may have
                \*   back, ahead  how far from next_ts_to_read it may ask for
                \*   delays    the delays it may require
                \*   silences  whether a stream may pause for more than a second

\* A buffer of the application fits in what the rest of the last packet leaves of the
\* sender's, and the timestamps do not wrap.
ASSUME ScenarioAssumption ==
  /\ StartTs \in Nat /\ PacketFrames <= SendCapacity /\ SendCapacity < TsMod \div 2
  /\ \A sc \in Scenarios :
       /\ sc.reads \subseteq Nat /\ sc.sends \subseteq Nat \ {0} /\ sc.gaps \subseteq Nat /\ sc.maxTs \in Nat
       /\ sc.maxTs + PacketFrames < TsMod
       /\ \A count \in sc.sends : count + PacketFrames <= SendCapacity

VARIABLES
  scenario,  \* which does not change
  arrived,   \* the frames that reached the buffer, and have not been read
  overrun,   \* the reader fell behind by more than the buffer holds
  mistaken,  \* a packet came to the buffer whose time or place is not what the code computes
  numbers,   \* of the time of each packet that was made, the how-manieth it is
  got        \* of each stream: first and newest packet, which arrived, which late, how many,
             \* and whether one came that was half the range of sequence numbers away

linkVars == <<scenario, arrived, overrun, mistaken, got>>
vars == <<senderVars, receiverVars, linkVars, numbers>>

NothingGot == [first |-> NoSeq, newest |-> NoSeq, numbers |-> {}, late |-> {}, total |-> 0, far |-> FALSE]

Init ==
  /\ SenderInit /\ ReceiverInit
  /\ scenario \in Scenarios
  /\ arrived = {} /\ overrun = FALSE /\ mistaken = FALSE
  /\ numbers = <<>>
  /\ got = [s \in Streams |-> NothingGot]

\* The sender's application: its next buffer follows the last, or leaves a gap.  It calls
\* send_data_realtime, or send_audio_data_realtime, which converts the samples frame by frame.
SendAudio ==
  \E count \in scenario.sends, gap \in scenario.gaps :
    /\ LET from == IF writer.ring.next = 0 THEN StartTs ELSE writer.ring.next + gap
       IN  from + count <= scenario.maxTs /\ Schedule(from, count)
    /\ UNCHANGED <<receiverVars, linkVars, numbers>>

\* One more packet is made, of a time later than all others.
Numbered(ts) == [t \in DOMAIN numbers \cup {ts} |-> IF t = ts THEN Cardinality(DOMAIN numbers) ELSE numbers[t]]

SenderStep ==
  /\ \/ SchedulePacket /\ numbers' = Numbered(writer.packetTs)
     \/ (Scheduled \/ SendOutgoingPacket) /\ UNCHANGED numbers
  /\ UNCHANGED <<receiverVars, linkVars>>

\* Two numbers that are less than half of the range apart.
Near(range, a, b) == a - b < range \div 2 /\ b - a < range \div 2

Seen(g, n) ==
  IF g.first = NoSeq
  THEN [first |-> n, newest |-> n, numbers |-> {n}, late |-> {}, total |-> 1, far |-> FALSE]
  ELSE [g EXCEPT !.newest = Max({@, n}), !.numbers = @ \cup {n}, !.total = @ + 1, !.far = @ \/ ~Near(SeqNumMod, n, g.newest),
                 !.late = IF n > g.first /\ n < g.newest /\ n \notin g.numbers THEN @ \cup {n} ELSE @]

\* The bound of the sender's time is reached.
AllSent ==
  /\ ~sending /\ writer.outgoing = <<>>
  /\ \A count \in scenario.sends : writer.ring.next + count > scenario.maxTs

PacketArrives ==
  \E s \in Streams : \E packet \in wire[s] :
    /\ scenario.live \/ AllSent
    /\ got[s].total < scenario.arrivals[s]
    /\ ReceivePacket(s, packet)
    /\ got' = [got EXCEPT ![s] = Seen(@, numbers[packet.ts])]
    /\ UNCHANGED <<senderVars, scenario, arrived, overrun, mistaken, numbers>>

NetworkThread ==
  /\ \/ FinishPacket \/ Maintenance
     \/ scenario.silences /\ storing = NoStream /\ \E s \in Streams : ~silent[s] /\ Silence(s)
  /\ UNCHANGED <<senderVars, linkVars, numbers>>

\* The timestamps the application may ask for once there are data.
Seeks == {NoTime} \cup IF reader.mostRecent = NoTime THEN {}
                       ELSE {t \in 0..scenario.maxTs : t >= reader.next - scenario.back /\ t <= reader.next + scenario.ahead}

\* Where a call starts to read: the first packet of all decides.
Start(at) ==
  LET some == {s \in Streams : Popped(s) # <<>>}
  IN  IF reader.mostRecent = NoTime /\ some # {} THEN Head(Popped(Min(some))).ts ELSE ReaderAt(at).next

\* The frames that a call brings into the buffer: of packets that are not too late.
PacketTimes(packet) == packet.ts..(packet.ts + PacketFrames - 1)
Brought(next) ==
  UNION {PacketTimes(p) : p \in {q \in UNION {ToSet(Popped(s)) : s \in Streams} : q.ts + PacketFrames > next}}

\* Of uint32_t the code can tell which is the older if they are less than half of the range apart.
\* clear_until finds the place of a gap if its position in bytes fits, or if what is cut off is a
\* multiple of the buffer's size.
IsMeant(r, packet) ==
  LET n == Started(r, packet)
      end == packet.ts + PacketFrames
      edge == n.ring.next
      bytes == ReceiveCapacity * Bpf
  IN  /\ Near(TsMod, end, n.next)
      /\ end > n.next => Near(TsMod, packet.ts, edge) /\ Near(TsMod, end, edge)
      /\ end > n.next /\ packet.ts > edge =>
           /\ ((edge * Bpf) % TsMod) % bytes = (edge * Bpf) % bytes
           /\ (packet.ts - edge) * Bpf < TsMod

\* All packets that a call takes, at the point where it comes to them, are as meant.
AllMeant(r) ==
  LET merged == Merged(r)
  IN  \A s \in Streams : LET accepted == Accepted(merged[s - 1], Popped(s))
                         IN  \A i \in 1..Len(Popped(s)) : IsMeant(accepted[i - 1], Popped(s)[i])

\* The receiver's application reads, at the next timestamp or at one of its choice, with
\* read_data_realtime or, frame by frame converted, with read_audio_data_realtime.
ReadAudio ==
  \E count \in scenario.reads, at \in Seeks, delay \in scenario.delays :
    /\ ReadData(at, count, delay)
    /\ LET next == Start(at)
           brought == Brought(next)
           edge == reader'.ring.next
           isRead(t) == reader'.next # next /\ \E r \in next..(next + count - 1) : (r - t) % ReceiveCapacity = 0
       IN  /\ next + count <= scenario.maxTs
           /\ arrived' = {t \in arrived \cup brought : edge - t <= ReceiveCapacity /\ ~isRead(t)}
           /\ overrun' = (overrun \/ \E t \in {u \in arrived : u >= next} \cup brought : edge - t > ReceiveCapacity)
           /\ mistaken' = (mistaken \/ ~AllMeant(ReaderAt(at)))
    /\ UNCHANGED <<senderVars, scenario, got, numbers>>

Next == SendAudio \/ SenderStep \/ PacketArrives \/ NetworkThread \/ ReadAudio

Spec == Init /\ [][Next]_vars

\* A packet carries the frames of its own time, however the calls of the
\* application cut the audio, where it left gaps, and which packets found no room.
PacketsCarryTheirFrames ==
  \A s \in Streams : \A p \in wire[s] : \A i \in 1..PacketFrames : p.frames[i] = {p.ts + i - 1}

\* Each frame that is still to be read and lies before the newest is the one
\* that was sent for its time if any of the streams brought it in time, and
\* silence if none did, whatever was lost, repeated or overtaken on the way,
\* as long as the reader did not fall behind by more than the buffer, and
\* until a packet comes that is half the range of timestamps away or that leaves
\* a gap where positions in bytes no longer fit: see ReceivedFramesAreKept.
BufferHoldsWhatArrived ==
  ~overrun /\ ~mistaken /\ reader.mostRecent # NoTime =>
    \A t \in reader.next..(reader.ring.next - 1) :
      t >= reader.ring.next - ReceiveCapacity =>
        FrameAt(reader.ring, t) = IF t \in arrived THEN {{t}} ELSE {Ground}

\* The statistics of a stream count each missing packet, each that came late
\* for the first time, and each repeated one, however often numbers wrap, until
\* one comes that is half of their range away from the newest, of which 16 bits
\* do not tell whether it is old or new.
CountsAreRight ==
  storing = NoStream =>
    \A s \in {r \in Streams : got[r].total > 0 /\ ~got[r].far} :
      LET span == got[s].first..got[s].newest
          counts == stream[s].stats.counts
      IN  /\ counts.dropped = Cardinality(span \ got[s].numbers)
          /\ counts.outOfOrder = Cardinality(got[s].late)
          /\ counts.duplicates = got[s].total - Cardinality(span \cap got[s].numbers)

\* A receiver neither loses, invents nor miscounts what the network brought.  (do_realtime_maintenance,
\* read_data_realtime and PacketStats::update)
ReceiverKeepsWhatArrived == BufferHoldsWhatArrived /\ CountsAreRight

\* Filling a gap with silence leaves alone the frames that did arrive: the
\* buffer is filled "until (but not including) the given timestamp".
ReceivedFramesAreKept ==
  ~overrun /\ reader.mostRecent # NoTime =>
    \A t \in arrived \cap reader.next..(reader.ring.next - 1) :
      t >= reader.ring.next - ReceiveCapacity => FrameAt(reader.ring, t) = {{t}}
=============================================================================
