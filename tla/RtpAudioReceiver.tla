-------------------------- MODULE RtpAudioReceiver --------------------------
(***************************************************************************)
(* One reader of rav::rtp::AudioReceiver while it is set up, with its      *)
(* redundant streams: the network thread puts the packets of each stream   *)
(* into a fifo, the audio thread merges them in one ring buffer from which *)
(* it reads.  The fifos are queues whose operations are atomic (module     *)
(* Fifo).  Adding and removing readers is in module RtpMembership.         *)
(***************************************************************************)
EXTENDS Integers, Sequences, SequencesExt, FiniteSets, RtpPackets

CONSTANTS
  ReceiveCapacity,   \* frames in receive_buffer
  FifoCapacity,      \* packets in the fifos packets and packets_too_old
  NoTime, NoStream

States == {"inactive", "receiving", "no_consumer"}

ASSUME ReceiverAssumption ==
  /\ ReceiveCapacity \in Nat \ {0} /\ FifoCapacity \in Nat \ {0}
  /\ Streams = 1..Cardinality(Streams) /\ Cardinality(Streams) \in Nat
  /\ NoTime \notin Nat /\ NoSeq \notin Nat /\ NoStream \notin [s : Streams, seq : Nat, state : States]

VARIABLES
  stream,   \* the StreamContext of each stream
  silent,   \* no packet of this stream for longer than k_receive_timeout_ms
  storing,  \* the stream and state that the network thread has still to store
  reader    \* receive_buffer, most_recent_ts and next_ts_to_read

receiverVars == <<stream, silent, storing, reader>>

NewStream == [packets |-> <<>>, tooOld |-> <<>>, stats |-> NewStats, state |-> "inactive"]

\* setup_reader, as far as the data path goes
ReceiverInit ==
  /\ stream = [s \in Streams |-> NewStream]
  /\ silent = [s \in Streams |-> TRUE]
  /\ storing = NoStream
  /\ reader = [ring |-> NewRing(ReceiveCapacity), mostRecent |-> NoTime, next |-> 0]

(***************************************************************************)
(* The network thread: read_incoming_packets                               *)
(***************************************************************************)

\* update_stream_active_state
ActiveState(s) == IF silent[s] THEN "inactive" ELSE stream[s].state

\* A packet arrives that the address, the port and the filter of the stream
\* let through: up to the push.  The state that follows is stored later, so
\* that the audio thread may come in between.
ReceivePacket(s, packet) ==
  /\ storing = NoStream
  /\ LET fits == Len(stream[s].packets) < FifoCapacity
     IN  /\ stream' = [stream EXCEPT ![s].packets = IF fits THEN Append(@, packet) ELSE @,
                                     ![s].state = ActiveState(s)]
         /\ storing' = [s |-> s, seq |-> packet.seq, state |-> IF fits THEN "receiving" ELSE "no_consumer"]
  /\ silent' = [silent EXCEPT ![s] = FALSE]
  /\ UNCHANGED reader

\* The statistics after the late packets that the audio thread reported.
AfterMarks(stats, late) ==
  LET after[i \in 0..Len(late)] == IF i = 0 THEN stats ELSE MarkTooLate(after[i - 1], late[i])
  IN  after[Len(late)]

\* The rest of the work on a packet: its state, and the statistics.
FinishPacket ==
  /\ storing # NoStream
  /\ LET s == storing.s
     IN  stream' = [stream EXCEPT
           ![s].state = storing.state,
           ![s].tooOld = <<>>,
           ![s].stats = UpdateStats(AfterMarks(@, stream[s].tooOld), storing.seq)]
  /\ storing' = NoStream
  /\ UNCHANGED <<silent, reader>>

\* More than a second without a packet of this stream.
Silence(s) ==
  /\ silent' = [silent EXCEPT ![s] = TRUE]
  /\ UNCHANGED <<stream, storing, reader>>

\* The maintenance at the end of read_incoming_packets, which any packet on
\* any socket puts off: all streams have been silent by then.
Maintenance ==
  /\ storing = NoStream
  /\ \A s \in Streams : silent[s]
  /\ stream' = [s \in Streams |-> [stream[s] EXCEPT !.state = ActiveState(s)]]
  /\ UNCHANGED <<silent, storing, reader>>

(***************************************************************************)
(* The audio thread: read_data_realtime.  A pop of a fifo that the network *)
(* thread fills meanwhile is as if the packet had come before the call, or *)
(* after it: the call is one step.                                         *)
(***************************************************************************)

LastTs(packet) == Increment(TsMod, packet.ts, Len(packet.frames) - 1)
IsAtMost(a, b) == a = b \/ IsOlderThan(TsMod, a, b)

\* Mutant of TooLate: a packet of which the first frames are late is dropped.
PartlyLate(r, packet) == IsOlderThan(TsMod, packet.ts, r.next)

\* Every frame of the packet was read over already.
TooLate(r, packet) == IsAtMost(Increment(TsMod, packet.ts, PacketFrames), r.next)

\* The first packet of all says where the reader starts, whatever timestamp
\* the caller asked for.
Started(r, packet) ==
  IF r.mostRecent = NoTime
  THEN [r EXCEPT !.mostRecent = LastTs(packet), !.ring = WithNext(@, packet.ts), !.next = packet.ts]
  ELSE r

Newest(r, packet) ==
  [r EXCEPT !.mostRecent = IF IsGreater(TsMod, LastTs(packet), @) THEN LastTs(packet) ELSE @]

\* One packet of do_realtime_maintenance.
Accept(r, packet) ==
  LET n == Newest(Started(r, packet), packet)
      late == IF TooLate(n, packet) \/ IsOlderThan(TsMod, packet.ts, n.next)
              THEN Append(n.late, packet.seq) ELSE n.late
  IN  IF TooLate(n, packet) THEN [n EXCEPT !.late = late]
      ELSE [n EXCEPT !.late = late, !.ring = Write(ClearUntil(@, packet.ts), packet.ts, packet.frames)]

\* The loop ends when its index passes the size, which shrinks meanwhile.
PoppedCount(s) == (Len(stream[s].packets) + 1) \div 2
Popped(s) == IF stream[s].state = "no_consumer" THEN <<>> ELSE SubSeq(stream[s].packets, 1, PoppedCount(s))

\* The reader after some of the packets of one of the streams, and after all of them.
Accepted(before, popped) ==
  LET after[i \in 0..Len(popped)] == IF i = 0 THEN [before EXCEPT !.late = <<>>] ELSE Accept(after[i - 1], popped[i])
  IN  after
AfterStream(before, s) == Accepted(before, Popped(s))[Len(Popped(s))]

\* do_realtime_maintenance: the reader after each of the streams in turn, with
\* what was late of it.
Merged(r) ==
  LET after[s \in 0..Cardinality(Streams)] == IF s = 0 THEN r ELSE AfterStream(after[s - 1], s)
  IN  after

\* What a call finds, before the data are taken out of the buffer.
ReaderAt(at) == [ring |-> reader.ring, mostRecent |-> reader.mostRecent, late |-> <<>>,
                 next |-> IF at = NoTime THEN reader.next ELSE at]

CanRead(r, count, delay) ==
  /\ r.mostRecent # NoTime
  /\ delay # NoTime => ~IsGreater(TsMod, Increment(TsMod, r.next, count - 1 + delay), r.mostRecent)

\* The fifos after maintenance: a stream without consumer is emptied, and the
\* network thread is told of the packets that were late as far as there is room.
Drained(st, late, popped) ==
  IF st.state = "no_consumer"
  THEN [st EXCEPT !.packets = <<>>, !.tooOld = <<>>]
  ELSE [st EXCEPT !.packets = SubSeq(@, popped + 1, Len(@)),
                  !.tooOld = SubSeq(@ \o late, 1, Min({FifoCapacity, Len(@ \o late)}))]

ReadData(at, count, delay) ==
  LET merged == Merged(ReaderAt(at))
      r == merged[Cardinality(Streams)]
      reads == CanRead(r, count, delay)
  IN  /\ stream' = [s \in Streams |-> Drained(stream[s], merged[s].late, Len(Popped(s)))]
      /\ reader' = [ring |-> IF reads THEN WithoutRead(r.ring, r.next, count) ELSE r.ring,
                    mostRecent |-> r.mostRecent,
                    next |-> IF reads THEN Increment(TsMod, r.next, count) ELSE r.next]
      /\ UNCHANGED <<silent, storing>>
=============================================================================
