----------------------------- MODULE RtpPackets -----------------------------
(***************************************************************************)
(* What both ends of an RTP stream keep of its packets: rav::rtp::Ringbuffer, *)
(* in which the sender collects audio into packets and the receiver        *)
(* packets into audio, and rav::rtp::PacketStats, which counts the packets *)
(* of a stream that were lost, repeated, reordered or too late.            *)
(*                                                                         *)
(* The data of a ring buffer are the bytes of frames.  A byte is modelled by *)
(* the timestamp of the frame it belongs to, so that what is read can be   *)
(* compared with what belongs there, and Ground is the value of silence.   *)
(* Positions in bytes are uint32_t, as timestamps are.                     *)
(***************************************************************************)
EXTENDS Numbers

CONSTANTS
  Streams,        \* the redundant streams, numbered from 1
  TsMod,          \* timestamps are uint32_t, modulo 2^32
  SeqNumMod,      \* sequence numbers are uint16_t, modulo 2^16
  Bpf,            \* bytes per frame
  PacketFrames,   \* packet_time_frames
  Ground,         \* a byte of silence
  NoSeq           \* no packet was counted yet

ASSUME PacketAssumption ==
  /\ PacketFrames \in Nat \ {0} /\ Bpf \in Nat \ {0}
  /\ TsMod \in Nat \ {0} /\ SeqNumMod \in Nat \ {0}

-----------------------------------------------------------------------------

Lesser(a, b) == IF a < b THEN a ELSE b

Size(ring) == ring.capacity * Bpf

\* resize: also what clears the buffer when its size changes.
NewRing(capacity) == [capacity |-> capacity, next |-> 0, cells |-> [i \in 0..(capacity * Bpf - 1) |-> Ground]]

\* clear, which leaves next_ts_ alone.
Cleared(ring) == [ring EXCEPT !.cells = [i \in DOMAIN @ |-> Ground]]

\* set_next_ts
WithNext(ring, ts) == [ring EXCEPT !.next = ts]

\* The place in the buffer of a cell, counted from a position in bytes (Fifo::Position).
Offset(ring, position, cell) == (cell - position) % Size(ring)

\* write: the frames that start at a timestamp.
Write(ring, ts, frames) ==
  LET count == Len(frames)
      end == Increment(TsMod, ts, count)
      at(cell) == Offset(ring, ts * Bpf, cell)
  IN  [ring EXCEPT
        !.cells = [c \in DOMAIN @ |-> IF at(c) < count * Bpf THEN frames[at(c) \div Bpf + 1] ELSE @[c]],
        !.next = IF IsGreater(TsMod, end, @) THEN end ELSE @]

\* The bytes of the frame at a timestamp.
FrameAt(ring, ts) == {ring.cells[((ts * Bpf) + i) % Size(ring)] : i \in 0..(Bpf - 1)}

\* What read returns: for each frame the set of what its bytes belong to.
Frames(ring, ts, count) == [i \in 1..count |-> FrameAt(ring, ts + i - 1)]

\* What read with clear_data leaves.
WithoutRead(ring, ts, count) ==
  [ring EXCEPT !.cells = [c \in DOMAIN @ |-> IF Offset(ring, ts * Bpf, c) < count * Bpf THEN Ground ELSE @[c]]]

\* clear_until: the position is computed in uint32_t, in the other operations it is not.
ClearUntil(ring, ts) ==
  LET bytes == (Distance(TsMod, ring.next, ts) * Bpf) % TsMod
      start == (ring.next * Bpf) % TsMod
  IN  IF ring.next = ts \/ IsGreater(TsMod, ring.next, ts)
      THEN ring
      ELSE [ring EXCEPT
             !.cells = [c \in DOMAIN @ |->
                          IF Offset(ring, start, c) < Lesser(bytes, Size(ring)) THEN Ground ELSE @[c]],
             !.next = ts]

-----------------------------------------------------------------------------

NoCounts == [outOfOrder |-> 0, duplicates |-> 0, dropped |-> 0, tooLate |-> 0]

\* most_recent_sequence_number_, totals_ and dropped_packets_.  dirty_ only
\* changes what update returns, which its caller ignores.
NewStats == [recent |-> NoSeq, counts |-> NoCounts, missing |-> {}]

\* The sequence numbers between two others.
Between(from, to) == {Increment(SeqNumMod, from, i) : i \in 1..(Distance(SeqNumMod, from, to) - 1)}

\* The part of update for a packet that is not newer than the newest.
LatePacket(stats, seq) ==
  IF seq \in stats.missing
  THEN [stats EXCEPT !.missing = @ \ {seq}, !.counts.dropped = @ - 1, !.counts.outOfOrder = @ + 1]
  ELSE [stats EXCEPT !.counts.duplicates = @ + 1]

\* Mutant of NewerPacket: the missing packets of an earlier gap are forgotten.
ForgetsEarlierGaps(stats, seq) ==
  LET gap == Between(stats.recent, seq)
  IN  [stats EXCEPT !.recent = seq, !.missing = gap, !.counts.dropped = @ + Distance(SeqNumMod, stats.recent, seq) - 1]

\* The part of update for a packet that is newer: what is now more than half
\* the range old is forgotten (clear_outdated_dropped_packets).
NewerPacket(stats, seq) ==
  LET gap == Between(stats.recent, seq)
      kept == {s \in stats.missing : ~IsGreater(SeqNumMod, s, seq)}
  IN  [stats EXCEPT !.recent = seq, !.missing = kept \cup gap,
                    !.counts.dropped = @ + Distance(SeqNumMod, stats.recent, seq) - 1]

\* update
UpdateStats(stats, seq) ==
  CASE stats.recent = NoSeq -> [stats EXCEPT !.recent = seq]
    [] stats.recent # NoSeq /\ IsGreater(SeqNumMod, seq, stats.recent) -> NewerPacket(stats, seq)
    [] OTHER -> LatePacket(stats, seq)

\* mark_packet_too_late
MarkTooLate(stats, seq) ==
  IF stats.recent = NoSeq \/ IsGreater(SeqNumMod, seq, stats.recent)
  THEN stats
  ELSE [stats EXCEPT !.counts.tooLate = @ + 1]
=============================================================================
