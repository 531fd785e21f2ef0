--------------------------- MODULE RtpAudioSender ---------------------------
(***************************************************************************)
(* One writer of rav::rtp::AudioSender while it is set up: the audio       *)
(* thread collects frames and makes packets of them, the network thread    *)
(* sends each of them to every destination.  The fifo between the two is a *)
(* queue whose operations are atomic (module Fifo).                        *)
(*                                                                         *)
(* The frame at a timestamp is modelled by that timestamp.                 *)
(***************************************************************************)
EXTENDS Integers, Sequences, RtpPackets

CONSTANTS
  SendCapacity,      \* k_max_num_frames, the size of rtp_buffer
  OutgoingCapacity,  \* k_buffer_num_packets
  FirstSeq           \* sequence number of the first packet

ASSUME SendAssumption ==
  SendCapacity \in Nat \ {0} /\ OutgoingCapacity \in Nat \ {0} /\ FirstSeq \in Values(SeqNumMod)

VARIABLES
  writer,    \* rtp_buffer, the timestamp and sequence number of rtp_packet, outgoing_data
  sending,   \* the audio thread is inside schedule_data_for_sending_realtime
  wire       \* the packets that have been sent to each destination

senderVars == <<writer, sending, wire>>

\* setup_writer, as far as the data path goes
SenderInit ==
  /\ writer = [ring |-> NewRing(SendCapacity), packetTs |-> 0, seq |-> FirstSeq, outgoing |-> <<>>]
  /\ sending = FALSE
  /\ wire = [s \in Streams |-> {}]

FramesFrom(ts, count) == [i \in 1..count |-> Increment(TsMod, ts, i - 1)]

\* Mutant of Schedule: a jump in time does not start a new packet.
ScheduleKeepsPacket(ts, count) ==
  /\ ~sending
  /\ writer' = [writer EXCEPT !.ring = Write(ClearUntil(WithNext(@, ts), ts), ts, FramesFrom(ts, count))]
  /\ sending' = TRUE
  /\ UNCHANGED wire

\* send_data_realtime up to the loop over the packets: a call at another time
\* than expected starts a new packet there.
Schedule(ts, count) ==
  /\ ~sending
  /\ LET expected == writer.ring.next = ts
         ring == IF expected THEN writer.ring ELSE WithNext(writer.ring, ts)
     IN  writer' = [writer EXCEPT !.ring = Write(ClearUntil(ring, ts), ts, FramesFrom(ts, count)),
                                  !.packetTs = IF expected THEN @ ELSE ts]
  /\ sending' = TRUE
  /\ UNCHANGED wire

PacketIsFull == IsOlderThan(TsMod, Increment(TsMod, writer.packetTs, PacketFrames), writer.ring.next)

NextPacket == [ts |-> writer.packetTs, seq |-> writer.seq,
               frames |-> Frames(writer.ring, writer.packetTs, PacketFrames)]

\* One round of the loop: a packet for which the fifo has no room is lost, and counted.
SchedulePacket ==
  /\ sending /\ PacketIsFull
  /\ writer' = [writer EXCEPT
       !.outgoing = IF Len(@) < OutgoingCapacity THEN Append(@, NextPacket) ELSE @,
       !.seq = Increment(SeqNumMod, @, 1),
       !.packetTs = Increment(TsMod, @, PacketFrames)]
  /\ UNCHANGED <<sending, wire>>

\* The loop ends, and with it the call: the last packet waits for one more frame.
Scheduled ==
  /\ sending /\ ~PacketIsFull
  /\ sending' = FALSE
  /\ UNCHANGED <<writer, wire>>

\* One round of send_outgoing_packets.  How many rounds a call makes only
\* matters for the time they take.
SendOutgoingPacket ==
  /\ writer.outgoing # <<>>
  /\ writer' = [writer EXCEPT !.outgoing = Tail(@)]
  /\ wire' = [s \in Streams |-> wire[s] \cup {Head(writer.outgoing)}]
  /\ UNCHANGED sending
=============================================================================
