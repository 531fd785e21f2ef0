------------------------------ MODULE RtpViews ------------------------------
(***************************************************************************)
(* The bytes of RTP and RTCP packets: rtp::Packet writes them,             *)
(* rtp::PacketView, rtcp::PacketView and rtcp::ReportBlockView give the    *)
(* fields of what was received, which may be cut off anywhere.  A packet   *)
(* comes from a sender of this code or from one of others; a compound of   *)
(* RTCP packets is walked from one packet to the next.                     *)
(***************************************************************************)
EXTENDS Numbers, SequencesExt, FiniteSets

CONSTANTS
  SentPackets,     \* packets of rtp::Packet: type, seq, timestamp, ssrc and payload
  OtherPackets,    \* those of others, which also have a marker, padding, sources and an extension
  Compounds,       \* RTCP packets that are sent in one datagram
  MaxSent          \* bound: how many packets a sender sends

VARIABLES
  kind,      \* "sent", "other" or "rtcp"
  written,   \* what was written: one packet, or a sequence of them
  received,  \* the bytes that came
  offset,    \* where the view is in them
  steps      \* packets sent or passed so far
viewVars == <<kind, written, received, offset, steps>>

NoExtension == <<>>
Flag(bit, set) == IF set THEN 2^bit ELSE 0

(***************************************************************************)
(* RTP                                                                     *)
(***************************************************************************)

\* Packet::encode: version 2, no padding, no extension, no sources and no marker.
Encode(p) ==
  <<128, p.type % 128>> \o BigEndian(p.seq, 2) \o BigEndian(p.timestamp, 4) \o BigEndian(p.ssrc, 4) \o p.payload

\* sequence_number_inc and inc_timestamp
Advanced(p, frames) == [p EXCEPT !.seq = (@ + 1) % 65536, !.timestamp = @ + frames]

\* A packet of others, as RFC 3550 lays it out: an extension is what defines it and words.
Composed(p) ==
  <<128 + Flag(5, p.padding) + Flag(4, p.extension # NoExtension) + Len(p.sources), Flag(7, p.marker) + p.type>>
  \o BigEndian(p.seq, 2) \o BigEndian(p.timestamp, 4) \o BigEndian(p.ssrc, 4)
  \o FlattenSeq([i \in DOMAIN p.sources |-> BigEndian(p.sources[i], 4)])
  \o (IF p.extension = NoExtension THEN <<>>
      ELSE LET words == Tail(p.extension)
           IN  Head(p.extension) \o BigEndian(Len(words), 2) \o FlattenSeq([i \in DOMAIN words |-> BigEndian(words[i], 4)]))
  \o p.payload

BaseLength == 12

\* A number, or nothing when the packet ends before it.
NumberAt(d, at, width) == IF Len(d) < at + width THEN 0 ELSE ReadUnsigned(d, at, width)
FirstBits(d, low, width) == IF d = <<>> THEN 0 ELSE Bits(d[1], low, width)

Version(d) == FirstBits(d, 6, 2)
Padding(d) == FirstBits(d, 5, 1) = 1
HasExtension(d) == FirstBits(d, 4, 1) = 1
CsrcCount(d) == FirstBits(d, 0, 4)
MarkerBit(d) == Bits(d[2], 7, 1) = 1
PayloadType(d) == Bits(d[2], 0, 7)
SequenceNumber(d) == NumberAt(d, 2, 2)
Timestamp(d) == NumberAt(d, 4, 4)
Ssrc(d) == NumberAt(d, 8, 4)
Csrc(d, i) == IF i >= CsrcCount(d) THEN 0 ELSE ReadUnsigned(d, BaseLength + 4 * i, 4)

ExtensionStart(d) == BaseLength + 4 * CsrcCount(d)

\* get_header_extension_data: its length is read also from behind the end of a packet,
\* where it does not matter, as there the packet is too short with any length.
ExtensionSize(d) == 4 * NumberAt(d, ExtensionStart(d) + 2, 2)
ExtensionData(d) == IF HasExtension(d) THEN View(d, ExtensionStart(d) + 4, ExtensionSize(d)) ELSE <<>>

\* get_header_extension_defined_by_profile, in the order of the bytes
DefinedByProfile(d) == IF HasExtension(d) THEN View(d, ExtensionStart(d), 2) ELSE <<>>

\* Mutant of HeaderTotalLength: the header of the extension itself is not counted.
HeaderTotalLengthShort(d) == ExtensionStart(d) + (IF HasExtension(d) THEN ExtensionSize(d) ELSE 0)

\* header_total_length
HeaderTotalLength(d) == ExtensionStart(d) + (IF HasExtension(d) THEN 4 + ExtensionSize(d) ELSE 0)

\* validate
IsRtp(d) == Len(d) >= BaseLength /\ Len(d) >= HeaderTotalLength(d) /\ Version(d) = 2

\* payload_data
PayloadData(d) == IF Len(d) < HeaderTotalLength(d) THEN <<>> ELSE From(d, HeaderTotalLength(d))

(***************************************************************************)
(* RTCP                                                                    *)
(***************************************************************************)
SenderReport == 200
ReportTypes == {200, 201}

Block(b) ==
  BigEndian(b.ssrc, 4) \o <<b.fraction>> \o BigEndian(b.lost, 3) \o BigEndian(b.highest, 4)
  \o BigEndian(b.jitter, 4) \o BigEndian(b.last[1], 2) \o BigEndian(b.last[2], 2) \o BigEndian(b.delay, 4)

\* An RTCP packet, as RFC 3550 lays it out: its length is that of what comes after the
\* first word, in words.
ComposedRtcp(p) ==
  LET content == BigEndian(p.ssrc, 4) \o FlattenSeq([i \in DOMAIN p.info |-> BigEndian(p.info[i], 4)])
                 \o FlattenSeq([i \in DOMAIN p.blocks |-> Block(p.blocks[i])]) \o p.extension
  IN  <<128 + Flag(5, p.padding) + Len(p.blocks), p.type>> \o BigEndian(Len(content) \div 4, 2) \o content

RtcpHeader == 8
InfoLength == 20
BlockLength == 24

ReportCount(d) == FirstBits(d, 0, 5)

\* type: those that are not known are all one.
Type(d) == IF Len(d) < 2 \/ d[2] \notin 200..204 THEN 0 ELSE d[2]

\* length, in words, of 16 bits
Length(d) == IF Len(d) < 4 THEN 0 ELSE (NumberAt(d, 2, 2) + 1) % 65536
RtcpSsrc(d) == NumberAt(d, 4, 4)

\* validate
IsRtcp(d) ==
  Len(d) >= RtcpHeader /\ Version(d) = 2 /\ (Type(d) = SenderReport => Len(d) >= RtcpHeader + InfoLength)

\* ntp_timestamp, rtp_timestamp, packet_count and octet_count: the words of the sender info
InfoWord(d, i) == IF Type(d) = SenderReport THEN NumberAt(d, RtcpHeader + 4 * (i - 1), 4) ELSE 0
NtpTimestamp(d) ==
  IF Type(d) # SenderReport \/ Len(d) < RtcpHeader + 8 THEN <<0, 0>> ELSE <<InfoWord(d, 1), InfoWord(d, 2)>>
RtpTimestamp(d) == InfoWord(d, 3)
PacketCount(d) == InfoWord(d, 4)
OctetCount(d) == InfoWord(d, 5)

BlocksStart(d) == RtcpHeader + (IF Type(d) = SenderReport THEN InfoLength ELSE 0)

\* get_report_block, the first of which has index 0
ReportBlock(d, i) ==
  IF i >= ReportCount(d) \/ Len(d) < BlocksStart(d) + BlockLength * (i + 1) THEN <<>>
  ELSE View(d, BlocksStart(d) + BlockLength * i, BlockLength)

\* ReportBlockView, and ntp::Timestamp::from_compact for the last sender report.
BlockFields(d) ==
  [ssrc |-> ReadUnsigned(d, 0, 4), fraction |-> d[5], lost |-> ReadUnsigned(d, 5, 3),
   highest |-> ReadUnsigned(d, 8, 4), jitter |-> ReadUnsigned(d, 12, 4),
   last |-> <<ReadUnsigned(d, 16, 2), 65536 * ReadUnsigned(d, 18, 2)>>, delay |-> ReadUnsigned(d, 20, 4)]

ReportedLength(d) == 4 * Length(d)

\* get_profile_specific_extension
ProfileSpecificExtension(d) ==
  LET start == BlocksStart(d) + BlockLength * ReportCount(d)
  IN  IF start >= Len(d) \/ ReportedLength(d) > Len(d) THEN <<>> ELSE View(d, start, ReportedLength(d) - start)

\* Mutant of NextPacket: the length is taken as it is on the wire.
NextPacketShort(d) == LET length == ReportedLength(d) - 4 IN IF length >= Len(d) THEN <<>> ELSE From(d, length)

\* get_next_packet
NextPacket(d) == IF ReportedLength(d) >= Len(d) THEN <<>> ELSE From(d, ReportedLength(d))

(***************************************************************************)
(* What is viewed                                                          *)
(***************************************************************************)
CutOff(bytes) == \E length \in 0..Len(bytes) : received = SubSeq(bytes, 1, length)

ViewsInit ==
  /\ offset = 0 /\ steps = 1
  /\ \/ kind = "sent" /\ \E p \in SentPackets : written = p /\ received = Encode(p)
     \/ kind = "other" /\ \E p \in OtherPackets : written = p /\ CutOff(Composed(p))
     \/ kind = "rtcp" /\ \E c \in Compounds : written = c /\ CutOff(FlattenSeq([i \in DOMAIN c |-> ComposedRtcp(c[i])]))

\* The sender sends its next packet, with other data.
SendNext ==
  /\ kind = "sent" /\ steps < MaxSent
  /\ \E frames \in 1..2, p \in SentPackets :
       LET next == [Advanced(written, frames) EXCEPT !.payload = p.payload]
       IN  written' = next /\ received' = Encode(next)
  /\ steps' = steps + 1
  /\ UNCHANGED <<kind, offset>>

Viewed == From(received, offset)

GetNextPacket ==
  /\ kind = "rtcp" /\ IsRtcp(Viewed)
  /\ offset' = Len(received) - Len(NextPacket(Viewed))
  /\ steps' = steps + 1
  /\ UNCHANGED <<kind, written, received>>

ViewsNext == SendNext \/ GetNextPacket

(***************************************************************************)
(* Properties                                                              *)
(***************************************************************************)
RtpAsWritten(d, p) ==
  /\ MarkerBit(d) = p.marker /\ PayloadType(d) = p.type /\ SequenceNumber(d) = p.seq
  /\ Timestamp(d) = p.timestamp /\ Ssrc(d) = p.ssrc /\ Padding(d) = p.padding
  /\ CsrcCount(d) = Len(p.sources) /\ Csrc(d, Len(p.sources)) = 0
  /\ \A i \in DOMAIN p.sources : Csrc(d, i - 1) = p.sources[i]
  /\ HasExtension(d) = (p.extension # NoExtension)
  /\ HasExtension(d) =>
       /\ DefinedByProfile(d) = Head(p.extension)
       /\ ExtensionData(d) = FlattenSeq([i \in 1..(Len(p.extension) - 1) |-> BigEndian(p.extension[i + 1], 4)])
  /\ IsPrefix(PayloadData(d), p.payload)

BlockAsWritten(d, b) == BlockFields(d) = [b EXCEPT !.last = <<@[1], 65536 * @[2]>>]

\* The packet was cut off, or the rest is that of the packets behind it.
RtcpAsWritten(d, p, whole) ==
  /\ Type(d) = (IF p.type \in 200..204 THEN p.type ELSE 0)
  /\ Padding(d) = p.padding /\ ReportCount(d) = Len(p.blocks) /\ RtcpSsrc(d) = p.ssrc
  /\ p.type = SenderReport =>
       /\ NtpTimestamp(d) = <<p.info[1], p.info[2]>> /\ RtpTimestamp(d) = p.info[3]
       /\ PacketCount(d) = p.info[4] /\ OctetCount(d) = p.info[5]
  /\ p.type \notin ReportTypes \/ \A i \in DOMAIN p.blocks :
       LET block == ReportBlock(d, i - 1)
       IN  IF whole THEN BlockAsWritten(block, p.blocks[i]) ELSE block = <<>> \/ BlockAsWritten(block, p.blocks[i])
  /\ p.type \in ReportTypes => ProfileSpecificExtension(d) = IF whole THEN p.extension ELSE <<>>

\* What is viewed in a packet is what was written into it, whoever wrote it and wherever
\* it was cut off: a packet is valid exactly when its header is there, of its payload there
\* is what came, a report block is given when all of it is there, and a compound is walked
\* packet by packet up to the one that was cut off.  (Packet::encode and the views, whose
\* offsets depend on counts and lengths in the packet)
PacketsAreViewedAsWritten ==
  /\ kind = "sent" =>
       /\ IsRtp(received) /\ PayloadData(received) = written.payload
       /\ RtpAsWritten(received, [marker |-> FALSE, padding |-> FALSE, sources |-> <<>>, extension |-> NoExtension] @@ written)
  /\ kind = "other" =>
       /\ IsRtp(received) = (Len(received) >= Len(Composed(written)) - Len(written.payload))
       /\ IsRtp(received) =>
            /\ RtpAsWritten(received, written)
            /\ Len(Composed(written)) - Len(received) = Len(written.payload) - Len(PayloadData(received))
  /\ kind = "rtcp" =>
       LET lengths == [i \in DOMAIN written |-> Len(ComposedRtcp(written[i]))]
           start == FoldLeft(+, 0, SubSeq(lengths, 1, steps - 1))
           whole == Len(received) >= start + lengths[steps]
       IN  IF steps > Len(written) \/ start >= Len(received) THEN Viewed = <<>> /\ ~IsRtcp(Viewed)
           ELSE /\ offset = start
                /\ IsRtcp(Viewed) => RtcpAsWritten(Viewed, written[steps], whole)
                /\ whole => IsRtcp(Viewed)
=============================================================================
