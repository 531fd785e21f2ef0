------------------------------ MODULE MCParts ------------------------------
(***************************************************************************)
(* Instances for TLC of parts that meet nowhere: the comparison of PTP     *)
(* data sets, services on the network, recordings, who is told what of a   *)
(* node, and the bytes of packets.  A behaviour is about one of them.      *)
(***************************************************************************)
EXTENDS PtpDataSet, DnsSd, Recording, NodeSubscribers, RtpViews

CONSTANT Parts   \* those that a run looks at

VARIABLE part

\* PtpDataSet: qualities that differ in two fields.
TwoFields == {[i \in Fields |-> IF i = 2 THEN c ELSE IF i = 5 THEN p ELSE 0] :
                c \in {1, 2}, p \in {1, 2}}

\* DnsSd
Symmetric ==
  Permutations(Interfaces) \cup Permutations(Hosts) \cup Permutations(Subscribers) \cup Permutations(Observers)

\* Recording
Job(from, waits, to, comes, goes) == [from |-> from, waits |-> waits, to |-> to, comes |-> comes, goes |-> goes]
AllJobs == {Job("s16", "f32", "s16", "data", "data"), Job("s24", "f32", "s24", "planar", "buffer"),
            Job("s16", "s24", "s24", "channels", "data"), Job("s24", "f64", "s16", "buffer", "buffer"),
            Job("s8", "s16", "s16", "buffer", "data")}
SomeSamples == <<0, -One, One - 1, 256, -256, 1193046, -65536>>

\* Files of others: a chunk that is padded before and behind, an extended format,
\* and one that is not supported.
Chunk(id, bytes) == id \o LittleEndian(Len(bytes), 4) \o bytes \o (IF Len(bytes) % 2 = 1 THEN <<0>> ELSE <<>>)
File(chunks) == Riff \o LittleEndian(Len(chunks) + 4, 4) \o Wave \o chunks
List == Chunk(<<76, 73, 83, 84>>, <<1, 2, 3, 4, 5>>)
Bytes8 == [code |-> 1, channels |-> 1, rate |-> 44100, bits |-> 8]
Float64 == [code |-> 3, channels |-> 2, rate |-> 96000, bits |-> 64]
Extensible == [code |-> 65534, channels |-> 2, rate |-> 48000, bits |-> 24]
Extension == LittleEndian(22, 2) \o [i \in 1..22 |-> i]
Others ==
  {[data |-> File(List \o Chunk(FmtId, FmtFields(Bytes8)) \o Chunk(DataId, <<7, 0, 1, 2, 3>>) \o List), format |-> Bytes8, size |-> 5],
   [data |-> File(Chunk(FmtId, FmtFields(Float64) \o <<0, 0>>) \o Chunk(DataId, [i \in 1..8 |-> i])), format |-> Float64, size |-> 8],
   [data |-> File(Chunk(FmtId, FmtFields(Extensible) \o Extension) \o List \o Chunk(DataId, <<>>)), format |-> Extensible, size |-> 0]}

\* NodeSubscribers: without network interfaces, with one and with two; and descriptions
\* without streams, that cannot be received, with one stream and with two.
AllPorts == [none |-> {}, red |-> {1}, both |-> {1, 2}]
AllDescriptions == [none |-> {}, bad |-> {}, mono |-> {"first"}, dual |-> {"first", "second"}]

\* RtpViews
Rtp(seq, payload) == [type |-> 98, seq |-> seq, timestamp |-> 16777215, ssrc |-> 305419896, payload |-> payload]
AllSent == {Rtp(65535, <<1, 2, 3, 4>>), Rtp(256, <<>>)}
OtherRtp(p, marker, padding, sources, extension) ==
  [marker |-> marker, padding |-> padding, sources |-> sources, extension |-> extension] @@ p
AllOther ==
  {OtherRtp(Rtp(513, <<9, 8, 7>>), TRUE, FALSE, <<>>, NoExtension),
   OtherRtp(Rtp(513, <<9, 8, 7>>), FALSE, TRUE, <<66051, 7>>, NoExtension),
   OtherRtp(Rtp(513, <<9, 8>>), FALSE, FALSE, <<>>, <<<<190, 222>>, 5, 66051>>),
   OtherRtp(Rtp(513, <<>>), TRUE, FALSE, <<1, 2, 3>>, <<<<0, 1>>>>)}
ABlock(k) ==
  [ssrc |-> k, fraction |-> 10 + k, lost |-> 66051 + k, highest |-> 65536 * k + 2, jitter |-> 3, last |-> <<k, 258>>,
   delay |-> 77]
Rtcp(type, info, blocks, extension) ==
  [type |-> type, padding |-> extension # <<>>, ssrc |-> 16909060, info |-> info, blocks |-> blocks,
   extension |-> extension]
Info == <<1, 2, 197121, 4, 5>>
AllCompounds ==
  {<<Rtcp(200, Info, <<ABlock(1), ABlock(2)>>, <<>>), Rtcp(202, <<>>, <<>>, <<1, 2, 3, 0>>)>>,
   <<Rtcp(201, <<>>, <<ABlock(3)>>, <<9, 8, 7, 6>>), Rtcp(203, <<>>, <<>>, <<>>), Rtcp(207, <<>>, <<>>, <<>>)>>,
   <<Rtcp(200, Info, <<>>, <<5, 5, 5, 5>>)>>}

-----------------------------------------------------------------------------

\* What has several initial states has them from the start, the other parts are idle.
PartsInit ==
  /\ part \in Parts
  /\ Init /\ DnsInit /\ RecordingInit /\ SubscribersInit /\ ViewsInit
  /\ part # "recording" => job = CHOOSE j \in AllJobs : TRUE
  /\ part # "subscribers" => Bare
  /\ part # "views" => kind = "sent" /\ written = CHOOSE p \in AllSent : TRUE

partVars == <<vars, dnsVars, recordingVars, subscriberVars, viewVars>>

PartsNext ==
  \/ /\ part = "data sets" /\ Next
     /\ UNCHANGED <<dnsVars, recordingVars, subscriberVars, viewVars>>
  \/ /\ part = "services" /\ DnsNext
     /\ UNCHANGED <<vars, recordingVars, subscriberVars, viewVars>>
  \/ /\ part = "recording" /\ RecordingNext
     /\ UNCHANGED <<vars, dnsVars, subscriberVars, viewVars>>
  \/ /\ part = "subscribers" /\ SubscribersNext
     /\ UNCHANGED <<vars, dnsVars, recordingVars, viewVars>>
  \/ /\ part = "views" /\ ViewsNext
     /\ UNCHANGED <<vars, dnsVars, recordingVars, subscriberVars>>

PartsSpec == PartsInit /\ [][PartsNext /\ UNCHANGED part]_<<part, partVars>>
=============================================================================
