# Verification of ravennakit

TLA+ models of the parts of ravennakit where several actors, timers, messages or
numbers meet, the TLC runs that check them on small instances, and TLAPS proofs of
the properties that matter most for instances of every size. `PROJECT.json` maps
every definition to the lines of the repository that it stands for.

Check a run with `tlc -config <Run>.cfg <Module>.tla` and a proof with
`tlapm <Module>Proofs.tla`. Section 4 lists the runs, section 5 the theorems.

## 1. The system

ravennakit is a library that turns a host into a RAVENNA / AES67 / ST 2110-30
device. Nearly everything runs on one `boost::asio::io_context` (the maintenance
thread): a handler runs to its end, and what interleaves is the order of handlers.
Audio crosses threads: a network thread sends and receives RTP, and the audio
thread reads and writes samples in real time. Three lock-free structures carry
everything between those threads.

| Component | State | Operations | Interacts with | Hard behaviour |
|---|---|---|---|---|
| PTP instance and ports (`ptp/ptp_instance.cpp`, `ptp/ptp_port.cpp`, `ptp/bmca/`) | data sets of the instance and of every port, `erbest_`, the foreign master list, two kinds of timers | receive Announce, receipt timeout, state decision event, add, update, remove ports | ports write the parent data set that the instance shares; the clock that senders and receivers read | order of messages and timers, silent and restarted masters, several ports that decide in turn, must converge |
| PTP data set comparison (`ptp/bmca/ptp_comparison_data_set.cpp`) | none | `compare` | the BMCA | has to be an order, otherwise the best master depends on the order of the ports |
| PTP delay measurement, local clock (`ptp/ptp_port.cpp`, `ptp/ptp_instance.cpp`) | syncs that wait, delay sequences, statistics of offsets and delays, the clock | receive Sync, Follow_Up, Delay_Resp, send Delay_Req, adjust, step | parent changes, UDP sockets | late, doubled and lost messages, the clock is set between two measurements, outliers |
| PTP messages and times (`ptp/messages/`, `ptp/types/`) | data only | parse, write, add, scale, convert | the ports, RTP timestamps | carries, limits, wraps |
| AtomicRwLock (`core/sync/atomic_rw_lock.hpp`) | one atomic word: reader count and two bits | lock and try_lock of either kind, unlock | audio receiver and sender | any interleaving of atomic operations; give-up |
| RealtimeSharedObject (`core/sync/realtime_shared_object.hpp`) | active pointer, storage, the reader's guard | update, access_realtime, reset | maintenance and audio threads | the reader takes the pointer away while update runs |
| Fifo, FifoBuffer (`core/containers/`) | two timestamps, capacity, up to two mutexes, the buffer | push, pop, pop_all, size, reset, resize | RTP receive and send queues | five synchronization strategies, wrap around, stale sizes |
| RTP audio receiver (`rtp/detail/rtp_audio_receiver.cpp`) | readers, streams, sockets with their multicast memberships, one lock per reader | add, remove reader, set interfaces, receive, read | Fifo, AtomicRwLock, ring buffer, the OS | three threads, partial failures, membership counting |
| RTP receive path (`rtp/detail/rtp_ringbuffer.hpp`, `rtp_packet_stats.hpp`, `rtp_filter.hpp`) | ring of samples by timestamp, sliding window of sequence ids | write, read, clear_until, update, reset | audio receiver | wrap of 16 and 32-bit counters, late and duplicated packets |
| RTP audio sender (`rtp/detail/rtp_audio_sender.cpp`) | writers, queues of packets | add, remove, schedule, send | Fifo, AtomicRwLock, PTP clock | threads, audio in pieces that do not fit packets |
| RTP and RTCP packets (`rtp/`) | bytes | write, view | the audio receiver and sender | packets cut off anywhere |
| RTSP (`rtsp/`) | parser state, connections with their buffers, paths and handlers | parse, connect, send, answer, disconnect | RAVENNA client and senders | input in arbitrary pieces, sending while a write is in flight |
| SDP, AES67 (`sdp/`, `aes67/`) | text | parse, write, generate a description, take parameters from one | RTSP, RAVENNA sender and receiver | what is written has to be understood |
| RAVENNA node (`ravenna/`) | senders, receivers, sessions, subscribers | create, configure, remove, save, restore, announce, follow, patch | everything above | order of discoveries, answers, announcements and configuration changes |
| NMOS node (`nmos/`) | registration status, registry, resources, timers | start, stop, connect, register, heartbeat, its HTTP API | HTTP client and server, DNS-SD, RAVENNA node | late answers after stop, lost registrations, PATCH that fails half way |
| HTTP client and server, AsioTimer (`core/net/`) | queue of requests and session; listener and sessions; timers | request, cancel; start, stop, route, answer | NMOS node | callbacks in the middle of handlers, stop with operations under way |
| UDP sockets (`core/net/sockets/`) | sockets with their groups, a wait and a round of reads | start, stop, set interface, read, send | PTP ports, the OS | rounds scheduled again, completions after stop, refused calls |
| DNS-SD (`dnssd/`) | services and the queries about them | browse, resolve, advertise | RAVENNA and NMOS browsers | answers that come late, several interfaces |
| Audio formats, buffers, streams (`core/audio/`, `core/streams/`) | samples | convert, write, read, finalize | applications | wrap around in conversions, power failure |
| SubscriberList, containers, platform (`core/`) | lists | subscribe, tell | everywhere | who is told what, in which order |

What makes each correct:

- PTP: a port follows a master only with a best master of its own; the parent only follows Ebest;
  a silent master is forgotten; after any disturbance the instance ends up with the
  best master heard. The clock follows that master, and delays are measured as they are.
- Comparison: antisymmetric, and one scan finds the overall best.
- AtomicRwLock: behaves as a reader-writer lock, and only other writers make a writer wait.
- RealtimeSharedObject: the reader holds the value published last, untouched.
- Fifo: a queue; two threads never hold the same slot.
- RTP: a packet carries the frames of its own time; a frame that is read was received for
  exactly that timestamp; a group is joined while some reader wants it and left after.
- RTSP, SDP, HTTP: messages arrive as they were sent, whoever writes and reads them, and every
  client gets the answers to its own requests in order.
- RAVENNA: what is streamed, served, advertised, subscribed to, shown and saved is what is
  configured, and receivers end up with what the senders say now.
- NMOS: a registered node is not silent, and what it reports is what the registry has.
- DNS-SD, subscribers: in the end everybody was told of what there is, and of nothing else.
- Recording: what is played back is what came in, also after a crash.

## 2. Plan

Order of work, most important behaviour first; every step is done except where it says so.

1. `PtpBmca` → `PtpNetwork` (composes the instance with masters and links), `PtpDataSet`.
2. `AtomicRwLock` implements `RwLock`; `Fifo` implements `BoundedQueue`; `RealtimeSharedObject`.
3. `NmosNode` with HTTP client and timers, and a registry.
4. `RtpPackets`, `RtpAudioSender`, `RtpAudioReceiver` → `RtpLink`; `RtpMembership`.
5. `SessionDescription`, `RtspConnection`, `NmosApi` → `MCMessages`.
6. `RavennaSender`, `RavennaReceiver` → `RavennaNode` → `Ravenna`; `NodeSubscribers`; `DnsSd`.
7. `PtpClock` → `PtpDelay`; `PtpTimes`; `UdpSocket`; `HttpServer`; `Recording`; `RtpViews`.
8. Proofs, in the order in which they say most: lock, shared object, best master and
   comparison; then the fifo as a queue, the NMOS node, the HTTP server, the UDP sockets,
   the RTP sender, the resources that a started NMOS node has at its registry, the
   arithmetic of PTP times, the multicast memberships, the RTP receiver, DNS-SD, and who knows what of a node.

Left: theorems about what is only model-checked now (section 5 says why for each), the interface list of the operating system, Pdelay messages, the JSON of NMOS
resources, and the containers that no modelled component uses.

## 3. The modules

Each module begins with a comment on what it stands for and what it abstracts. History
variables, which the code does not have, are named here; they only serve the properties.

### PTP

`PtpBmca` is one instance with its ports. A handler is one step, as all of them run on the io_context.

| Model | Code |
|---|---|
| `portState`, `erbest`, `foreign`, `timer` | `port_ds_.port_state`, `erbest_`, `foreign_master_list_`, `announce_receipt_timeout_timer_` of each `Port` |
| `parent`, `calibrated` | `parent_ds_` (and the data sets copied with it), `local_clock_.is_calibrated()` |
| `HandleAnnounceMessage` | `Port::handle_announce_message`, with the parent data set update and the decision event at its end |
| `AnnounceReceiptTimeout`, `StateDecisionTimer` | the handlers of the timers, then `execute_state_decision_event` |
| `AddPort`, `RemovePort`, `UpdateLocalClock` | `Instance::add_port`, `update_ports`, `update_local_ptp_clock` as far as it calibrates |

Time is counted in announce intervals. An announce message is its source, sequence
id and the rank of its data set. `Instance` constructs `DefaultDs(true)`: always slave-only
with clock class 255, so the master, pre-master and passive states are unreachable.
`PtpNetwork` adds masters that send a message per interval, links that fail and recover,
and masters that restart; `silence` is a history of who was heard when. `PtpDataSet` is
`ComparisonDataSet::compare` field by field, and the scan of `calculate_erbest` and `determine_ebest`.

`PtpClock` holds the messages as bytes, the sliding statistics, the filter and the local clock;
`PtpDelay` one port that follows a master with them (`clock`, `port`), with the masters, the
`wire` of messages with the times they carry, and `requests` that wait to be sent. `now` is true
time; `measured` is a history of offsets and delays next to their true values. The clock's drift between two corrections, which its
frequency ratio makes, is computed, and rounds to nothing at the run's millisecond. `scenario` says
what goes wrong: a jump of the master, disorder on the wire, time resident in a transparent
clock, or a crowd of ports. `PtpTimes` is the arithmetic of `Timestamp` and `TimeInterval`.

### Structures between threads

`RwLock` is the abstract lock. `AtomicRwLock` has one step per atomic operation, program
counters and the snapshots threads hold; the give-up after 10^6 rounds may happen in any round.
`RealtimeSharedObject` has one step per atomic exchange, copy or store of `update` and of the
realtime guard; values are numbered, and one that was moved from is `Moved`.
`BoundedQueue` is the abstract queue. `Fifo` models all five strategies by which sides hold a
mutex, with prepare, copy and commit as separate steps, the two loads of `size`, `pop_all` with the
size it read, `reset` and `resize`. Timestamps wrap at `TsMod`, a multiple of the capacity as
2^64 is of the powers of two that the buffers use. The refinement mapping takes the elements between the
timestamps: elements enter and leave at commits.

### RTP

`Numbers` has `WrappingUint`, `SafeInt` and byte order; `RtpPackets` the ring buffer of samples
(`cells`, byte by byte, and the `next` timestamp) and the packet statistics.
`RtpAudioSender` is one writer: `writer` (ring, timestamp of the packet that is being filled,
sequence number, outgoing queue), `sending` (the audio thread is inside `send_data_realtime`) and the
`wire`. `RtpAudioReceiver` is one reader with its redundant streams: `stream`, `silent` (which
stream is past its timeout), `storing` (a packet between its two queues) and `reader`.
`RtpLink` joins both over a network that loses, repeats, reorders and delays packets;
`scenario` gives the sizes of the application's calls; `arrived`, `overrun` (the reader is behind by more
than the buffer), `mistaken` (a packet came whose time or place is not what 32 bits tell), `numbers` (of each
time, the how-manieth packet) and `got` (with `far`, a number half the range away) are histories of what reached the reader. `RtpMembership` is the set-up side: `readers`, `sockets`,
the memberships `joined` that the system has, `crashed` (a null socket was dereferenced) and
`faults` (which system call fails). `RtpViews` writes RTP and RTCP packets, cuts them off and looks at them
through the views (`written`, `received`, `offset`, `steps`).

### RAVENNA

| Module | Code |
|---|---|
| `SessionDescription` | lines and attributes of `sdp/`, `RavennaSender::generate_sdp`, `create_rtp_receiver_parameters`, `StringParser` as it is used there |
| `RtspConnection` | `rtsp::Parser` fed in pieces, `rtsp::Connection` with its buffers and writes, URIs; state of both `ends`, the `wire`, what was `sent`, `got`, `subscribed` and `given` |
| `RavennaSender` | `RavennaSender`, the writers it uses, `rtsp::Server` with its paths, `RavennaRtspClient` with its sessions and connections |
| `RavennaReceiver` | `RavennaReceiver` and the readers it uses |
| `RavennaNode` | `RavennaNode`: ids, creation, removal, interfaces, configuration, `to_boost_json`, `restore_from_boost_json` |
| `Ravenna` | two nodes (or one that receives from itself), the steps of users, NMOS controllers, PTP, DNS-SD and the network |
| `NmosApi` | routes of the node and connection APIs, the lists of resources, `PATCH` of senders and receivers |
| `DnsSd` | `BonjourAdvertiser`, `BonjourBrowser`, `RavennaBrowser`; the daemon is external |
| `NodeSubscribers` | everything that is told to the subscribers of a node, its parts, its senders and receivers |

The operators of the RAVENNA modules take and give the record of a node, because one handler often
works on several senders. Histories: `left` (operations that a scenario has left), `excused`
(senders whose receivers cannot know of a change, see "Deviations"), `dangling` (something destroyed
is still referred to), `exchange` and `taken` of `NmosApi` (the last request with its answer, the devices that were taken away), `doubled` of `RtpMembership` (groups that a reader came or went with in both its streams), `stale` of
`DnsSd` (offers of a service that were withdrawn since it was found, and queries that timed out), and of
`NodeSubscribers` `since` (the configurations of the NMOS node since everybody was told one), `foreign` (the last other parent) and `misled`
(the streams of which a subscriber was told another state than the receiver's).

Taken for granted: session names are unique on the network; the application gives a sender a
name; a write that the network takes is taken whole.

### NMOS node and HTTP

`NmosNode` holds `AsioTimer` and `HttpClient` as functions on records: a response callback makes and
cancels requests in the middle of a handler of the session, so that a handler is what happens
before the callback, the callback, and what happens after it (`ReadResponse`). A timer keeps a
completion that is queued when it is stopped or started again.

| Model | Code |
|---|---|
| `node.client` | `requests_`, `state_` and `callback_` of the session, and how many operations it has under way |
| `node.status`, `enabled`, `mode`, `selected`, `postErrors`, `failed` | `status_`, `configuration_`, `selected_registry_`, `post_resource_error_count_`, `failed_heartbeat_count_` |
| `node.content`, `node.changed` | the resources with a revision for their content, and those whose `version` is later than `current_version_` |
| `node.timer`, `node.heartbeat` | `timer_` (retry or discovery), `heartbeat_timer_` |
| `SetConfiguration`, `StartNode`, `StopNode`, `AddOrUpdate`, `Remove` | the calls of the RAVENNA node and the PTP instance |
| `SessionStep`, `SessionError`, `ReadResponse` | `on_resolve`, `on_connect`, `on_write`, `on_read` with and without error, and the callback they run |
| `TimerFires`, `HeartbeatFires`, `RegistryResolved` | the handlers of the timers and of the DNS-SD browser |

The registries are external: they keep what was posted last, answer a heartbeat or a delete of
what they do not know with an error, and may fail or restart. The clock of the versions is taken not to go back.

`HttpServer` has `server` (up, accepting, the list of its sessions), `session` (the stage of every
connection and what its session is at) and `client` (what each sent and got). A handler may stop or
start the server that runs it.

### Sockets, times, recordings

`UdpSocket` has `ptpPorts`, `impls` (per port the two sockets with their wait, round, queue, groups,
and which calls the system refused) and the limit `datagrams`; `astray` and `late` say that a port
sent on another interface than its own, and that a handler was called whose port had gone; whether the multicast of one port reaches another is not said.
`Recording` is an application that records and plays back: `captured`, the `fifo` with its
conversions, the `writer`, the `disk` and its `headers`, the `reader` and what was `played`; `expected`
and `input` are histories. The power may fail between any two writes.

### MC modules

`MCPtpNetwork`, `MCRtpLink` and `MCNmosNode` hold values of constants. `MCRavenna`, `MCMessages`,
`MCEndpoints` and `MCParts` put parts that share no state side by side: a variable (`about`, `endpoint`,
`part`) says at the start which of them a behaviour is about. The proofs are about the
specification of each part alone.

## 4. What is checked

| Run | Shows | States |
|---|---|---|
| PtpNetwork | `ForeignMastersAreConsistent`: Erbests are backed by entries, and entries claim no more messages than fit in their age. `ErbestIsFresh`: a silent master is forgotten. `ActiveHasErbestUnlessOwnBetter`: the one way to an active port without Erbest, and to reading an empty Ebest, is a D0 better than Ebest. `ParentChangesToEbest`: or, while no port has an Erbest, to a later message of the same master. `Converges`: once the network is stable the instance follows the best master heard, for ever. | 326 880 |
| AtomicRwLock | `MutualExclusion`; `RefusalMeansWriter`: a bit turns readers away only for a writer; `ImplementsRwLock`; `WriterNotStarved` by readers | 782 |
| RealtimeSharedObject | `GuardHoldsPublished`: the guard holds the latest value; `HeldSlotIsStable`: nobody writes to its slot | 2 556 |
| Fifo | `ReservedSlotsAreDisjoint`; `ImplementsQueue` for every strategy | 2 612 076 |
| NmosNode | `OneOperationAtATime`: callbacks never start a second operation of a session. `RegisteredIsAlive`: a registered node is not silent. `InSync`: what a registered node has sent is what the registry has. `Recovers`: a registry that forgot the node gets it back. | 928 913 |
| RtpLink | `PacketsCarryTheirFrames`; `ReceiverKeepsWhatArrived`: what is read is what was sent for that time or silence, and the statistics count what happened | 363 369 |
| Ravenna | `ReceiverFollowsSender`, `SendersAreServed`, `NodeDoesAsConfigured`, `NmosShowsWhatIsConfigured` of two nodes; `ServerServesItsClients` of the HTTP server | 255 099 |
| Messages | `MessagesArriveAsSent`, `SessionsAreFound` over RTSP in pieces; `ReceiversUnderstandSenders`: a description says to a receiver what the sender does; of the NMOS APIs `LinksResolve` (what is listed and named is there, but for what a device goes on naming after its removal) and `PatchTakesEffect` (all routes show what the PATCH was answered, each in its form) | 14 689 |
| Endpoints | `ClockFollowsMaster`, `DelaysAreMeasured`, `JumpsAreFollowed` of a PTP port; `GroupsFollowReaders` of the audio receiver; `SocketsServeTheirPorts` of PTP sockets; `TimesAreExact` | 443 473 |
| Parts | `BestOfAll` of the data set scan; `DiscoveryIsCurrent` of DNS-SD; `RecordingIsPlayedBack`; `ObserversKnowTheNode`; `PacketsAreViewedAsWritten` | 426 715 |
| RtpLinkGap, RecordingCrash | the two deviations below | counterexamples |

### Bounds, and why they are enough

- PTP: one port that hears two masters, or two ports with one each or the same; one data set better and one worse than D0;
  two changes of links and masters, or one; sequence ids modulo 6; receipt timeouts of 3 to 4 intervals. Ages and counts are
  capped where the code stops looking at them. Data sets: two clocks, two fields that differ, 0 to 2 steps, scans of three.
- PTP delay: a second of 1000 ticks, 4 fractions, windows of 5 offsets (51 in the code), 2 Syncs and 3 delay
  sequences kept (8, 31), 2 first delays (10), a lock after 2 (10). The outlier rule at 1.75 standard deviations
  needs at least five values to call one an outlier, and to follow a jump k of n values have to be
  outliers with n ≤ k(1 + 1.75²), which these windows reach.
- Times: 16 bits for 64 in `int64_t`, which is eight seconds, RTP timestamps modulo 64, four computations in a row; operands around zero,
  one second and the limits; factors from -2 to 12, so that products and the rests of divisions overflow too.
- Lock, shared object, fifo: two threads of each kind and one that does both; eight updates; capacity 2 with batches
  of 2, so that batches fit exactly, wrap in the middle, and find it full or empty; timestamps wrap after 4.
- RTP: four scenarios; buffers of 8 and 5 frames of two bytes, packets of two frames, queues of 2; timestamps modulo 64 from 28 on,
  so that positions in bytes stop fitting and a packet can be half the range away; sequence numbers modulo 6, which wrap and are soon half their range apart. Membership: two readers, three ids, sessions that share port,
  group or neither, two interfaces, also one for both streams, one failing call. Views: two packets that rav writes, four of others, three compounds, cut anywhere.
- RAVENNA: two nodes; twelve starts, each with a budget of two to five operations of the kinds that may meet
  (a start that changes interfaces edits a sender and a receiver besides, one that restores a saved node edits what was saved).
- Messages: two messages per end, cut anywhere and around the ends of lines; conversations on two names; 100 kinds of
  senders (destinations, sample rates, packet times); one sender, one receiver and two devices with one id; 14 bodies of PATCH.
- NMOS node: one device and a sender, two reconfigurations, one edit, one fault, two failed heartbeats for five.
- HTTP server: two connections, which are alike (`SYMMETRY`), two requests each of three kinds, which answer 200, 404 and 500, two starts. UDP sockets: two ports, two networks, rounds of 2 (10), three events.
- DNS-SD: one service name, two interfaces, hosts and subscribers, four changes; the exemptions of `BrowserSeesAdvertised`
  (a service that came back, section 4) matter from six changes on, and were tried with one service and seven. Subscribers: two observers,
  three operations, ids to 4. Recording: two channels, a fifo of 3 frames, 7 sample values in the types the code converts, six frames.

Deadlock is checked except in the runs of systems that really stop: when a scenario's budget is used up
and nothing is under way any more.

### Fairness

- `PtpNetwork`: weak fairness of starting a port, of handling a message that has arrived, of a receipt timer
  at its longest timeout, and of the interval (the periodic timers and the masters). The io_context runs every
  handler that is ready, and asio's timers do expire. Nothing is assumed of links and restarts,
  whose number is bounded so that the network is stable in the end.
- `AtomicRwLock`: weak fairness of each thread's steps inside the lock: the scheduler runs every thread. Readers may
  come back for ever; `WriterNotStarved` holds all the same because a waiting writer turns them away.
- `NmosNode`: weak fairness of the session's handlers, of a response, of both timers and of the discovery.
  The io_context runs what is ready and timers expire; that a registry answers is the assumption of `Recovers`,
  and the outcome of the answer is the registry's. Edits, configurations and failures are bounded and not fair.

The other specifications assert safety and state no fairness. Where they say that something happens in the end
(`ReceiverFollowsSender`, `DiscoveryIsCurrent`, `JumpsAreFollowed`, `MessagesArriveAsSent`), they say it of the states in which nothing is under way.

### Deviations that runs exhibit

- **RtpLinkGap** (`rtp_ringbuffer.hpp:130`). `clear_until` multiplies timestamps by the frame size in 32 bits, `write` and
  `read` in 64: once the product wraps, the silence for a gap overwrites frames that were received.
- **RecordingCrash** (`wav_audio_format.cpp:239`). Audio written after a `finalize` makes the file unreadable when the
  power fails, although `finalize` is documented as the protection against that.

### Deviations that were met and have no run

These follow from the code that was modelled; the properties are stated for the behaviours without them.

PTP
- With two ports and a master worse than D0, m2 makes a port without Erbest a slave, and an empty Ebest may be dereferenced (`ptp_port.cpp:101`);
  `ActiveHasErbestUnlessOwnBetter` says that it takes a D0 better than Ebest, and the bounds of `PtpNetwork` reach it. The override meant for "this instance is the best" also catches m3 (`:116`). `erbest_` drops the
  small sequence ids of a restarted parent while the parent data set takes them (`:517`).
- `set_state` returns before it schedules the receipt timer when the state stays the same, and restarts it on every
  change between uncalibrated and slave: a port whose calibration keeps coming and going keeps a silent
  master for as long as it does. `ErbestIsFresh` therefore holds for the few changes of the run and not for any number.
- A response is matched by its sequence id, and sequences outlive a change of the parent (`:629`); a late or repeated Follow_Up applies its
  correction twice; a request's `t3` is taken after the correction by the same Sync; the filter of delays returns a tenth of each delay;
  delays above about 1.1 ms stay outliers for ever after the first ten (`:639`); a message that does not parse is used all the same (`:419`);
  a double keeps 0.24 µs of today's time (`:219`). The clock's frequency ratio is the third power of one offset, and what the clock gained
  by it is dropped by the next correction: after an offset of 0.3 s that is 27 µs in a second (`ptp_local_clock.hpp:78`).
- `TimeInterval::operator*=` multiplies the fraction of a nanosecond by the magnitude of a negative factor, so that the product is too large by twice
  that (`TimesAreExact` says so, and `ptp_time_interval.test.cpp:283-329` has the inexact values as expected ones). `operator/=` overflows 64 bits when
  more than 140 737 seconds are left over, which takes a larger divisor still. `to_wire_format` clamps to the minimum where the sum would fit; `from_rtp_timestamp32` is 2^32 samples off across a wrap.

Threads
- The realtime guard's `reset` followed by its destructor publishes a null pointer (`realtime_shared_object.hpp:120`); two updaters, which the
  class comment allows, write to a slot that is published (`HeldSlotIsStable` assumes one updater).
- `FifoBuffer::reset` leaves a vector without elements (`fifo_buffer.hpp:152`); capacity 0 divides by zero (`fifo.cpp:34`).

RTP
- A buffer of more than 4096 frames less a packet overwrites frames that wait for their packet: `ScenarioAssumption` excludes it,
  and a wrap of the timestamp, at which the index into the ring jumps.
- Loops `for i < size()` that pop handle only half of a queue per call; an empty packet ends the pass for all sockets; one of
  two streams stays "receiving" while the other keeps the maintenance time fresh (`rtp_audio_receiver.cpp:691`); two threads pop `packets_too_old`;
  `PacketStats::reset` keeps the dropped packets; `add_writer` succeeds without a free writer; a failed join is never
  tried again; a reader with the same group in both streams on one interface, which `NetworkInterfaceConfig` allows, joins nothing when it is the first, as
  `setup_reader` counts both before it joins, and leaves nothing when it is the last (`doubled` exempts such a group from `GroupsFollowReaders`); `set_interfaces` may stop half way or use a socket that is not there (`crashed`).
- Views: the size of a profile extension underflows, a length of 65 535 wraps to 0 so that the same packet comes again,
  `marker_bit` reads a byte that was not checked, the profile id is in host byte order.

RAVENNA, RTSP, SDP
- A changed interface is not announced (`ravenna_sender.cpp:313`) and a restore that fails half way leaves old and new senders (`ravenna_node.cpp:674`):
  both are `excused` in `ReceiverFollowsSender`. A restored sender announces under its first id; a restore uses a destroyed advertiser
  (`ravenna_sender.cpp:96`) and adds removed NMOS resources again. A client whose connection is lost never connects again.
- `k_sdp_inactive` is "recvonly", and an unknown attribute without value rejects a description; media information is written as `s=`; `ptime` has three
  digits; L8 can be described and is refused by receivers; port 5004, payload type 98 and ttl 15 are fixed; the order of destinations decides which stream is for which interface.
- A write may use a buffer that a later send moves (`rtsp_connection.cpp:103`); parser errors stop reading without `on_disconnect`; `Uri::parse` throws in a
  handler; the server answers any method with a description.
- `set_advertiser` asserts an advertisement (`ravenna_sender.cpp:329`), which a sender that is switched off has not: where `RAV_DEBUG`
  is on, a node with such a sender stops there when it stops advertising; where it is off nothing happens (`AssertsAdvertised`, which `SendersAreServed` shows to hold of just the enabled senders).

NMOS, HTTP
- `stop` lets the request in flight finish: a stopped node may register and beat (`nmos_node.cpp:1395`). A refused connection
  calls the callback of the previous request (`http_client.cpp:220`). `set_host` drops the session and keeps the queued
  requests (`http_client.cpp:83`). With three configurations that breaks `InSync`: a registry given by hand is being connected when
  mDNS is configured instead; the connection is answered late and queues its posts and the verification; discovery then
  finds another registry, to which what is left of them goes; `stop` while the verification is in flight cancels the
  rest, and its answer makes a stopped node "registered" that beats at a registry that has nothing of it. With two
  configurations, which the run has, it cannot happen. `manifest_href` changes without a new version (`:220`).
- PATCH sets ids before it validates; devices keep the ids of removed members (`nmos_node.cpp:2063-2127`), which the node API then answers with 404: `NamedAreListed` of
  `LinksResolve` allows it for these alone. The id of a sender's peer is octets in staged and in the node API (`:1159`, `nmos_sender.hpp:94`) and text in
  the answer of PATCH and in active (`:1239`, `:1279`): `AlsoShown` of `PatchTakesEffect` says so; an activation mode of null is answered 500; query strings are
  part of the path; `remove_device` deletes no members at the registry.
- The HTTP server's accept errors stop it from accepting for ever; `stop` only half-closes sessions.

Others
- DNS-SD: a service that comes back while one of its interfaces has gone may keep the host and the TXT record that it had in between
  (`stale` exempts it). The removal of an address counts as an address; a service that moves keeps the query for its old host; a removal of a service never seen
  dereferences `end()`.
- UDP sockets: the destination has the source's port (`extended_udp_socket.cpp:127`); an empty datagram stays at the head and reading goes round without end; a
  read error ends receiving for ever although `start` then does nothing.
- Subscribers: `stop` of the NMOS node during a restore and a `set_configuration` with which it cannot start do not tell the configuration
  (`nmos_node.cpp:1393-1400`, `:1455-1460`), a restart into the same status not that; that the own clock became the best is not told
  (`ptp_instance.cpp:240-259`), although `ptp_instance.hpp:61` announces every change of the parent; who subscribes to a RAVENNA receiver is
  told the state of the first stream for each (`ravenna_receiver.cpp:444`). There applications know something else than what is, and
  `ObserversKnowTheNode` says what: a configuration that was set since everybody was told one, and only while the status, which is
  told, is disabled or error; the last other parent; another state only until that stream changes.
  Callbacks that subscribe inside a `foreach` change the list that is walked.
- Audio: the conversion from planar to interleaved takes the channel modulo the frames (`audio_data.hpp:318`); planar data mixes channels when the fifo wraps;
  a resize keeps data that it says it clears; −1.0 becomes −32 767.

## 5. What is proved

| Theorem | Module | For every value of the constants, and assuming |
|---|---|---|
| `BmcaInvariance`: types, Erbest in the list, entries within the window | PtpBmcaProofs | the constants' assumptions |
| `ActivePortInvariance` (`ActiveHasErbestUnlessOwnBetter`), `ParentIsEbest` (`ParentChangesToEbest`) | PtpBmcaProofs | the constants' assumptions |
| `ScanFindsTheBest`, `ComparisonIsAntisymmetric` | PartsProofs | `Agrees`: data sets of the same grandmaster have the same quality |
| `Exclusion`, `UnlocksAreAsserted`, `RefusalsAreJustified`, `Refinement` (of `RwLock`) | AtomicRwLockProofs | finitely many threads; fewer than 2^30, so that the count does not carry into the bits above it |
| `ReaderGetsPublished`, `ReaderIsUndisturbed`, `ReplacedIsReturned` | RealtimeSharedObjectProofs | `ProperUse`: one updater, no early reset |
| `FifoTypeCorrect`, `SlotsAreExclusive`, `FifoImplementsQueue` (refinement of `BoundedQueue`) | FifoProofs | one thread on a side without mutex; `TsMod` a multiple of the capacity |
| `NodeTypeCorrect`, `SessionHasOneOperation`, `NoSilentRegistration` | NmosNodeProofs | the constants' assumptions |
| `StartedNodeIsInSync`: `InSync` | NmosNodeProofs | the node was configured (started, stopped, reconfigured) at most once; additions, changes and removals are unlimited |
| `ServerServes` | EndpointsProofs | the constants' assumptions |
| `SocketsServe` | EndpointsProofs | the constants' assumptions |
| `TimesStayExact` | EndpointsProofs | the constants' assumptions: any number of nanoseconds in a second and of fractions in those, any times, factors (negative ones too), rates and any width of the integers |
| `LinkCarriesFrames` | RtpLinkProofs | `ScenarioAssumption`: timestamps do not wrap, buffers fit beside what waits |
| `ReceiverKeeps`: `ReceiverKeepsWhatArrived` | RtpLinkProofs | `ScenarioAssumption`; any number of packets, whose sequence numbers wrap, and positions in bytes that do not fit in 32 bits. Nothing is said of the buffer after it was `overrun` or `mistaken` (`IsMeant`: a time half the range away, or a gap that 32 bits misplace, as RtpLinkGap shows), nor of the statistics of a stream that is `far` |
| `GroupsAreThoseWanted`: `GroupsFollowReaders` | PartsProofs | the constants' assumptions: any number of slots, sessions and interfaces, any calls that fail; nothing is said of a group while it is in `doubled` |
| `DiscoveryStaysCurrent`: `DiscoveryIsCurrent` | PartsProofs | `NamesAssumption` (the placeholder of the query for services is no name of one): any number of services, interfaces, hosts, subscribers and changes; of the daemon, what `Answer` says: it answers a query in order, with what is different from before |
| `ObserversStayInformed`: `ObserversKnowTheNode` | PartsProofs | `AddressAssumption` (a generated address is one): any number of applications, senders, receivers, descriptions, interfaces and changes |

Each invariant was first checked as an invariant of a run, where TLC can evaluate it, and then proved inductive.

- `BmcaInv` adds to the types that an Erbest has an entry that agrees with it
  in the foreign master list, and bounds each entry's count by its age. Ageing and
  updating an entry preserve it by lemmas of their own.
  `FollowInv` adds that an absent port has an empty list, so that the port that has Ebest is there. A decision event makes a port a
  slave for its own Erbest or by m2, which needs a D0 better than Ebest, and loses no Erbest; only a receipt timeout does,
  and it makes the port listen.
- `ScanInv`: the best so far beats every data set scanned so far; a step needs
  transitivity, which is shown from the lexicographic form of the comparison.
- `LockInv` ties the atomic word to the program counters: the count is the number of readers
  that counted themselves, and the exclusive bit is set exactly while some writer is
  between its swap and its unlock. Each atomic operation then maps to a step of `RwLock` or a stutter.
- `SharedInv` says where the two slots are at each point of `update` and of the guard:
  active, held by the reader, or in the updater's hands, and never two of these.
- `FifoInv`: at most one thread is active on a side (`OneEach`: a mutex or a single thread); a batch that a thread
  prepared still fits, although its view of the other timestamp is old, because the other side
  only makes more room (`BatchesFit`); what was copied is in its slots (`CopiesMatch`). The lemmas are about remainders: neighbouring
  timestamps have different slots, and the slots to write follow those to read across the wrap of both.
  From them every commit is an enqueue or dequeue of a whole batch, and every other step a stutter.
- `NodeInv`: `Follows` says what a callback may do with the client that is calling it, whatever it
  requests, cancels or reconfigures: a session that runs gets no second operation. It is transitive, so that each function of
  the node is shown to keep it once. `Alive`: a registered node without heartbeat
  waits for the discovery timer, and has no registry selected. A mere `RegisteredIsAlive` is not
  inductive: the discovery timer may fire, and the node stays registered unless nothing is selected.
- `SyncInv`: what the registry will have once it has processed the requests that wait, the one in flight first, is
  what the node has (`Promised`), for every resource that has not changed since, as soon as the node is registered or the requests
  that wait verify it; and a node that waits for discovery has sent nothing yet (`InOrder`). `Lands` is the middle of the argument: of all
  requests that touch a resource, the last ones post its last revision. Appending a request and processing the first one preserve it
  by a lemma each. `InSync` alone is not inductive, as it says nothing while requests wait. It was checked for a
  node with three edits before it was proved.
- `ServerInv`: the server lists exactly the sessions it owns and none while it is down; what a session has
  read, is about to answer and has answered agrees with what its client sent and got. `Left` says what a stop inside a handler
  does to the other sessions: they lose their owner, and nothing of their exchange.
- `SocketsInv`: a socket works for the interface of its port or is gone, in each state of its wait and round; sockets are
  numbered, and no two ports share any; unless switching off multicast loopback was refused, nothing in a queue is the host's own.
- `SenderInv`: the frames from the packet being filled to the next expected timestamp are in their places in the ring
  (`Holds`, byte by byte), there are at most `SendCapacity` of them, and between calls at most a packet. `WriteHolds` shows
  by modular arithmetic that a write puts its frames in place and spares those before it as far as
  there is room. Then every packet is cut from frames that are held.
- `ReaderInv`: every frame within the buffer's reach shows what arrived for that time, or silence (`BufferShows`), as long as the
  reader was not overrun or mistaken; and packets that wait between the threads or on the network end within the scenario. `Clearing`, `Writing` and
  `Reading` say what `clear_until`, `write` and `read` do to single frames, by modular arithmetic. A call of the
  reader goes through its streams, and the packets of each: `Progress` says the same in the middle of a call, and is
  shown for a packet, then for those of a stream, then for all streams.
- `CountInv` (`Matches`) says what the statistics are worth: the missing numbers are those
  from the first to the newest packet that did not come, and each counter is the cardinality of a set of
  packets in the history `got`. The set of missing numbers
  that the code keeps is that part of them that lies less than half the range behind the newest (`Missing`), as far as sequence
  numbers are ordered as packets are; `NumbersInv` says which packet a number stands for.
- `MembershipInv`: no two sockets have one port; an open socket has a user, unless locking one failed; each membership has a stream that listens to it,
  unless a leave failed; and each stream has its socket and membership, unless an open, a lock or a join failed
  (`Sound`), all but for groups in `doubled`. Handlers go through slots and streams, so that this is stated for the streams served so far
  and grows stream by stream. The code counts the users of a group before it joins and leaves: these
  counts are cardinalities, of which only "this stream alone" matters.
- `DnsInv`: the replies that wait lead, one by one, from the services and interfaces that the browser has to those that the daemon
  told it of (`BrowseInv`, with `Leads`); so a removal is always of something found. There is a resolving query for
  exactly what is found. An offer that is still the service's own is, wherever it was told, on its way or the last that the browser took
  (`CurrentInv`), because after it nothing else is said of that service (`OrderInv`): this is where an offer that came back has to be exempt. A resolved service has a query for addresses on each interface
  (`ResolvedInv`), for a host that was offered (`HostsInv`), and each address is on its way or known (`AddressInv`). Giving up a query takes its replies
  out of the queue: `OnlyKeeps` says what is left, `Processed` what one processed reply keeps of all parts. `SubscribersKnowSessions` is
  inductive with them. All parts were checked as invariants with five changes before they were proved.
- `InformedInv`: a subscriber of a sender, a receiver, the clock or the node holds exactly what that is, or what the three exceptions
  say (`SenderInformed`, ...). A NMOS node that is `running` has the configuration that everybody knows, and one that is not is disabled or in error. The
  model keeps what a subscriber knows with its subscription, so that this is an invariant of one part at a time, kept by each operator
  on it; only for the node it matters which senders and receivers there are (`Exchanged`). It needs besides that a sender
  without an address has no interfaces: an address is generated as soon as there are some, and only a change of it is told. `NodeTold` is
  what holds between setting a configuration of the NMOS node and telling of it.
- `SumInv`: the sum lies between its bounds, and its parts are in their ranges. The lemmas are one per operation, over
  all integers: `Normalizes` says that a normalised interval is worth what it was made of, with C++'s rounding to zero
  (`Truncates`); `ProductIsExact` what a product is worth, with the sign of the fraction as the code has it, and `QuotientMisses` that a quotient of
  both parts is off by at most one fraction, both where 64 bits hold what comes in between (`WrapsWhatDoesNotFit`); `WireLimits` that the
  checked products overflow exactly where the value does not fit; `TimeOfSample` that an RTP timestamp loses at most a sample.

Only model-checked:

- `Converges`, `WriterNotStarved`, `Recovers`: liveness is beyond the prover.
- `ErbestIsFresh`: false for an unbounded number of recalibrations (section 4), and checked for a few.
- `PacketsAreViewedAsWritten`, `RecordingIsPlayedBack`, the four of `Ravenna`, those of `Messages`, the delay
  measurement: their models parse texts or fold over lists (`RtspConnection` with a recursive operator, which the prover
  does not take at all). The library's induction theorems have an operator parameter, which no installed prover
  instantiates. What can be done instead is an induction over one set at a time, from the
  least element of a set of numbers (`Smallest`, `Induction`): it reaches recursive functions, as in the loops of the
  receiver and the queue of DNS-SD, but neither the folds of the community modules nor texts.
- `InSync` of a node that is configured twice; with three configurations it is false (section 4).

## 6. What is not modelled

`PROJECT.json` says for every component what is left out. In short: `set_interface` of a PTP port that keeps
its lists; Pdelay messages; the list of interfaces as the operating system gives it; the JSON of NMOS resources
beyond ids and links; the mock DNS-SD browser; the extensible WAV format; changing a subscriber list
during its `foreach`; containers and wrappers of the platform that no modelled component uses; texts for
the log. They are I/O, formatting, generated or without state.
