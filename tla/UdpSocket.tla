----------------------------- MODULE UdpSocket -----------------------------
(***************************************************************************)
(* rav::ExtendedUdpSocket, and the two of each PTP port, for event and for *)
(* general messages: they are opened and closed, join and leave the group  *)
(* of PTP as the interface of the port changes, and take datagrams from    *)
(* the system in rounds.                                                   *)
(*                                                                         *)
(* A socket belongs to an Impl, which an operation under way keeps alive   *)
(* when its port has gone.  Everything runs on the io_context, so that a   *)
(* port does not change in the middle of a round; datagrams arrive at any  *)
(* time.                                                                   *)
(***************************************************************************)
EXTENDS Integers, Sequences, FiniteSets, SequencesExt

CONSTANTS
  PtpPorts,          \* the numbers of the ports of a PTP instance
  Networks,          \* the interfaces
  NoNetwork,         \* interface_address_ is unspecified
  RoundSize,         \* datagrams in a round, 10
  MaxEvents          \* bound: how many ports are created, datagrams sent and calls refused

ASSUME RoundAssumption == RoundSize \in Nat \ {0}

SocketKinds == {"event", "general"}

VARIABLES
  ptpPorts,   \* the ports there are, each with its interface and the number of its sockets
  impls,      \* the sockets of every port there was, by kind
  datagrams,  \* how many there were
  refusals,   \* how many calls have failed
  astray,     \* history: a port sent on another interface
  late        \* history: a handler was called whose port had gone

socketVars == <<ptpPorts, impls, datagrams, refusals, astray, late>>

NoRound == -1
Opened ==
  [open |-> TRUE, handler |-> FALSE, wait |-> "none", round |-> NoRound, queue |-> <<>>, groups |-> {},
   outbound |-> NoNetwork, loopback |-> TRUE,
   failed |-> {}, arrived |-> <<>>, got |-> <<>>]

SocketsInit == ptpPorts = <<>> /\ impls = <<>> /\ datagrams = 0 /\ refusals = 0 /\ astray = FALSE /\ late = FALSE

Events == Len(impls) + datagrams + refusals

(***************************************************************************)
(* What a port does with a socket.  Each call of the system may be refused *)
(***************************************************************************)
Try(s, call, refused, done) == IF call \in refused THEN [s EXCEPT !.failed = @ \cup {call}] ELSE done

\* join_multicast_group, leave_multicast_group, set_multicast_outbound_interface
Join(s, network, refused) == Try(s, "join", refused, [s EXCEPT !.groups = @ \cup {network}])
Leave(s, network, refused) == Try(s, "leave", refused, [s EXCEPT !.groups = @ \ {network}])
SetOutbound(s, network, refused) == Try(s, "outbound", refused, [s EXCEPT !.outbound = network])
SetLoopback(s, enable, refused) == Try(s, "loopback", refused, [s EXCEPT !.loopback = enable])

\* async_receive
AsyncReceive(s) == [s EXCEPT !.wait = "reading", !.round = NoRound]

\* start
Start(s) == IF s.handler THEN s ELSE AsyncReceive([s EXCEPT !.handler = TRUE])

\* ~ExtendedUdpSocket and stop: closing ends the operation under way.
StopSocket(s) ==
  IF ~s.handler THEN s
  ELSE [s EXCEPT !.handler = FALSE, !.open = FALSE, !.queue = <<>>, !.groups = {},
                 !.wait = IF @ = "reading" THEN "aborted" ELSE @]

\* Mutant of Moved: the new group is left, the old one stays.
MovedEarly(s, from, to, refused) ==
  LET left == IF from = NoNetwork THEN s ELSE Leave(s, to, refused)
  IN  IF to = NoNetwork THEN left ELSE SetOutbound(Join(left, to, refused), to, refused)

\* What set_interface does with each socket, from one interface to another one.
Moved(s, from, to, refused) ==
  LET left == IF from = NoNetwork THEN s ELSE Leave(s, from, refused)
  IN  IF to = NoNetwork THEN left ELSE SetOutbound(Join(left, to, refused), to, refused)

(***************************************************************************)
(* The ports                                                               *)
(***************************************************************************)
InRound == \E n \in DOMAIN impls, k \in SocketKinds : impls[n][k].round # NoRound

Calls == {"join", "leave", "outbound", "loopback"}

\* Which calls are refused for which of the two sockets.
Refusals == {[event |-> {}, general |-> {}]} \cup {[event |-> {c}, general |-> {}] : c \in Calls}
              \cup {[event |-> {}, general |-> {c}] : c \in Calls}
Refuses(refused) ==
  /\ refusals' = refusals + Cardinality(refused.event) + Cardinality(refused.general)
  /\ Events' <= MaxEvents

\* The constructor of a port; that a port cannot be bound ends the program.
AddPort ==
  \E p \in PtpPorts, network \in Networks, refused \in Refusals :
    LET Made(k) == Start(SetLoopback(Moved(Opened, NoNetwork, network, refused[k]), FALSE, refused[k]))
    IN  /\ ~InRound /\ p \notin DOMAIN ptpPorts
        /\ refused.event \cup refused.general \subseteq Calls \ {"leave"}
        /\ impls' = Append(impls, [k \in SocketKinds |-> Made(k)])
        /\ ptpPorts' = [q \in DOMAIN ptpPorts \cup {p} |->
                          IF q = p THEN [interface |-> network, number |-> Len(impls) + 1] ELSE ptpPorts[q]]
        /\ UNCHANGED <<datagrams, astray, late>>
        /\ Refuses(refused)

\* set_interface
SetInterface ==
  \E p \in DOMAIN ptpPorts, network \in Networks \cup {NoNetwork}, refused \in Refusals :
    LET port == ptpPorts[p]
    IN  /\ ~InRound /\ network # port.interface
        /\ refused.event \cup refused.general \subseteq Calls \ {"loopback"}
        /\ ptpPorts' = [ptpPorts EXCEPT ![p].interface = network]
        /\ impls' = [impls EXCEPT ![port.number] =
                       [k \in SocketKinds |-> Moved(@[k], port.interface, network, refused[k])]]
        /\ UNCHANGED <<datagrams, astray, late>>
        /\ Refuses(refused)

\* remove_port
RemovePort ==
  \E p \in DOMAIN ptpPorts :
    /\ ~InRound
    /\ impls' = [impls EXCEPT ![ptpPorts[p].number] = [k \in SocketKinds |-> StopSocket(@[k])]]
    /\ ptpPorts' = [q \in DOMAIN ptpPorts \ {p} |-> ptpPorts[q]]
    /\ UNCHANGED <<datagrams, refusals, astray, late>>

(***************************************************************************)
(* Datagrams                                                               *)
(***************************************************************************)
IsMember(s, network) == s.open /\ network \in s.groups

\* The system hands a datagram of the group to the members on the interface; some
\* systems to all sockets with the port once there is a member.
WithDatagram(kind, network, datagram, toAll) ==
  LET wanted == \E n \in DOMAIN impls : IsMember(impls[n][kind], network)
      Takes(s) == s.open /\ (IsMember(s, network) \/ (toAll /\ wanted))
  IN  [n \in DOMAIN impls |->
         IF ~Takes(impls[n][kind]) THEN impls[n]
         ELSE [impls[n] EXCEPT ![kind].queue = Append(@, datagram), ![kind].arrived = Append(@, datagram)]]

Arrive ==
  \E kind \in SocketKinds, network \in Networks, empty \in BOOLEAN, toAll \in BOOLEAN :
    /\ Events < MaxEvents
    /\ datagrams' = datagrams + 1
    /\ impls' = WithDatagram(kind, network, [number |-> datagrams', own |-> FALSE, empty |-> empty], toAll)
    /\ UNCHANGED <<ptpPorts, refusals, astray, late>>

\* send, of the event socket: on the outbound interface, or on any when there is none.
SendDatagram ==
  \E p \in DOMAIN ptpPorts, network \in Networks :
    LET s == impls[ptpPorts[p].number].event
        own == [number |-> datagrams + 1, own |-> TRUE, empty |-> FALSE]
    IN  /\ Events < MaxEvents
        /\ ptpPorts[p].interface # NoNetwork
        /\ s.outbound \in {network, NoNetwork}
        /\ datagrams' = datagrams + 1
        /\ impls' = IF s.loopback THEN WithDatagram("event", network, own, FALSE) ELSE impls
        /\ astray' = (astray \/ (network # ptpPorts[p].interface /\ "outbound" \notin s.failed))
        /\ UNCHANGED <<ptpPorts, refusals, late>>

Changes(n, kind, s) == impls' = [impls EXCEPT ![n][kind] = s] /\ UNCHANGED <<ptpPorts, datagrams, astray>>

\* The wait ends: there is something to read, or an error.
Ready(n, kind) ==
  LET s == impls[n][kind]
  IN  /\ s.wait = "reading"
      /\ \/ s.queue # <<>> /\ Changes(n, kind, [s EXCEPT !.wait = "done"]) /\ UNCHANGED <<refusals, late>>
         \/ /\ Events < MaxEvents /\ refusals' = refusals + 1
            /\ Changes(n, kind, [s EXCEPT !.wait = "error", !.failed = @ \cup {"read"}])
            /\ UNCHANGED late

\* The handler of the wait: without error, and while somebody listens, a round begins.
WaitCompletes(n, kind) ==
  LET s == impls[n][kind]
  IN  /\ s.wait \in {"done", "aborted", "error"}
      /\ Changes(n, kind, [s EXCEPT !.wait = "none", !.round = IF s.wait = "done" /\ s.handler THEN 0 ELSE NoRound])
      /\ UNCHANGED <<refusals, late>>

\* One pass of the loop: a datagram without data is not taken, and ends the round.  The
\* socket is open, as its port is not removed by what it receives.
ReceiveFrom(n, kind) ==
  LET s == impls[n][kind]
  IN  /\ s.round \in 0..(RoundSize - 1)
      /\ \/ /\ IF s.queue = <<>> THEN TRUE ELSE Head(s.queue).empty
            /\ Changes(n, kind, AsyncReceive(s)) /\ UNCHANGED <<refusals, late>>
         \/ /\ IF s.queue = <<>> THEN FALSE ELSE ~Head(s.queue).empty
            /\ Changes(n, kind, [s EXCEPT !.queue = Tail(@), !.got = Append(@, Head(s.queue)), !.round = @ + 1])
            /\ late' = (late \/ \A p \in DOMAIN ptpPorts : ptpPorts[p].number # n)
            /\ UNCHANGED refusals
         \/ /\ s.queue # <<>> /\ Events < MaxEvents /\ refusals' = refusals + 1
            /\ Changes(n, kind, [s EXCEPT !.round = NoRound, !.failed = @ \cup {"read"}])
            /\ UNCHANGED late

RoundEnds(n, kind) ==
  /\ impls[n][kind].round = RoundSize
  /\ Changes(n, kind, AsyncReceive(impls[n][kind]))
  /\ UNCHANGED <<refusals, late>>

SocketsNext ==
  \/ AddPort \/ SetInterface \/ RemovePort \/ Arrive \/ SendDatagram
  \/ \E n \in DOMAIN impls, kind \in SocketKinds :
       Ready(n, kind) \/ WaitCompletes(n, kind) \/ ReceiveFrom(n, kind) \/ RoundEnds(n, kind)

SocketsSpec == SocketsInit /\ [][SocketsNext]_socketVars

(***************************************************************************)
(* Properties                                                              *)
(***************************************************************************)

\* A socket of a port: its groups are those of the interface, it goes on reading until
\* an error, and its handler gets what arrived, in order and once.
Serves(s, interface) ==
  /\ s.open /\ s.handler
  /\ s.failed \cap {"join", "leave"} = {} => s.groups = {interface} \ {NoNetwork}
  /\ "read" \notin s.failed => (s.wait # "none") # (s.round # NoRound)
  /\ s.arrived = s.got \o s.queue

\* However ports come, go and change their interfaces while rounds are under way and
\* calls are refused: the sockets of each port serve it, what it sends leaves on its
\* interface and does not come back, no handler of a port that has gone is called, and
\* its sockets are closed.  (async_receive schedules another round, set_interface leaves
\* one group for the other, stop closes the socket and forgets the handler)
SocketsServeTheirPorts ==
  /\ \A p \in DOMAIN ptpPorts, k \in SocketKinds : Serves(impls[ptpPorts[p].number][k], ptpPorts[p].interface)
  /\ \A n \in DOMAIN impls, k \in SocketKinds :
       (\A p \in DOMAIN ptpPorts : ptpPorts[p].number # n) => ~impls[n][k].open /\ ~impls[n][k].handler
  /\ (\A n \in DOMAIN impls : "loopback" \notin impls[n].event.failed) =>
       \A n \in DOMAIN impls : \A i \in DOMAIN impls[n].event.got : ~impls[n].event.got[i].own
  /\ ~astray /\ ~late
=============================================================================
