-------------------------- MODULE NodeSubscribers --------------------------
(***************************************************************************)
(* Who is told what by a RAVENNA node.  Applications subscribe to the node *)
(* (rav::RavennaNode::Subscriber), to its senders and receivers, and to    *)
(* its PTP instance, and know of them what they were told last.  The       *)
(* subscribers of anything are a function from those that there are to     *)
(* what they know of it.  All handlers run on the maintenance thread, one  *)
(* after the other, so that each of them is an operator on a part:         *)
(*                                                                         *)
(*   senders, receivers   by id, with their configuration and subscribers  *)
(*   node                 its configuration, that of its interfaces and of *)
(*                        the NMOS node, the status of that and            *)
(*                        id_generator_                                    *)
(*   clock                the PTP instance: config, parent and ports       *)
(*   description          that of the session, as the RTSP client knows it    *)
(*   saved                what the application saved, or Unknown           *)
(*                                                                         *)
(* What is not told is known by histories: since of the node, the          *)
(* configurations that the NMOS node has had since everybody was told one, *)
(* foreign of the clock, the last other clock that was the parent, and     *)
(* misled of a subscriber of a receiver, the streams of which it was told  *)
(* another state than the receiver knew, as long as they keep it.          *)
(*                                                                         *)
(* What the node does besides is modelled in RavennaNode.                  *)
(***************************************************************************)
EXTENDS Naturals, FiniteSets

CONSTANTS
  Observers,
  PortsOf,        \* the PTP ports of each network interface configuration
  NoInterfaces,   \* the one without interfaces
  StreamsOf,      \* the streams of each description that can be received
  NoDescription,
  Parents, Own,   \* the clocks, and that of the node
  NoAddress,
  Unknown,
  MaxNodeId,      \* bound: the ids that are used
  MaxOperations   \* bound: what happens in a behaviour

ASSUME AddressAssumption == NoAddress # "generated"

VARIABLES
  senders, receivers, node, clock, description, saved,
  operations  \* what has happened

subscriberVars == <<senders, receivers, node, clock, description, saved, operations>>

Streams == {"first", "second"}
NoReader == [s \in Streams |-> "none"]
IdleStreams == [s \in Streams |-> "inactive"]

Nothing == [x \in {} |-> x]
With(f, key, value) == [k \in DOMAIN f \cup {key} |-> IF k = key THEN value ELSE f[k]]
Without(f, keys) == [k \in DOMAIN f \ keys |-> f[k]]

(***************************************************************************)
(* Senders                                                                 *)
(***************************************************************************)
SenderFacts(s) == [name |-> s.name, enabled |-> s.enabled, dst |-> s.dst]
ToldOfSender(s) == [s EXCEPT !.subscribers = [o \in DOMAIN @ |-> SenderFacts(s)]]

\* generate_auto_addresses_if_needed
Generated(dst, interfaces) == IF dst = NoAddress /\ interfaces # NoInterfaces THEN "generated" ELSE dst

IsValidSender(config) == config.enabled => config.dst # NoAddress

\* RavennaSender::set_configuration
SetSender(s, config) ==
  LET set == [s EXCEPT !.name = config.name, !.enabled = config.enabled, !.dst = Generated(config.dst, s.interfaces)]
  IN  IF IsValidSender(config) THEN ToldOfSender(set) ELSE s

\* Mutant of SetSenderInterfaces: that an address was generated is not told.
SetSenderInterfacesQuietly(s, interfaces) ==
  [s EXCEPT !.interfaces = interfaces, !.dst = Generated(@, interfaces)]

\* RavennaSender::set_network_interface_config
SetSenderInterfaces(s, interfaces) ==
  LET set == [s EXCEPT !.interfaces = interfaces, !.dst = Generated(@, interfaces)]
  IN  IF s.interfaces # interfaces /\ set.dst # s.dst THEN ToldOfSender(set) ELSE set

NewSender(interfaces) ==
  [name |-> "", enabled |-> FALSE, dst |-> Generated(NoAddress, interfaces), interfaces |-> interfaces,
   subscribers |-> Nothing]

\* The constructor of a sender and its first configuration.
MakeSender(config, interfaces) == SetSender(NewSender(interfaces), config)

\* subscribe of a sender
SubscribeToSender(s, o) ==
  IF o \in DOMAIN s.subscribers THEN s ELSE [s EXCEPT !.subscribers = With(@, o, SenderFacts(s))]

(***************************************************************************)
(* Receivers                                                               *)
(***************************************************************************)
ReceiverFacts(r) == [enabled |-> r.enabled, auto |-> r.auto, sdp |-> r.sdp]

\* set_configuration of a receiver up to the subscription of its session: who subscribed
\* is told the parameters when they change, and the configuration.
ApplyReceiver(r, config) ==
  LET params == StreamsOf[config.sdp]
      restarts == params # r.params \/ config.enabled # r.enabled
      started == IF params # {} /\ config.enabled THEN IdleStreams ELSE NoReader
      told(facts) ==
        [facts EXCEPT !.params = IF params # r.params THEN params ELSE @,
                      !.enabled = config.enabled, !.auto = config.auto, !.sdp = config.sdp]
  IN  [r EXCEPT !.params = params, !.reader = IF restarts THEN started ELSE @,
                !.enabled = config.enabled, !.auto = config.auto, !.sdp = config.sdp,
                !.subscribers = [o \in DOMAIN @ |-> told(@[o])]]

\* RavennaReceiver::set_configuration: the description of the session is announced at
\* once when the RTSP client knows it.
SetReceiver(r, config) ==
  LET applied == ApplyReceiver(r, config)
      follows == (config.enabled # r.enabled \/ config.auto # r.auto) /\ config.enabled /\ config.auto
  IN  IF follows /\ description # NoDescription
      THEN ApplyReceiver(applied, [config EXCEPT !.sdp = description]) ELSE applied

NewReceiver ==
  [enabled |-> FALSE, auto |-> TRUE, sdp |-> NoDescription, params |-> {}, reader |-> NoReader,
   states |-> IdleStreams, subscribers |-> Nothing]

MakeReceiver(config) == SetReceiver(NewReceiver, config)

\* What subscribe of a receiver tells of its streams: for each the state of the first; one
\* that it does not tell of is taken for inactive.
StatesTold(r) ==
  [s \in Streams |-> IF r.reader # NoReader /\ s \in r.params THEN r.reader["first"] ELSE "inactive"]

\* subscribe of a receiver
SubscribeToReceiver(r, o) ==
  LET facts == [params |-> r.params, enabled |-> r.enabled, auto |-> r.auto, sdp |-> r.sdp,
                states |-> StatesTold(r), misled |-> {s \in Streams : StatesTold(r)[s] # r.states[s]}]
  IN  IF o \in DOMAIN r.subscribers THEN r ELSE [r EXCEPT !.subscribers = With(@, o, facts)]

\* Those of the streams whose state is not the one that the receiver saw last.
Changed(r) == {s \in Streams : r.reader[s] \notin {"none", r.states[s]}}
Updated(r, states) == [s \in Streams |-> IF s \in Changed(r) THEN r.reader[s] ELSE states[s]]

\* Mutant of MaintainReceiver: a change is told before it is remembered.
MaintainReceiverLate(r) ==
  [r EXCEPT !.states = Updated(r, @),
            !.subscribers = [o \in DOMAIN @ |->
              [@[o] EXCEPT !.states = [s \in Streams |-> IF s \in Changed(r) THEN r.states[s] ELSE @[s]],
                           !.misled = @ \ Changed(r)]]]

\* do_maintenance of a receiver
ToldOfStates(r, subscribers) ==
  [o \in DOMAIN subscribers |-> [subscribers[o] EXCEPT !.states = Updated(r, @), !.misled = @ \ Changed(r)]]
MaintainReceiver(r) == [r EXCEPT !.states = Updated(r, @), !.subscribers = ToldOfStates(r, @)]

(***************************************************************************)
(* The PTP instance                                                        *)
(***************************************************************************)
SetPorts(c, ports) ==
  [c EXCEPT !.ports = ports, !.subscribers = [o \in DOMAIN @ |-> [@[o] EXCEPT !.ports = ports]]]

\* update_ports, add_port and remove_port: a port begins listening.
UpdatePorts(c, interfaces) ==
  LET new == [p \in PortsOf[interfaces] |-> IF p \in DOMAIN c.ports THEN c.ports[p] ELSE "listening"]
  IN  IF new = c.ports THEN c ELSE SetPorts(c, new)

\* Instance::set_configuration
SetClockConfiguration(c, config) ==
  [c EXCEPT !.config = config, !.subscribers = [o \in DOMAIN @ |-> [@[o] EXCEPT !.config = config]]]

\* set_recommended_state: that the own clock is the best is not told.
SetParent(c, parent) ==
  IF parent = c.parent THEN c
  ELSE IF parent = Own THEN [c EXCEPT !.parent = parent]
  ELSE [c EXCEPT !.parent = parent, !.foreign = parent,
                 !.subscribers = [o \in DOMAIN @ |-> [@[o] EXCEPT !.parent = parent]]]

\* Instance::subscribe
SubscribeToClock(c, o) ==
  IF o \in DOMAIN c.subscribers THEN c
  ELSE [c EXCEPT !.subscribers = With(@, o, [config |-> c.config, parent |-> c.parent, ports |-> c.ports])]

(***************************************************************************)
(* The NMOS node                                                           *)
(***************************************************************************)

\* set_status, and on_status_changed of the node.
SetStatus(n, status) ==
  IF n.status = status THEN n
  ELSE [n EXCEPT !.status = status, !.subscribers = [o \in DOMAIN @ |-> [@[o] EXCEPT !.status = status]]]

\* A configuration of the NMOS node, with which it runs or not.
Adopts(n, nmos, running) == [n EXCEPT !.nmos = nmos, !.running = running, !.since = @ \cup {nmos}]

\* stop: nobody is told that the node is not enabled any more.
Stop(n) == SetStatus(Adopts(n, [n.nmos EXCEPT !.enabled = FALSE], FALSE), "disabled")

\* on_configuration_changed of the node
TellNmos(n) ==
  [n EXCEPT !.since = {n.nmos}, !.subscribers = [o \in DOMAIN @ |-> [@[o] EXCEPT !.nmos = n.nmos]]]

\* Mutant of SetNmos: it returns when the node started, too, before anybody is told.
SetNmosUntold(n, config, starts) ==
  LET runs == config.enabled /\ starts
  IN  IF config = n.nmos THEN n
      ELSE SetStatus(Adopts(n, config, runs),
                     IF runs THEN "connecting" ELSE IF config.enabled THEN "error" ELSE "disabled")

\* nmos::Node::set_configuration.  When the node cannot start with what is set, that is
\* not told, and nothing is under way.
SetNmos(n, config, starts) ==
  LET set == Adopts(n, config, config.enabled /\ starts)
  IN  IF config = n.nmos THEN n
      ELSE IF config.enabled /\ ~starts THEN SetStatus(set, "error")
      ELSE TellNmos(SetStatus(set, IF config.enabled THEN "connecting" ELSE "disabled"))

(***************************************************************************)
(* The node                                                                *)
(***************************************************************************)

\* ravenna_sender_added, ravenna_receiver_added, and when they are removed.
Exchanged(ids, gone, new) == (ids \ gone) \cup new
ToldOfSenders(subscribers, gone, new) ==
  [o \in DOMAIN subscribers |-> [subscribers[o] EXCEPT !.senders = Exchanged(@, gone, new)]]
ToldOfReceivers(subscribers, gone, new) ==
  [o \in DOMAIN subscribers |-> [subscribers[o] EXCEPT !.receivers = Exchanged(@, gone, new)]]
SendersChange(n, gone, new) == [n EXCEPT !.subscribers = ToldOfSenders(@, gone, new)]
ReceiversChange(n, gone, new) == [n EXCEPT !.subscribers = ToldOfReceivers(@, gone, new)]

\* What set_network_interface_config sets and tells of the node itself.
SetInterfacesOfNode(n, interfaces) ==
  [n EXCEPT !.interfaces = interfaces, !.subscribers = [o \in DOMAIN @ |-> [@[o] EXCEPT !.interfaces = interfaces]]]

\* set_configuration
SetConfiguration(n, config) ==
  IF n.config = config THEN n
  ELSE [n EXCEPT !.config = config, !.subscribers = [o \in DOMAIN @ |-> [@[o] EXCEPT !.config = config]]]

\* subscribe
SubscribeToNode(n, o, sending, receiving) ==
  LET current == [senders |-> sending, receivers |-> receiving, config |-> n.config,
                  interfaces |-> n.interfaces, nmos |-> n.nmos, status |-> n.status]
  IN  IF o \in DOMAIN n.subscribers THEN n ELSE [n EXCEPT !.subscribers = With(@, o, current)]

NextId(n, count) == [n EXCEPT !.nextId = @ + count]

(***************************************************************************)
(* What happens                                                            *)
(***************************************************************************)
NewNmos == [enabled |-> FALSE, port |-> 0]
NewNode ==
  [config |-> 0, interfaces |-> NoInterfaces, nmos |-> NewNmos, status |-> "disabled", running |-> FALSE,
   subscribers |-> Nothing, since |-> {NewNmos}, nextId |-> 1]
NewClock == [config |-> 0, parent |-> Own, ports |-> Nothing, subscribers |-> Nothing, foreign |-> Own]

SenderConfigs == [name : {"a", "b"}, enabled : BOOLEAN, dst : {NoAddress, "given"}]
ReceiverConfigs == [enabled : BOOLEAN, auto : BOOLEAN, sdp : DOMAIN StreamsOf]
NmosConfigs == [enabled : BOOLEAN, port : {0, 1}]

\* to_boost_json
Saved(sending, receiving, n, c) ==
  [senders |-> [id \in DOMAIN sending |-> SenderFacts(sending[id])],
   receivers |-> [id \in DOMAIN receiving |-> ReceiverFacts(receiving[id])],
   interfaces |-> n.interfaces, config |-> n.config, nmos |-> n.nmos, clock |-> c.config]

\* A node of which nobody knows.
Bare ==
  /\ senders = Nothing /\ receivers = Nothing /\ node = NewNode /\ clock = NewClock
  /\ saved = Unknown

\* An application that knows all there is of a node with a sender and a receiver.
Busy(o) ==
  LET s == MakeSender([name |-> "a", enabled |-> FALSE, dst |-> NoAddress], NoInterfaces)
      r == MakeReceiver([enabled |-> TRUE, auto |-> TRUE, sdp |-> NoDescription])
  IN  /\ senders = With(Nothing, 1, SubscribeToSender(s, o))
      /\ receivers = With(Nothing, 2, SubscribeToReceiver(r, o))
      /\ node = SubscribeToNode(NextId(NewNode, 2), o, {1}, {2})
      /\ clock = SubscribeToClock(NewClock, o)
      /\ saved = Saved(senders, receivers, node, clock)

SubscribersInit ==
  /\ operations = 0 /\ description = NoDescription
  /\ Bare \/ \E o \in Observers : Busy(o)

Counts == operations < MaxOperations /\ operations' = operations + 1
NodeDoes(n) == Counts /\ node' = n /\ UNCHANGED <<senders, receivers, clock, description, saved>>
ClockDoes(c) == Counts /\ clock' = c /\ UNCHANGED <<senders, receivers, node, description, saved>>
SenderDoes(id, s) ==
  Counts /\ senders' = [senders EXCEPT ![id] = s] /\ UNCHANGED <<receivers, node, clock, description, saved>>
ReceiverDoes(id, r) ==
  Counts /\ receivers' = [receivers EXCEPT ![id] = r] /\ UNCHANGED <<senders, node, clock, description, saved>>

CreateSender(config) ==
  LET id == node.nextId
  IN  /\ id <= MaxNodeId /\ Counts
      /\ IF IsValidSender(config)
         THEN /\ senders' = With(senders, id, MakeSender(config, node.interfaces))
              /\ node' = SendersChange(NextId(node, 1), {}, {id})
         ELSE node' = NextId(node, 1) /\ UNCHANGED senders
      /\ UNCHANGED <<receivers, clock, description, saved>>

CreateReceiver(config) ==
  LET id == node.nextId
  IN  /\ id <= MaxNodeId /\ Counts
      /\ receivers' = With(receivers, id, MakeReceiver(config))
      /\ node' = ReceiversChange(NextId(node, 1), {}, {id})
      /\ UNCHANGED <<senders, clock, description, saved>>

RemoveSender(id) ==
  /\ Counts /\ senders' = Without(senders, {id}) /\ node' = SendersChange(node, {id}, {})
  /\ UNCHANGED <<receivers, clock, description, saved>>
RemoveReceiver(id) ==
  /\ Counts /\ receivers' = Without(receivers, {id}) /\ node' = ReceiversChange(node, {id}, {})
  /\ UNCHANGED <<senders, clock, description, saved>>

\* unsubscribe of anything: whoever does keeps nothing of what it was told.
Unsubscribed(part, o) == [part EXCEPT !.subscribers = Without(@, {o})]

\* The RTSP client is told a description of the session, as on_announced and
\* handle_announced_sdp tell the receivers that follow it.
Announced(sdp) ==
  /\ Counts /\ description' = sdp
  /\ receivers' = [id \in DOMAIN receivers |->
       LET r == receivers[id]
       IN  IF r.enabled /\ r.auto THEN ApplyReceiver(r, [ReceiverFacts(r) EXCEPT !.sdp = sdp]) ELSE r]
  /\ UNCHANGED <<senders, node, clock, saved>>

\* The audio receiver sees packets come, nobody read them, or none come any more.
StreamChanges(id) ==
  /\ receivers[id].reader # NoReader
  /\ \E s \in receivers[id].params, state \in {"inactive", "receiving"} :
       ReceiverDoes(id, [receivers[id] EXCEPT !.reader[s] = state])

\* do_maintenance, once a second
DoMaintenance ==
  /\ receivers' = [id \in DOMAIN receivers |-> MaintainReceiver(receivers[id])]
  /\ UNCHANGED <<senders, node, clock, description, saved, operations>>

\* set_recommended_state of a port
ParentChanges(parent) ==
  IF parent = clock.parent THEN UNCHANGED subscriberVars ELSE ClockDoes(SetParent(clock, parent))

\* Port::set_state
PortChanges(p, state) == ClockDoes(SetPorts(clock, [clock.ports EXCEPT ![p] = state]))

\* set_network_interface_config
SetNetworkInterfaceConfig(interfaces) ==
  /\ Counts
  /\ IF node.interfaces = interfaces THEN UNCHANGED <<senders, node, clock>>
     ELSE /\ senders' = [id \in DOMAIN senders |-> SetSenderInterfaces(senders[id], interfaces)]
          /\ clock' = UpdatePorts(clock, interfaces)
          /\ node' = SetInterfacesOfNode(node, interfaces)
  /\ UNCHANGED <<receivers, description, saved>>

\* The registration of the NMOS node goes on or fails.
RegistrationGoesOn ==
  node.running /\ \E status \in {"registered", "error"} : NodeDoes(SetStatus(node, status))

Save ==
  Counts /\ saved' = Saved(senders, receivers, node, clock) /\ UNCHANGED <<senders, receivers, node, clock, description>>

SavedMembers == Cardinality(DOMAIN saved.senders) + Cardinality(DOMAIN saved.receivers)
CanRestore == saved # Unknown /\ node.nextId + SavedMembers <= MaxNodeId + 1

\* restore_from_boost_json up to the NMOS node, with which it may fail: the new senders
\* and receivers, which nobody has heard of, are gone then.
Stopped(starts) == SetNmos(Stop(NextId(node, SavedMembers)), saved.nmos, starts)

RestoreFails == CanRestore /\ saved.nmos.enabled /\ NodeDoes(Stopped(FALSE))

\* The ids from the first on, for what was saved, in its order.
Renumbered(first, old) ==
  LET new == first..(first + Cardinality(old) - 1)
  IN  {f \in [new -> old] : \A i, j \in new : i < j => f[i] < f[j]}

\* restore_from_boost_json
RestoreSaved ==
  /\ CanRestore /\ Counts
  /\ \E s \in Renumbered(node.nextId, DOMAIN saved.senders),
        r \in Renumbered(node.nextId + Cardinality(DOMAIN saved.senders), DOMAIN saved.receivers) :
       LET stopped == Stopped(TRUE)
           same == node.interfaces = saved.interfaces
           set == IF same THEN stopped ELSE SetInterfacesOfNode(stopped, saved.interfaces)
           swapped == ReceiversChange(SendersChange(set, DOMAIN senders, DOMAIN s), DOMAIN receivers, DOMAIN r)
       IN  /\ senders' = [id \in DOMAIN s |-> MakeSender(saved.senders[s[id]], saved.interfaces)]
           /\ receivers' = [id \in DOMAIN r |-> MakeReceiver(saved.receivers[r[id]])]
           /\ node' = SetConfiguration(swapped, saved.config)
           /\ clock' = SetClockConfiguration(IF same THEN clock ELSE UpdatePorts(clock, saved.interfaces), saved.clock)
  /\ UNCHANGED <<description, saved>>

SubscribersNext ==
  \/ \E config \in SenderConfigs :
       CreateSender(config) \/ \E id \in DOMAIN senders : SenderDoes(id, SetSender(senders[id], config))
  \/ \E config \in ReceiverConfigs :
       CreateReceiver(config) \/ \E id \in DOMAIN receivers : ReceiverDoes(id, SetReceiver(receivers[id], config))
  \/ \E id \in DOMAIN senders :
       \/ RemoveSender(id)
       \/ \E o \in Observers :
            SenderDoes(id, SubscribeToSender(senders[id], o)) \/ SenderDoes(id, Unsubscribed(senders[id], o))
  \/ \E id \in DOMAIN receivers :
       \/ RemoveReceiver(id) \/ StreamChanges(id)
       \/ \E o \in Observers :
            \/ ReceiverDoes(id, SubscribeToReceiver(receivers[id], o))
            \/ ReceiverDoes(id, Unsubscribed(receivers[id], o))
  \/ \E o \in Observers :
       \/ NodeDoes(SubscribeToNode(node, o, DOMAIN senders, DOMAIN receivers)) \/ NodeDoes(Unsubscribed(node, o))
       \/ ClockDoes(SubscribeToClock(clock, o)) \/ ClockDoes(Unsubscribed(clock, o))
  \/ \E sdp \in DOMAIN StreamsOf : Announced(sdp)
  \/ DoMaintenance
  \/ \E interfaces \in DOMAIN PortsOf : SetNetworkInterfaceConfig(interfaces)
  \/ \E config \in {0, 1} : NodeDoes(SetConfiguration(node, config)) \/ ClockDoes(SetClockConfiguration(clock, config))
  \/ \E config \in NmosConfigs, starts \in BOOLEAN : NodeDoes(SetNmos(node, config, starts))
  \/ \E parent \in Parents \cup {Own} : ParentChanges(parent)
  \/ \E p \in DOMAIN clock.ports, state \in {"listening", "uncalibrated"} : PortChanges(p, state)
  \/ RegistrationGoesOn \/ Save \/ RestoreSaved \/ RestoreFails

SubscribersSpec == SubscribersInit /\ [][SubscribersNext]_subscriberVars

(***************************************************************************)
(* Properties                                                              *)
(***************************************************************************)

\* What an application knows of the NMOS node, of the parent and of the streams.
NmosIsKnown(n, nmos) == nmos = n.nmos \/ (n.status \in {"disabled", "error"} /\ nmos \in n.since)
ParentIsKnown(c, parent) == parent = c.parent \/ (c.parent = Own /\ parent = c.foreign)
StreamsAreKnown(r, told) == \A s \in Streams : s \in told.misled \/ told.states[s] = r.states[s]

\* What an application was told last is what is: the members of the node and its
\* configuration, the configuration of every sender, receiver and clock it subscribed
\* to, and the states of streams as the receiver saw them last, also after everything
\* was replaced by what was saved.  With three exceptions, of which it knows this:
\*   - stop and a failed start of the NMOS node tell its status and not its configuration
\*     (nmos_node.cpp:1393-1400, 1455-1460), so that while the status is disabled or error
\*     an application may know one that was set since everybody was told one;
\*   - that the own clock became the best is not told (ptp_instance.cpp:240-259), so that
\*     the application goes on knowing the last other parent;
\*   - who subscribes to a receiver is told the state of the first stream for each
\*     (ravenna_receiver.cpp:444), and knows it until that of the stream changes.
ObserversKnowTheNode ==
  /\ \A o \in DOMAIN node.subscribers :
       LET told == node.subscribers[o]
       IN  /\ told.senders = DOMAIN senders /\ told.receivers = DOMAIN receivers
           /\ told.config = node.config /\ told.interfaces = node.interfaces /\ told.status = node.status
           /\ NmosIsKnown(node, told.nmos)
  /\ \A o \in DOMAIN clock.subscribers :
       LET told == clock.subscribers[o]
       IN  /\ told.ports = clock.ports /\ told.config = clock.config
           /\ ParentIsKnown(clock, told.parent)
  /\ \A id \in DOMAIN senders : \A o \in DOMAIN senders[id].subscribers :
       senders[id].subscribers[o] = SenderFacts(senders[id])
  /\ \A id \in DOMAIN receivers : \A o \in DOMAIN receivers[id].subscribers :
       LET told == receivers[id].subscribers[o]
       IN  /\ told.params = receivers[id].params /\ ReceiverFacts(told) = ReceiverFacts(receivers[id])
           /\ StreamsAreKnown(receivers[id], told)
=============================================================================
