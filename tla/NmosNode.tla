------------------------------ MODULE NmosNode ------------------------------
(***************************************************************************)
(* rav::nmos::Node and the registry it registers with: the status of the   *)
(* node, its resources, the HttpClient that carries the requests and the   *)
(* two AsioTimers (retry or discovery, and heartbeat).                     *)
(*                                                                         *)
(* Everything runs on one io_context.  A handler is a composition of       *)
(* functions on the node record, because a response callback runs in the   *)
(* middle of a handler of the HTTP session.                                *)
(*                                                                         *)
(* The version of a resource is compared with current_version_ only, the   *)
(* time of the last update that was sent: changed is the set of resources  *)
(* with a later version.  This takes a local clock that does not go back.  *)
(* The registry is external, modelled from the responses the node expects. *)
(***************************************************************************)
EXTENDS Naturals, Sequences, FiniteSets

Seqs == INSTANCE SequencesExt

-----------------------------------------------------------------------------
(***************************************************************************)
(* rav::HttpClient and its Session as functions on a client record:        *)
(* everything runs on the io_context, and a handler of the session calls a *)
(* response callback, which may make and cancel requests, before it has    *)
(* finished.  Each handler is therefore in two parts, Before and After the *)
(* callback.  A session that lost its owner only returns from its handlers,*)
(* and is not part of the state any more.                                  *)
(***************************************************************************)
CONSTANT NoRequest   \* the callback of a new session

Busy == {"resolving", "connecting", "waiting_for_send", "waiting_for_response"}
SessionStates == {"none", "disconnected", "connected"} \cup Busy

NewClient ==
  [session |-> "none",       \* state_ of session_, "none" for no session
   requests |-> <<>>,        \* requests_
   callback |-> NoRequest,   \* callback_ of the session: whose callback it is
   operations |-> 0]         \* asynchronous operations of the session

Begin(c, state) == [c EXCEPT !.session = state, !.operations = @ + 1]

AsyncConnect(c) == Begin(c, "resolving")

AsyncSend(c) ==
  IF c.requests = <<>> THEN c
  ELSE Begin([c EXCEPT !.callback = Head(c.requests), !.requests = Tail(@)],
             "waiting_for_send")

SendRequests(c) ==
  IF c.requests = <<>> THEN c
  ELSE IF c.session = "disconnected" THEN AsyncConnect(c)
  ELSE IF c.session = "connected" THEN AsyncSend(c)
  ELSE c

RequestAsync(c, request) ==
  SendRequests([c EXCEPT !.requests = Append(@, request),
                         !.session = IF @ = "none" THEN "disconnected" ELSE @])

\* One request_async after the other: the first begins what begins.
RequestAll(c, requests) ==
  IF requests = <<>> THEN c
  ELSE SendRequests([c EXCEPT !.requests = @ \o requests,
                              !.session = IF @ = "none" THEN "disconnected" ELSE @])

CancelOutstandingRequests(c) == [c EXCEPT !.requests = <<>>]

\* set_host with another host: the session is abandoned, the requests are not.
SetOtherHost(c) ==
  [c EXCEPT !.session = "none", !.callback = NoRequest, !.operations = 0]

\* A handler is called: its operation is over.
Finish(c) == [c EXCEPT !.operations = @ - 1]

\* on_resolve without an error, and on_connect and on_write likewise.
OnResolve(c) == Begin(Finish(c), "connecting")
OnConnect(c) == AsyncSend([Finish(c) EXCEPT !.session = "connected"])
OnWrite(c)   == Begin(Finish(c), "waiting_for_response")

\* The handlers with an error call callback_, the callback of the last request
\* that was taken, on_resolve before and the others after state_ is set.
Disconnected(c) == [c EXCEPT !.session = "disconnected"]
BeforeError(c) == IF c.session = "resolving" THEN Finish(c) ELSE Disconnected(Finish(c))
AfterError(state, c) == IF state = "resolving" THEN Disconnected(c) ELSE c

\* Mutant of BeforeResponse: the session is connected before the callback runs.
BeforeResponseConnected(c) == [Finish(c) EXCEPT !.session = "connected"]

\* on_read with a response.
BeforeResponse(c) == Finish(c)
AfterResponse(c, keepAlive) ==
  IF ~keepAlive
  THEN IF c.requests # <<>> THEN AsyncConnect(c) ELSE Disconnected(c)
  ELSE IF c.requests # <<>> THEN AsyncSend(c) ELSE [c EXCEPT !.session = "connected"]

OneOperation(c) == c.operations = IF c.session \in Busy THEN 1 ELSE 0

-----------------------------------------------------------------------------
(***************************************************************************)
(* rav::AsioTimer: the callback and the wait of a boost::asio::steady_timer*)
(* as functions on a timer record, for the modules that own timers.        *)
(*                                                                         *)
(* cancel() only aborts a wait that has not expired: a completion that is  *)
(* already queued on the io_context will run, with whatever callback the   *)
(* timer has by then.                                                      *)
(***************************************************************************)
NoCallback == "none"

\* More completions than this are not queued at the same time.
ExpiredBound == 1

AsioTimer(t, Callbacks) ==
  /\ t.callback \in Callbacks \cup {NoCallback}   \* callback_
  /\ t.repeating \in BOOLEAN                       \* repeating_
  /\ t.waiting \in BOOLEAN                         \* the timer has a pending wait
  /\ t.expired \in 0..ExpiredBound                 \* completions that are queued

NewTimer == [callback |-> NoCallback, repeating |-> FALSE, waiting |-> FALSE, expired |-> 0]

Wait(t) == [t EXCEPT !.waiting = TRUE]

Start(t, cb, repeating) ==
  Wait([t EXCEPT !.callback = cb, !.repeating = repeating])

Once(t, cb) == Start(t, cb, FALSE)

Stop(t) == [t EXCEPT !.callback = NoCallback, !.repeating = FALSE, !.waiting = FALSE]

\* Time passes: the pending wait completes and its handler is queued.
CanExpire(t) == t.waiting /\ t.expired < ExpiredBound
Expire(t) == [t EXCEPT !.waiting = FALSE, !.expired = @ + 1]

\* The handler is taken from the queue; the callback runs between the two.
CanComplete(t) == t.expired > 0
BeforeCallback(t) == [t EXCEPT !.expired = @ - 1]
AfterCallback(t) == IF t.repeating THEN Wait(t) ELSE [t EXCEPT !.callback = NoCallback]

-----------------------------------------------------------------------------
CONSTANTS
  Devices,     \* the devices that may be added
  Parts,       \* senders and receivers, each of some device
  DeviceOf,    \* device_id of each part
  QueueBound,  \* the requests that wait when a heartbeat is due
  MaxFailed,   \* k_max_failed_heartbeats, 5 in the code
  Limits       \* how many edits, configurations and faults there are

Self == "node"
Resources == {Self} \cup Devices \cup Parts

ASSUME ResourcesAssumption ==
  /\ Self \notin Devices \cup Parts /\ Devices \cap Parts = {} /\ DeviceOf \in [Parts -> Devices]
  /\ IsFiniteSet(Devices) /\ IsFiniteSet(Parts)
ASSUME MaxFailedAssumption == MaxFailed \in Nat \ {0}
ASSUME QueueBoundAssumption == QueueBound \in Nat \ {0}
ASSUME LimitsAssumption ==
  Limits \in [{"edits", "configurations", "faults"} -> Nat]

VARIABLES
  node,      \* the members of Node
  registry,  \* the revision of each resource that each registry has, or Absent
  left       \* how many of each limited event are left

vars == <<node, registry, left>>

Modes == {"mdns_p2p", "manual", "p2p"}
Hosts == {"manual", "mdns_p2p"}   \* the registries of these modes
Statuses == {"disabled", "discovering", "connecting", "connected", "registered", "p2p", "error"}
TimerCallbacks == {"retry", "discover", "heartbeat"}

Absent == 0
Revisions == 1..(Limits["edits"] + Limits["configurations"] + 1)

Request ==
  [kind : {"connect", "verify", "heartbeat"}]
    \cup [kind : {"post"}, resource : Resources, revision : Revisions]
    \cup [kind : {"delete"}, resource : Resources]

TypeOK ==
  /\ node.enabled \in BOOLEAN /\ node.mode \in Modes /\ node.status \in Statuses
  /\ node.host \in Hosts \cup {"none"}
  /\ {node.serving, node.selected, node.postErrors} \subseteq BOOLEAN
  /\ {node.browsing, node.resolved, node.subscribed} \subseteq BOOLEAN
  /\ node.failed \in 0..MaxFailed
  /\ node.content \in [Resources -> Revisions \cup {Absent}]
  /\ node.changed \subseteq Resources
  /\ node.client.session \in SessionStates
  /\ \A i \in 1..Len(node.client.requests) : node.client.requests[i] \in Request
  /\ node.client.callback \in Request \cup {NoRequest}
  /\ AsioTimer(node.timer, TimerCallbacks) /\ AsioTimer(node.heartbeat, TimerCallbacks)
  /\ registry \in [Hosts -> [Resources -> Revisions \cup {Absent}]]
  /\ left \in [DOMAIN Limits -> Nat]

Present(n) == {r \in Resources : n.content[r] # Absent}

-----------------------------------------------------------------------------
(***************************************************************************)
(* The member functions of Node.                                           *)
(***************************************************************************)

SetStatus(n, status) ==
  [n EXCEPT !.status = status,
            !.selected = @ /\ ~(status = "disabled" /\ n.status # "disabled")]

Send(n, request) == [n EXCEPT !.client = RequestAsync(@, request)]

DeleteResource(n, r) == Send(n, [kind |-> "delete", resource |-> r])

\* send_updated_resources_async: the node, its devices, then their parts.
Changed(n, rs) == rs \cap n.changed \cap Present(n)
Posts(n, rs) ==
  LET order == Seqs!SetToSeq(Changed(n, rs))
  IN  [i \in 1..Len(order) |->
         [kind |-> "post", resource |-> order[i], revision |-> n.content[order[i]]]]

SendUpdatedResources(n) ==
  [n EXCEPT !.client = RequestAll(@, Posts(n, {Self}) \o Posts(n, Devices) \o Posts(n, Parts)),
            !.changed = {}]

SendIfRegistered(n) == IF n.status = "registered" THEN SendUpdatedResources(n) ELSE n

ConnectToRegistry(n) == Send(n, [kind |-> "connect"])

ConnectToHost(n, host) ==
  ConnectToRegistry(
    SetStatus([n EXCEPT !.client = IF host = n.host THEN @ ELSE SetOtherHost(@), !.host = host],
              "connecting"))

\* Mutant of Register: update_all_resources_to_now is forgotten.
RegisterChanged(n) ==
  Send(SendUpdatedResources([n EXCEPT !.postErrors = FALSE, !.failed = 0]), [kind |-> "verify"])

Register(n) ==
  Send(SendUpdatedResources([n EXCEPT !.postErrors = FALSE, !.failed = 0, !.changed = Present(n)]),
       [kind |-> "verify"])

SelectRegistry(n) ==
  IF n.selected /\ n.status = "registered" THEN n
  ELSE ConnectToHost([n EXCEPT !.selected = TRUE], "mdns_p2p")

StopInternal(n) ==
  [n EXCEPT !.heartbeat = Stop(@), !.timer = Stop(@),
            !.client = CancelOutstandingRequests(@), !.serving = FALSE,
            !.browsing = FALSE, !.resolved = FALSE, !.selected = FALSE]

\* start_internal once the HTTP server listens.
StartInternal(n) ==
  LET s == [n EXCEPT !.serving = TRUE, !.changed = @ \cup (Devices \cap Present(n))] IN
  IF s.mode = "manual" THEN ConnectToHost(s, "manual")
  ELSE IF s.mode = "p2p"
       THEN SetStatus([s EXCEPT !.selected = FALSE, !.browsing = FALSE, !.resolved = FALSE], "p2p")
  ELSE IF s.selected THEN ConnectToRegistry(s)
  ELSE [s EXCEPT !.subscribed = FALSE, !.browsing = TRUE, !.timer = Once(@, "discover")]

-----------------------------------------------------------------------------
(***************************************************************************)
(* The response callbacks, with an outcome "ok", "refused" (any status     *)
(* code the node does not expect) or "failed" (an error of the session).   *)
(***************************************************************************)

ConnectAnswered(n, outcome) ==
  CASE outcome = "failed"  -> [SetStatus(n, "error") EXCEPT !.timer = Once(@, "retry")]
    [] outcome = "refused" -> SetStatus(n, "error")
    [] outcome = "ok"      -> SetStatus(Register(n), "connected")

VerifyAnswered(n, outcome) ==
  IF outcome # "ok" \/ n.postErrors THEN SetStatus(n, "error")
  ELSE [SetStatus(n, "registered") EXCEPT !.heartbeat = Start(@, "heartbeat", TRUE)]

PostAnswered(n, outcome) ==
  CASE outcome = "failed"  -> [n EXCEPT !.postErrors = TRUE]
    [] outcome = "refused" -> SetStatus([n EXCEPT !.postErrors = TRUE], "error")
    [] outcome = "ok"      -> n

DeleteAnswered(n, outcome) == IF outcome = "refused" THEN SetStatus(n, "error") ELSE n

LeastOf(a, b) == IF a <= b THEN a ELSE b

\* Mutant of HeartbeatAnswered: the node stops without connecting again.
HeartbeatAnsweredGivesUp(n, outcome) ==
  LET f == [n EXCEPT !.failed = LeastOf(@ + 1, MaxFailed)] IN
  CASE outcome = "ok" -> [n EXCEPT !.failed = 0]
    [] outcome = "refused" /\ f.failed < MaxFailed -> f
    [] OTHER -> [SetStatus(f, "error") EXCEPT !.heartbeat = Stop(@)]

\* Mutant of HeartbeatAnswered: the node reconnects and keeps its status.
HeartbeatAnsweredRegistered(n, outcome) ==
  LET f == [n EXCEPT !.failed = LeastOf(@ + 1, MaxFailed)] IN
  CASE outcome = "ok" -> [n EXCEPT !.failed = 0]
    [] outcome = "refused" /\ f.failed < MaxFailed -> f
    [] OTHER -> ConnectToRegistry([f EXCEPT !.heartbeat = Stop(@)])

HeartbeatAnswered(n, outcome) ==
  LET f == [n EXCEPT !.failed = LeastOf(@ + 1, MaxFailed)] IN
  CASE outcome = "ok" -> [n EXCEPT !.failed = 0]
    [] outcome = "refused" /\ f.failed < MaxFailed -> f
    [] OTHER ->
         ConnectToRegistry([SetStatus([f EXCEPT !.client = CancelOutstandingRequests(@)], "error")
                              EXCEPT !.heartbeat = Stop(@)])

Answered(n, request, outcome) ==
  IF request = NoRequest THEN n
  ELSE CASE request.kind = "connect"   -> ConnectAnswered(n, outcome)
         [] request.kind = "verify"    -> VerifyAnswered(n, outcome)
         [] request.kind = "post"      -> PostAnswered(n, outcome)
         [] request.kind = "delete"    -> DeleteAnswered(n, outcome)
         [] request.kind = "heartbeat" -> HeartbeatAnswered(n, outcome)

-----------------------------------------------------------------------------
(***************************************************************************)
(* The registry of the session: what it does with a request, and answers.  *)
(***************************************************************************)

NothingKnown == [r \in Resources |-> Absent]

Known == IF node.host \in Hosts THEN registry[node.host] ELSE NothingKnown

Accepts(request) ==
  /\ request.kind = "heartbeat" => Known[Self] # Absent
  /\ request.kind = "delete" => Known[request.resource] # Absent

Dependants(r) ==
  CASE r = Self -> Resources
    [] r \in Devices -> {r} \cup {p \in Parts : DeviceOf[p] = r}
    [] OTHER -> {r}

Processed(request) ==
  CASE request.kind = "post" ->
         [registry EXCEPT ![node.host][request.resource] = request.revision]
    [] request.kind = "delete" ->
         [registry EXCEPT ![node.host] =
            [r \in Resources |-> IF r \in Dependants(request.resource) THEN Absent ELSE @[r]]]
    [] OTHER -> registry

-----------------------------------------------------------------------------
(***************************************************************************)
(* The user's calls.                                                       *)
(***************************************************************************)

\* The node that RavennaNode has made and given its devices.
Init ==
  /\ node = [enabled |-> FALSE, mode |-> "mdns_p2p", status |-> "disabled", host |-> "none",
             serving |-> FALSE, selected |-> FALSE, postErrors |-> FALSE, failed |-> 0,
             browsing |-> FALSE, resolved |-> FALSE, subscribed |-> FALSE,
             content |-> [r \in Resources |-> IF r \in Parts THEN Absent ELSE 1],
             changed |-> {Self} \cup Devices, client |-> NewClient, timer |-> NewTimer, heartbeat |-> NewTimer]
  /\ registry = [h \in Hosts |-> NothingKnown]
  /\ left = Limits

NextRevision ==
  Limits["edits"] - left["edits"] + Limits["configurations"] - left["configurations"] + 2

\* The content of some resources changes, and their version with it.
Update(n, rs) ==
  [n EXCEPT !.content = [r \in Resources |-> IF r \in rs THEN NextRevision ELSE @[r]],
            !.changed = @ \cup rs]

Use(limit) == left[limit] > 0 /\ left' = [left EXCEPT ![limit] = @ - 1]

\* Node::start: the HTTP server refuses when it has been started.
StartNode ==
  /\ Use("configurations")
  /\ node' = LET n == [node EXCEPT !.enabled = TRUE] IN IF n.serving THEN n ELSE StartInternal(n)
  /\ UNCHANGED registry

\* Node::stop
StopNode ==
  /\ Use("configurations")
  /\ node' = LET n == StopInternal([node EXCEPT !.enabled = FALSE]) IN
             SetStatus(IF n.status = "registered" THEN DeleteResource(n, Self) ELSE n, "disabled")
  /\ UNCHANGED registry

\* Node::set_configuration; another port restarts the node like another mode.
Unregistered(n, enabled) ==
  IF n.status = "registered" /\ ~enabled THEN DeleteResource(n, Self) ELSE n

SetConfiguration(enabled, mode, otherPort) ==
  LET restart == enabled # node.enabled \/ mode # node.mode \/ otherPort
      u == Update([Unregistered(node, enabled) EXCEPT !.enabled = enabled, !.mode = mode], {Self})
      s == IF restart THEN StopInternal(u) ELSE u
      t == IF restart /\ enabled THEN StartInternal(s) ELSE s
  IN /\ restart
     /\ Use("configurations")
     /\ node' = SendIfRegistered(IF enabled THEN t ELSE SetStatus(t, "disabled"))
     /\ UNCHANGED registry

\* The HTTP server of the new configuration does not start.
SetConfigurationFails(mode) ==
  LET u == Update([node EXCEPT !.enabled = TRUE, !.mode = mode], {Self})
  IN /\ ~node.enabled \/ mode # node.mode
     /\ left["configurations"] > 0 /\ left["faults"] > 0
     /\ left' = [left EXCEPT !["configurations"] = @ - 1, !["faults"] = @ - 1]
     /\ node' = SetStatus(StopInternal(u), "error")
     /\ UNCHANGED registry

\* add_or_update_device, add_or_update_sender and the others; ptp_parent_changed
\* and ptp_port_changed_state update the node itself.
AddOrUpdate(r) ==
  /\ r \in Parts /\ node.content[r] = Absent => node.content[DeviceOf[r]] # Absent
  /\ Use("edits")
  /\ node' = SendIfRegistered(Update(node, {r}))
  /\ UNCHANGED registry

\* set_network_interface_config; the senders keep their version.
SetNetworkInterfaces ==
  /\ Use("edits")
  /\ node' = SendIfRegistered(Update(node, {Self} \cup (Devices \cap Present(node))))
  /\ UNCHANGED registry

\* remove_device, remove_sender and the others.
Remove(r) ==
  /\ r # Self /\ node.content[r] # Absent
  /\ Use("edits")
  /\ node' = LET n == [node EXCEPT
                        !.content = [x \in Resources |-> IF x \in Dependants(r) THEN Absent ELSE @[x]]]
             IN IF n.status = "registered" THEN DeleteResource(n, r) ELSE n
  /\ UNCHANGED registry

-----------------------------------------------------------------------------
(***************************************************************************)
(* The handlers of the HTTP session, of the timers and of the browser.     *)
(***************************************************************************)

SessionProceeds ==
  /\ node' = [node EXCEPT !.client =
       CASE @.session = "resolving"        -> OnResolve(@)
         [] @.session = "connecting"       -> OnConnect(@)
         [] @.session = "waiting_for_send" -> OnWrite(@)]
  /\ UNCHANGED <<registry, left>>

SessionStep ==
  node.client.session \in Busy \ {"waiting_for_response"} /\ SessionProceeds

\* The connection fails, before or after the registry has processed the request.
SessionError ==
  LET c == node.client
      n == Answered([node EXCEPT !.client = BeforeError(@)], c.callback, "failed")
  IN /\ c.session \in Busy
     /\ Use("faults")
     /\ node' = [n EXCEPT !.client = AfterError(c.session, @)]
     /\ registry' \in IF c.session = "waiting_for_response"
                      THEN {registry, Processed(c.callback)} ELSE {registry}

ReadResponse(outcome, keepAlive) ==
  LET n == Answered([node EXCEPT !.client = BeforeResponse(@)], node.client.callback, outcome)
  IN /\ node.client.session = "waiting_for_response"
     /\ node' = [n EXCEPT !.client = AfterResponse(@, keepAlive)]

Response(keepAlive) ==
  LET request == node.client.callback IN
  /\ ReadResponse(IF Accepts(request) THEN "ok" ELSE "refused", keepAlive)
  /\ registry' = Processed(request)
  /\ UNCHANGED left

\* The registry answers with a status code that does not mean success.
ErrorResponse ==
  /\ Use("faults")
  /\ ReadResponse("refused", TRUE)
  /\ UNCHANGED registry

TimerExpires ==
  /\ CanExpire(node.timer)
  /\ node' = [node EXCEPT !.timer = Expire(@)]
  /\ UNCHANGED <<registry, left>>

\* While the session is busy, no heartbeat is due behind QueueBound requests.
HeartbeatExpires ==
  /\ CanExpire(node.heartbeat)
  /\ node.client.session \in Busy => Len(node.client.requests) < QueueBound
  /\ node' = [node EXCEPT !.heartbeat = Expire(@)]
  /\ UNCHANGED <<registry, left>>

DiscoveryTimeout(n) ==
  LET s == [n EXCEPT !.subscribed = TRUE] IN
  IF s.resolved THEN SelectRegistry(s)
  ELSE SetStatus(s, IF s.mode = "mdns_p2p" THEN "discovering" ELSE "p2p")

TimerFires ==
  LET n == [node EXCEPT !.timer = BeforeCallback(@)] IN
  /\ CanComplete(node.timer)
  /\ node' = IF n.timer.callback = NoCallback THEN n
             ELSE [(IF n.timer.callback = "retry" THEN ConnectToRegistry(n) ELSE DiscoveryTimeout(n))
                    EXCEPT !.timer = AfterCallback(@)]
  /\ UNCHANGED <<registry, left>>

HeartbeatFires ==
  LET n == [node EXCEPT !.heartbeat = BeforeCallback(@)] IN
  /\ CanComplete(node.heartbeat)
  /\ node' = IF n.heartbeat.callback = NoCallback THEN n
             ELSE [Send(n, [kind |-> "heartbeat"]) EXCEPT !.heartbeat = AfterCallback(@)]
  /\ UNCHANGED <<registry, left>>

\* The browser resolves the registry; handle_registry_discovered, if it is set.
RegistryResolved ==
  LET n == [node EXCEPT !.resolved = TRUE] IN
  /\ node.browsing /\ ~node.resolved
  /\ node' = IF n.subscribed /\ ~n.selected /\ n.mode = "mdns_p2p" THEN SelectRegistry(n) ELSE n
  /\ UNCHANGED <<registry, left>>

\* The registry loses what it knows, as it does when it restarts.
RegistryRestart ==
  /\ Known # NothingKnown
  /\ Use("faults")
  /\ registry' = [registry EXCEPT ![node.host] = NothingKnown]
  /\ UNCHANGED node

Next ==
  \/ StartNode \/ StopNode
  \/ \E enabled, otherPort \in BOOLEAN, mode \in Modes : SetConfiguration(enabled, mode, otherPort)
  \/ \E mode \in Modes : SetConfigurationFails(mode)
  \/ \E r \in Resources : AddOrUpdate(r) \/ Remove(r)
  \/ SetNetworkInterfaces
  \/ SessionStep \/ SessionError \/ ErrorResponse
  \/ \E keepAlive \in BOOLEAN : Response(keepAlive)
  \/ TimerExpires \/ TimerFires \/ HeartbeatExpires \/ HeartbeatFires
  \/ RegistryResolved \/ RegistryRestart

Spec == Init /\ [][Next]_vars

(* The io_context runs the handlers of the operations that complete, timers *)
(* expire, and the registry answers (in which way is left open).           *)
Fairness ==
  /\ WF_vars(SessionStep) /\ WF_vars(\E keepAlive \in BOOLEAN : Response(keepAlive))
  /\ WF_vars(TimerExpires) /\ WF_vars(TimerFires)
  /\ WF_vars(HeartbeatExpires) /\ WF_vars(HeartbeatFires)
  /\ WF_vars(RegistryResolved)

FairSpec == Spec /\ Fairness

-----------------------------------------------------------------------------
(***************************************************************************)
(* Properties.                                                             *)
(***************************************************************************)

\* A session has never two operations under way, whatever the callbacks of
\* its responses request and cancel.
OneOperationAtATime == OneOperation(node.client)

\* A node does not stay registered in silence: its heartbeat runs, or it is
\* waiting for the registry of a new configuration to be discovered.
RegisteredIsAlive ==
  node.status = "registered"
    => node.heartbeat.callback = "heartbeat" \/ node.timer.callback = "discover"

Heartbeating == node.status = "registered" /\ node.heartbeat.callback = "heartbeat"
Idle == node.client.session \notin Busy /\ node.client.requests = <<>>
Calm == left["faults"] = Limits["faults"]

\* When nothing failed and all requests are answered, a registered node has
\* its resources in the registry, in their last version unless they changed
\* while it was connecting, when it is reconfigured in the middle of it. With
\* a third configuration it would not: set_host (http_client.cpp:83) keeps the
\* queued requests, and a verification left of an earlier host can register a
\* node that posted nothing to this one.
InSync ==
  Calm /\ Idle /\ Heartbeating
    => \A r \in Present(node) \ node.changed : Known[r] = node.content[r]

\* A registered node that the registry has forgotten finds out by its
\* heartbeats and registers again after the last failure, unless it is
\* disabled or goes peer to peer.
Recovers ==
  (Heartbeating /\ Known[Self] = Absent /\ left["faults"] = 0)
    ~> (Known[Self] # Absent \/ ~node.enabled \/ node.mode = "p2p")
=============================================================================
