--------------------------- MODULE NmosNodeProofs ---------------------------
(***************************************************************************)
(* The session of a node has one operation at a time, a registered node is *)
(* alive, and a node that was configured once has its resources in the     *)
(* registry when it is idle, for any devices, parts and limits.            *)
(***************************************************************************)
EXTENDS NmosNode, FiniteSetTheorems, TLAPS

-----------------------------------------------------------------------------
(* The client. *)

\* The fields of the client.
IsClient(c) ==
  /\ DOMAIN c = {"session", "requests", "callback", "operations"}
  /\ c.session \in SessionStates /\ c.requests \in Seq(Request)
  /\ c.callback \in Request \cup {NoRequest} /\ c.operations \in Int

\* Between two handlers the session has the operation that its state tells of, and
\* while it sends or waits for the response it knows whose request it is.
ClientOK(c) ==
  /\ OneOperation(c)
  /\ c.session \in {"waiting_for_send", "waiting_for_response"} => c.callback \in Request

\* What callbacks do with the client of the handler that calls them: a session that
\* is busy stays as it is, whatever they request or cancel.
Follows(c, d) ==
  /\ IsClient(d)
  /\ c.session \in Busy => /\ d.session = c.session /\ d.callback = c.callback
                           /\ d.operations = c.operations
  /\ c.session \notin Busy /\ c.operations = 0 => ClientOK(d)

\* A callback may do one thing after another.
LEMMA FollowsIsTransitive ==
  ASSUME NEW c, NEW d, NEW e, Follows(c, d), Follows(d, e)
  PROVE  Follows(c, e)
BY DEF Follows, ClientOK, OneOperation

\* What a callback did to a client leaves it with one operation at most.
LEMMA FollowsKeepsOK ==
  ASSUME NEW c, NEW d, Follows(c, d), ClientOK(c)
  PROVE  IsClient(d) /\ ClientOK(d)
BY DEF Follows, ClientOK, OneOperation

\* async_send begins the only operation.
LEMMA AsyncSendBegins ==
  ASSUME NEW c, IsClient(c), c.operations = 0, c.session \notin Busy \/ c.requests # <<>>
  PROVE  IsClient(AsyncSend(c)) /\ ClientOK(AsyncSend(c))
<1>1. c.requests # <<>> => Head(c.requests) \in Request /\ Tail(c.requests) \in Seq(Request)
  BY DEF IsClient
<1>. QED  BY <1>1 DEF AsyncSend, Begin, IsClient, ClientOK, OneOperation, Busy, SessionStates

\* A session that runs already gets no second operation.
LEMMA SendRequestsFollows ==
  ASSUME NEW c, IsClient(c)
  PROVE  Follows(c, SendRequests(c))
<1>1. CASE c.session = "connected" /\ c.requests # <<>>
  <2>1. c.operations = 0 => IsClient(AsyncSend(c)) /\ ClientOK(AsyncSend(c))
    BY <1>1, AsyncSendBegins DEF Busy
  <2>2. IsClient(AsyncSend(c))
    BY <1>1 DEF AsyncSend, Begin, IsClient, Busy, SessionStates
  <2>. QED  BY <1>1, <2>1, <2>2 DEF SendRequests, Follows, Busy
<1>2. CASE c.session = "disconnected" /\ c.requests # <<>>
  BY <1>2 DEF SendRequests, AsyncConnect, Begin, Follows, IsClient, ClientOK, OneOperation, Busy, SessionStates
<1>3. CASE c.requests = <<>> \/ c.session \notin {"disconnected", "connected"}
  BY <1>3 DEF SendRequests, Follows, IsClient, ClientOK, OneOperation, Busy, SessionStates
<1>. QED  BY <1>1, <1>2, <1>3

\* Requests in a row.
LEMMA RequestAllFollows ==
  ASSUME NEW c, IsClient(c), NEW requests \in Seq(Request)
  PROVE  Follows(c, RequestAll(c, requests))
<1>. DEFINE d == [c EXCEPT !.requests = @ \o requests,
                           !.session = IF @ = "none" THEN "disconnected" ELSE @]
<1>1. IsClient(d) /\ d.operations = c.operations /\ d.callback = c.callback
      /\ d.session = IF c.session = "none" THEN "disconnected" ELSE c.session
  BY DEF IsClient, SessionStates
<1>2. Follows(d, SendRequests(d))
  BY <1>1, SendRequestsFollows
<1>. HIDE DEF d
<1>3. Follows(c, SendRequests(d))
  BY <1>1, <1>2 DEF Follows, Busy
<1>4. Follows(c, c)
  BY DEF Follows, ClientOK, OneOperation, Busy
<1>. QED  BY <1>3, <1>4 DEF RequestAll, d

\* A request.
LEMMA RequestAsyncFollows ==
  ASSUME NEW c, IsClient(c), NEW request \in Request
  PROVE  Follows(c, RequestAsync(c, request))
<1>. DEFINE d == [c EXCEPT !.requests = Append(@, request),
                           !.session = IF @ = "none" THEN "disconnected" ELSE @]
<1>1. IsClient(d) /\ d.operations = c.operations /\ d.callback = c.callback
      /\ d.session = IF c.session = "none" THEN "disconnected" ELSE c.session
  BY DEF IsClient, SessionStates
<1>2. Follows(d, SendRequests(d))
  BY <1>1, SendRequestsFollows
<1>. HIDE DEF d
<1>3. Follows(c, SendRequests(d))
  BY <1>1, <1>2 DEF Follows, Busy
<1>. QED  BY <1>3 DEF RequestAsync, d

\* Cancelling leaves what is in flight.
LEMMA CancelFollows ==
  ASSUME NEW c, IsClient(c)
  PROVE  Follows(c, CancelOutstandingRequests(c))
BY DEF CancelOutstandingRequests, Follows, IsClient, ClientOK, OneOperation, Busy

\* A client for another host begins with a session of its own.
LEMMA OtherHostIsOK ==
  ASSUME NEW c, IsClient(c)
  PROVE  IsClient(SetOtherHost(c)) /\ ClientOK(SetOtherHost(c))
BY DEF SetOtherHost, IsClient, ClientOK, OneOperation, Busy, SessionStates

\* The handlers of the session, without the callback that runs in the middle.
LEMMA HandlersAreOK ==
  ASSUME NEW c, IsClient(c), ClientOK(c)
  PROVE  /\ c.session = "resolving" => IsClient(OnResolve(c)) /\ ClientOK(OnResolve(c))
         /\ c.session = "connecting" => IsClient(OnConnect(c)) /\ ClientOK(OnConnect(c))
         /\ c.session = "waiting_for_send" => IsClient(OnWrite(c)) /\ ClientOK(OnWrite(c))
<1>1. ASSUME c.session = "connecting" PROVE IsClient(OnConnect(c)) /\ ClientOK(OnConnect(c))
  <2>. DEFINE d == [Finish(c) EXCEPT !.session = "connected"]
  <2>1. IsClient(d) /\ d.operations = 0 /\ d.session \notin Busy
    BY <1>1 DEF IsClient, ClientOK, OneOperation, Finish, Busy, SessionStates
  <2>. HIDE DEF d
  <2>2. IsClient(AsyncSend(d)) /\ ClientOK(AsyncSend(d))
    BY <2>1, AsyncSendBegins
  <2>. QED  BY <2>2 DEF OnConnect, d
<1>2. ASSUME c.session = "resolving" PROVE IsClient(OnResolve(c)) /\ ClientOK(OnResolve(c))
  BY <1>2 DEF OnResolve, Begin, Finish, IsClient, ClientOK, OneOperation, Busy, SessionStates
<1>3. ASSUME c.session = "waiting_for_send" PROVE IsClient(OnWrite(c)) /\ ClientOK(OnWrite(c))
  BY <1>3 DEF OnWrite, Begin, Finish, IsClient, ClientOK, OneOperation, Busy, SessionStates
<1>. QED  BY <1>1, <1>2, <1>3

\* A handler that fails calls the callback in the state it leaves, or before that.
LEMMA ErrorsAreOK ==
  ASSUME NEW c, IsClient(c), ClientOK(c), c.session \in Busy, NEW d, Follows(BeforeError(c), d)
  PROVE  IsClient(BeforeError(c)) /\ IsClient(AfterError(c.session, d)) /\ ClientOK(AfterError(c.session, d))
<1>1. IsClient(BeforeError(c)) /\ BeforeError(c).operations = 0
      /\ BeforeError(c).session = IF c.session = "resolving" THEN "resolving" ELSE "disconnected"
  BY DEF BeforeError, Disconnected, Finish, IsClient, ClientOK, OneOperation, Busy, SessionStates
<1>2. CASE c.session = "resolving"
  BY <1>1, <1>2 DEF AfterError, Disconnected, Follows, IsClient, ClientOK, OneOperation, Busy, SessionStates
<1>3. CASE c.session # "resolving"
  BY <1>1, <1>3 DEF AfterError, Follows, Busy
<1>. QED  BY <1>1, <1>2, <1>3

\* A session that has read a response stays busy while its callback runs.
LEMMA ResponsesAreOK ==
  ASSUME NEW c, IsClient(c), ClientOK(c), c.session = "waiting_for_response",
         NEW d, Follows(BeforeResponse(c), d), NEW keepAlive \in BOOLEAN
  PROVE  /\ IsClient(BeforeResponse(c))
         /\ IsClient(AfterResponse(d, keepAlive)) /\ ClientOK(AfterResponse(d, keepAlive))
<1>1. IsClient(BeforeResponse(c)) /\ BeforeResponse(c).operations = 0
      /\ BeforeResponse(c).session = "waiting_for_response"
  BY DEF BeforeResponse, Finish, IsClient, ClientOK, OneOperation, Busy, SessionStates
<1>2. IsClient(d) /\ d.operations = 0 /\ d.session = "waiting_for_response"
  BY <1>1 DEF Follows, Busy
<1>3. d.requests # <<>> => IsClient(AsyncSend(d)) /\ ClientOK(AsyncSend(d))
  BY <1>2, AsyncSendBegins
<1>4. IsClient(AsyncConnect(d)) /\ ClientOK(AsyncConnect(d))
  BY <1>2 DEF AsyncConnect, Begin, IsClient, ClientOK, OneOperation, Busy, SessionStates
<1>5. IsClient(Disconnected(d)) /\ ClientOK(Disconnected(d))
  BY <1>2 DEF Disconnected, IsClient, ClientOK, OneOperation, Busy, SessionStates
<1>6. IsClient([d EXCEPT !.session = "connected"]) /\ ClientOK([d EXCEPT !.session = "connected"])
  BY <1>2 DEF IsClient, ClientOK, OneOperation, Busy, SessionStates
<1>. QED  BY <1>1, <1>3, <1>4, <1>5, <1>6 DEF AfterResponse

-----------------------------------------------------------------------------
(* The functions of the node. *)

\* The fields of a timer.
IsTimer(t) ==
  /\ DOMAIN t = {"callback", "repeating", "waiting", "expired"}
  /\ AsioTimer(t, TimerCallbacks)

\* The fields of the node.
IsNode(n) ==
  /\ DOMAIN n = {"enabled", "mode", "status", "host", "serving", "selected", "postErrors", "failed",
                 "browsing", "resolved", "subscribed", "content", "changed", "client", "timer",
                 "heartbeat"}
  /\ n.enabled \in BOOLEAN /\ n.mode \in Modes /\ n.status \in Statuses
  /\ n.host \in Hosts \cup {"none"}
  /\ n.serving \in BOOLEAN /\ n.selected \in BOOLEAN /\ n.postErrors \in BOOLEAN
  /\ n.browsing \in BOOLEAN /\ n.resolved \in BOOLEAN /\ n.subscribed \in BOOLEAN
  /\ n.failed \in 0..MaxFailed
  /\ n.content \in [Resources -> Revisions \cup {Absent}]
  /\ n.changed \subseteq Resources
  /\ IsClient(n.client) /\ IsTimer(n.timer) /\ IsTimer(n.heartbeat)

\* A registered node beats, or it has no registry yet and waits to discover one.
Alive(n) ==
  /\ n.status = "registered" /\ n.heartbeat.callback # "heartbeat"
       => n.timer.callback = "discover" /\ ~n.selected
  /\ n.heartbeat.callback = "heartbeat" => n.heartbeat.repeating

\* A node whose client and whose registration are in order.
NodeOK(n) == IsNode(n) /\ ClientOK(n.client) /\ Alive(n)

\* A node that has only made requests.
Requested(n, m) ==
  /\ IsNode(m) /\ Follows(n.client, m.client)
  /\ m.status = n.status /\ m.timer = n.timer /\ m.heartbeat = n.heartbeat /\ m.selected = n.selected

\* The node may request one thing after another.
LEMMA RequestedIsTransitive ==
  ASSUME NEW l, NEW m, NEW n, Requested(l, m), Requested(m, n)
  PROVE  Requested(l, n)
BY FollowsIsTransitive DEF Requested

\* Requests do not touch what keeps a registration alive.
LEMMA RequestedKeepsOK ==
  ASSUME NEW n, NEW m, Requested(n, m), Alive(n)
  PROVE  Alive(m) /\ (ClientOK(n.client) => NodeOK(m))
BY FollowsKeepsOK DEF Requested, Alive, NodeOK

\* SetToSeq of finite sets is a sequence of their elements.
LEMMA OrderIsSeq ==
  ASSUME NEW S, IsFiniteSet(S)
  PROVE  Seqs!SetToSeq(S) \in [1..Cardinality(S) -> S] /\ Cardinality(S) \in Nat
<1>0. Seqs!Cardinality(S) = Cardinality(S)
  BY Zenon DEF Cardinality, Seqs!Cardinality
<1>1. Cardinality(S) \in Nat /\ ExistsBijection(1..Cardinality(S), S)
  BY FS_CardinalityType
<1>2. PICK f : f \in Bijection(1..Cardinality(S), S)
  BY <1>1 DEF ExistsBijection
<1>3. f \in [1..Cardinality(S) -> S] /\ Seqs!IsInjective(f)
  BY <1>2 DEF Bijection, Injection, Surjection, IsInjective, Seqs!IsInjective
<1>. QED  BY <1>0, <1>1, <1>3 DEF Seqs!SetToSeq

\* send_updated_resources_async posts resources that the node has.
LEMMA PostsAreRequests ==
  ASSUME NEW n, IsNode(n), NEW rs, IsFiniteSet(rs)
  PROVE  Posts(n, rs) \in Seq(Request)
<1>. DEFINE C == Changed(n, rs)
            order == Seqs!SetToSeq(C)
<1>1. IsFiniteSet(C)
  BY FS_Subset, C \subseteq rs DEF Changed
<1>2. \A r \in C : r \in Resources /\ n.content[r] \in Revisions
  BY DEF Changed, Present, IsNode
<1>. HIDE DEF C
<1>3. order \in [1..Cardinality(C) -> C] /\ Cardinality(C) \in Nat
  BY <1>1, OrderIsSeq
<1>. HIDE DEF order
<1>4. Len(order) = Cardinality(C) /\ \A i \in 1..Len(order) : order[i] \in C
  BY <1>3
<1>5. \A i \in 1..Len(order) :
        [kind |-> "post", resource |-> order[i], revision |-> n.content[order[i]]] \in Request
  BY <1>2, <1>4 DEF Request
<1>6. Posts(n, rs) = [i \in 1..Len(order) |->
                        [kind |-> "post", resource |-> order[i], revision |-> n.content[order[i]]]]
  BY DEF Posts, order, C
<1>. QED  BY <1>3, <1>4, <1>5, <1>6

\* send_updated_resources_async only requests.
LEMMA SendUpdatedRequests ==
  ASSUME NEW n, IsNode(n)
  PROVE  Requested(n, SendUpdatedResources(n))
<1>. DEFINE posts == Posts(n, {Self}) \o Posts(n, Devices) \o Posts(n, Parts)
<1>1. Posts(n, {Self}) \in Seq(Request) /\ Posts(n, Devices) \in Seq(Request) /\ Posts(n, Parts) \in Seq(Request)
  BY PostsAreRequests, FS_Singleton, ResourcesAssumption
<1>2. posts \in Seq(Request)
  BY <1>1
<1>. HIDE DEF posts
<1>3. Follows(n.client, RequestAll(n.client, posts))
  BY <1>2, RequestAllFollows DEF IsNode
<1>4. SendUpdatedResources(n) = [n EXCEPT !.client = RequestAll(n.client, posts), !.changed = {}]
  BY DEF SendUpdatedResources, posts
<1>. QED  BY <1>3, <1>4 DEF Requested, IsNode, Follows

\* A request of the node.
LEMMA SendRequested ==
  ASSUME NEW n, IsNode(n), NEW request \in Request
  PROVE  Requested(n, Send(n, request))
<1>1. Follows(n.client, RequestAsync(n.client, request))
  BY RequestAsyncFollows DEF IsNode
<1>. QED  BY <1>1 DEF Send, Requested, IsNode, Follows

\* set_status changes the status, and forgets the selected registry if at all.
LEMMA SetStatusKeeps ==
  ASSUME NEW n, IsNode(n), NEW status \in Statuses
  PROVE  /\ IsNode(SetStatus(n, status)) /\ SetStatus(n, status).status = status
         /\ SetStatus(n, status).client = n.client
         /\ SetStatus(n, status).timer = n.timer /\ SetStatus(n, status).heartbeat = n.heartbeat
         /\ SetStatus(n, status).selected => n.selected
BY DEF SetStatus, IsNode

\* post_resource_async for everything, then get_async.
LEMMA RegisterRequested ==
  ASSUME NEW n, IsNode(n)
  PROVE  Requested(n, Register(n))
<1>. DEFINE m == [n EXCEPT !.postErrors = FALSE, !.failed = 0, !.changed = Present(n)]
<1>1. IsNode(m) /\ m.client = n.client /\ m.status = n.status /\ m.timer = n.timer
      /\ m.heartbeat = n.heartbeat /\ m.selected = n.selected
  BY MaxFailedAssumption DEF IsNode, Present
<1>. HIDE DEF m
<1>2. Requested(m, SendUpdatedResources(m))
  BY <1>1, SendUpdatedRequests
<1>3. [kind |-> "verify"] \in Request
  BY DEF Request
<1>4. Requested(SendUpdatedResources(m), Send(SendUpdatedResources(m), [kind |-> "verify"]))
  BY <1>2, <1>3, SendRequested DEF Requested
<1>5. Requested(m, Register(n))
  BY <1>2, <1>4, RequestedIsTransitive DEF Register, m
<1>. QED  BY <1>1, <1>5 DEF Requested

\* connect_to_registry_async only requests.
LEMMA ConnectRequested ==
  ASSUME NEW n, IsNode(n)
  PROVE  Requested(n, ConnectToRegistry(n))
BY SendRequested, [kind |-> "connect"] \in Request DEF ConnectToRegistry, Request

\* Deleting a resource only requests.
LEMMA DeleteRequested ==
  ASSUME NEW n, IsNode(n), NEW r \in Resources
  PROVE  Requested(n, DeleteResource(n, r))
BY SendRequested, [kind |-> "delete", resource |-> r] \in Request DEF DeleteResource, Request

\* A change of the resources only requests.
LEMMA SendIfRegisteredKeepsOK ==
  ASSUME NEW n, NodeOK(n)
  PROVE  NodeOK(SendIfRegistered(n))
BY SendUpdatedRequests, RequestedKeepsOK DEF SendIfRegistered, NodeOK

\* Whether a node is alive does not depend on the host; another host abandons
\* the session and its operation with it.
LEMMA ConnectToHostIsOK ==
  ASSUME NEW n, IsNode(n), ClientOK(n.client), NEW host \in Hosts,
         n.heartbeat.callback = "heartbeat" => n.heartbeat.repeating
  PROVE  NodeOK(ConnectToHost(n, host))
<1>. DEFINE m == [n EXCEPT !.client = IF host = n.host THEN @ ELSE SetOtherHost(@), !.host = host]
            s == SetStatus(m, "connecting")
<1>1. IsClient(SetOtherHost(n.client)) /\ ClientOK(SetOtherHost(n.client))
  BY OtherHostIsOK DEF IsNode
<1>2. IsNode(m) /\ ClientOK(m.client) /\ m.heartbeat = n.heartbeat
  BY <1>1 DEF IsNode
<1>. HIDE DEF m
<1>3. IsNode(s) /\ ClientOK(s.client) /\ Alive(s)
  BY <1>2, SetStatusKeeps DEF Statuses, Alive
<1>. HIDE DEF s
<1>4. NodeOK(ConnectToRegistry(s))
  BY <1>3, ConnectRequested, RequestedKeepsOK
<1>. QED  BY <1>4 DEF ConnectToHost, s, m

\* A registry that is discovered is selected unless one is in use already.
LEMMA SelectRegistryIsOK ==
  ASSUME NEW n, NodeOK(n)
  PROVE  /\ NodeOK(SelectRegistry(n))
         /\ SelectRegistry(n).status = "registered" => SelectRegistry(n) = n /\ n.selected
<1>. DEFINE m == [n EXCEPT !.selected = TRUE]
            s == ConnectToHost(m, "mdns_p2p")
<1>1. IsNode(m) /\ ClientOK(m.client) /\ m.heartbeat = n.heartbeat
  BY DEF NodeOK, IsNode
<1>. HIDE DEF m
<1>2. NodeOK(s)
  BY <1>1, ConnectToHostIsOK DEF Hosts, NodeOK, Alive
<1>3. s.status = "connecting"
  <2>. DEFINE t == [m EXCEPT !.client = IF "mdns_p2p" = m.host THEN @ ELSE SetOtherHost(@),
                             !.host = "mdns_p2p"]
  <2>1. IsNode(t)
    BY <1>1, OtherHostIsOK DEF IsNode, Hosts
  <2>. HIDE DEF t
  <2>2. IsNode(SetStatus(t, "connecting")) /\ SetStatus(t, "connecting").status = "connecting"
    BY <2>1, SetStatusKeeps DEF Statuses
  <2>. QED  BY <2>2, ConnectRequested DEF ConnectToHost, t, Requested
<1>. HIDE DEF s
<1>4. SelectRegistry(n) = IF n.selected /\ n.status = "registered" THEN n ELSE s
  BY DEF SelectRegistry, s, m
<1>. QED  BY <1>2, <1>3, <1>4

\* stop_internal stops both timers.
LEMMA StopInternalIsOK ==
  ASSUME NEW n, IsNode(n), ClientOK(n.client)
  PROVE  /\ IsNode(StopInternal(n)) /\ ClientOK(StopInternal(n).client)
         /\ StopInternal(n).heartbeat.callback = NoCallback /\ ~StopInternal(n).selected
         /\ StopInternal(n).status = n.status
<1>1. IsClient(CancelOutstandingRequests(n.client)) /\ ClientOK(CancelOutstandingRequests(n.client))
  BY CancelFollows, FollowsKeepsOK DEF IsNode
<1>2. IsTimer(Stop(n.timer)) /\ IsTimer(Stop(n.heartbeat)) /\ Stop(n.heartbeat).callback = NoCallback
  BY DEF IsNode, IsTimer, Stop, AsioTimer
<1>. QED  BY <1>1, <1>2 DEF StopInternal, IsNode

\* start_internal leaves a node that waits for a registry, or asks the one it has.
LEMMA StartInternalIsOK ==
  ASSUME NEW n, IsNode(n), ClientOK(n.client),
         n.heartbeat.callback = "heartbeat" => n.heartbeat.repeating,
         n.selected => Alive(n)
  PROVE  NodeOK(StartInternal(n))
<1>. DEFINE s == [n EXCEPT !.serving = TRUE, !.changed = @ \cup (Devices \cap Present(n))]
            p == [s EXCEPT !.selected = FALSE, !.browsing = FALSE, !.resolved = FALSE]
            d == [s EXCEPT !.subscribed = FALSE, !.browsing = TRUE, !.timer = Once(@, "discover")]
<1>1. IsNode(s) /\ s.client = n.client /\ s.heartbeat = n.heartbeat /\ s.timer = n.timer
      /\ s.selected = n.selected /\ s.status = n.status
  BY DEF IsNode, Present
<1>. HIDE DEF s
<1>2. NodeOK(ConnectToHost(s, "manual"))
  BY <1>1, ConnectToHostIsOK DEF Hosts
<1>3. IsNode(p) /\ p.client = s.client /\ p.heartbeat = s.heartbeat
  BY <1>1 DEF IsNode
<1>. HIDE DEF p
<1>4. NodeOK(SetStatus(p, "p2p"))
  BY <1>1, <1>3, SetStatusKeeps DEF Statuses, NodeOK, Alive
<1>5. s.selected => NodeOK(ConnectToRegistry(s))
  BY <1>1, ConnectRequested, RequestedKeepsOK DEF Alive
<1>6. ~s.selected => NodeOK(d)
  <2>1. IsTimer(Once(s.timer, "discover")) /\ Once(s.timer, "discover").callback = "discover"
    BY <1>1 DEF Once, Start, Wait, IsNode, IsTimer, AsioTimer, TimerCallbacks
  <2>. QED  BY <1>1, <2>1 DEF NodeOK, Alive, IsNode
<1>. HIDE DEF d
<1>7. StartInternal(n) = IF s.mode = "manual" THEN ConnectToHost(s, "manual")
                         ELSE IF s.mode = "p2p" THEN SetStatus(p, "p2p")
                         ELSE IF s.selected THEN ConnectToRegistry(s) ELSE d
  BY DEF StartInternal, s, p, d
<1>. QED  BY <1>2, <1>4, <1>5, <1>6, <1>7

-----------------------------------------------------------------------------
(* The response callbacks. *)

\* The answers that a callback is called with.
Outcomes == {"ok", "refused", "failed"}

\* What a callback leaves to the handler that calls it.
Handles(n, m) == IsNode(m) /\ Follows(n.client, m.client) /\ Alive(m)

\* A callback may leave the client alone.
LEMMA SameClientFollows ==
  ASSUME NEW c, IsClient(c)
  PROVE  Follows(c, c)
BY DEF Follows, ClientOK, OneOperation, Busy

\* The answer to the connection: the session is what it was, the registration is alive.
LEMMA ConnectHandled ==
  ASSUME NEW n, IsNode(n), Alive(n), NEW outcome \in Outcomes
  PROVE  Handles(n, ConnectAnswered(n, outcome))
<1>. DEFINE e == SetStatus(n, "error")
            r == Register(n)
<1>1. IsNode(e) /\ e.status = "error" /\ e.client = n.client /\ e.timer = n.timer /\ e.heartbeat = n.heartbeat
  BY SetStatusKeeps DEF Statuses
<1>. HIDE DEF e
<1>2. Handles(n, e)
  BY <1>1, SameClientFollows DEF Handles, Alive, IsNode
<1>3. Handles(n, [e EXCEPT !.timer = Once(@, "retry")])
  <2>1. IsTimer(Once(e.timer, "retry"))
    BY <1>1 DEF Once, Start, Wait, IsNode, IsTimer, AsioTimer, TimerCallbacks
  <2>. QED  BY <1>1, <1>2, <2>1 DEF Handles, Alive, IsNode
<1>4. IsNode(r) /\ Follows(n.client, r.client) /\ Alive(r)
  BY RegisterRequested, RequestedKeepsOK DEF Requested
<1>. HIDE DEF r
<1>5. Handles(n, SetStatus(r, "connected"))
  BY <1>4, SetStatusKeeps DEF Statuses, Handles, Alive
<1>. QED  BY <1>2, <1>3, <1>5 DEF ConnectAnswered, e, r, Outcomes

\* The answer to the verification.
LEMMA VerifyHandled ==
  ASSUME NEW n, IsNode(n), Alive(n), NEW outcome \in Outcomes
  PROVE  Handles(n, VerifyAnswered(n, outcome))
<1>1. Handles(n, SetStatus(n, "error"))
  BY SetStatusKeeps, SameClientFollows DEF Statuses, Handles, Alive, IsNode
<1>. DEFINE s == SetStatus(n, "registered")
<1>2. IsNode(s) /\ s.client = n.client /\ s.heartbeat = n.heartbeat
  BY SetStatusKeeps DEF Statuses
<1>. HIDE DEF s
<1>3. IsTimer(Start(s.heartbeat, "heartbeat", TRUE))
      /\ Start(s.heartbeat, "heartbeat", TRUE).callback = "heartbeat"
      /\ Start(s.heartbeat, "heartbeat", TRUE).repeating
  BY <1>2 DEF Start, Wait, IsNode, IsTimer, AsioTimer, TimerCallbacks
<1>4. Handles(n, [s EXCEPT !.heartbeat = Start(@, "heartbeat", TRUE)])
  BY <1>2, <1>3, SameClientFollows DEF Handles, Alive, IsNode
<1>. QED  BY <1>1, <1>4 DEF VerifyAnswered, s

\* The answer to a post.
LEMMA PostHandled ==
  ASSUME NEW n, IsNode(n), Alive(n), NEW outcome \in Outcomes
  PROVE  Handles(n, PostAnswered(n, outcome))
<1>. DEFINE p == [n EXCEPT !.postErrors = TRUE]
<1>1. IsNode(p) /\ Alive(p) /\ p.client = n.client
  BY DEF IsNode, Alive
<1>. HIDE DEF p
<1>2. Handles(n, p) /\ Handles(n, n)
  BY <1>1, SameClientFollows DEF Handles, IsNode
<1>3. Handles(n, SetStatus(p, "error"))
  BY <1>1, <1>2, SetStatusKeeps DEF Statuses, Handles, Alive
<1>. QED  BY <1>2, <1>3 DEF PostAnswered, p, Outcomes

\* The answer to a deletion.
LEMMA DeleteHandled ==
  ASSUME NEW n, IsNode(n), Alive(n), NEW outcome \in Outcomes
  PROVE  Handles(n, DeleteAnswered(n, outcome))
<1>1. Handles(n, n)
  BY SameClientFollows DEF Handles, IsNode
<1>2. Handles(n, SetStatus(n, "error"))
  BY <1>1, SetStatusKeeps DEF Statuses, Handles, Alive
<1>. QED  BY <1>1, <1>2 DEF DeleteAnswered

\* The answer to a heartbeat, which may end the registration.
LEMMA HeartbeatHandled ==
  ASSUME NEW n, IsNode(n), Alive(n), NEW outcome \in Outcomes
  PROVE  Handles(n, HeartbeatAnswered(n, outcome))
<1>. DEFINE f == [n EXCEPT !.failed = LeastOf(@ + 1, MaxFailed)]
            z == [n EXCEPT !.failed = 0]
            c == [f EXCEPT !.client = CancelOutstandingRequests(@)]
            e == SetStatus(c, "error")
            h == [e EXCEPT !.heartbeat = Stop(@)]
<1>1. IsNode(f) /\ Alive(f) /\ f.client = n.client
  BY MaxFailedAssumption DEF IsNode, Alive, LeastOf
<1>2. IsNode(z) /\ Alive(z) /\ z.client = n.client
  BY MaxFailedAssumption DEF IsNode, Alive
<1>. HIDE DEF f, z
<1>3. Handles(n, f) /\ Handles(n, z)
  BY <1>1, <1>2, SameClientFollows DEF Handles, IsNode
<1>4. IsNode(c) /\ Follows(n.client, c.client)
  <2>1. Follows(f.client, CancelOutstandingRequests(f.client))
    BY <1>1, CancelFollows DEF IsNode
  <2>. QED  BY <1>1, <2>1 DEF IsNode, Follows
<1>. HIDE DEF c
<1>5. IsNode(e) /\ Follows(n.client, e.client) /\ e.status = "error"
  BY <1>4, SetStatusKeeps DEF Statuses
<1>. HIDE DEF e
<1>6. IsNode(h) /\ Follows(n.client, h.client) /\ Alive(h)
  <2>1. IsTimer(Stop(e.heartbeat)) /\ Stop(e.heartbeat).callback = NoCallback
    BY <1>5 DEF IsNode, IsTimer, Stop, AsioTimer
  <2>. QED  BY <1>5, <2>1 DEF IsNode, Alive, NoCallback
<1>. HIDE DEF h
<1>7. Handles(n, ConnectToRegistry(h))
  BY <1>6, ConnectRequested, RequestedKeepsOK, FollowsIsTransitive DEF Requested, Handles
<1>8. HeartbeatAnswered(n, outcome) =
        CASE outcome = "ok" -> z
          [] outcome = "refused" /\ f.failed < MaxFailed -> f
          [] OTHER -> ConnectToRegistry(h)
  BY DEF HeartbeatAnswered, z, f, c, e, h
<1>. QED  BY <1>3, <1>7, <1>8 DEF Outcomes

\* Whatever the callback of a response does, a registered node stays alive and
\* the session that calls it is left as it was.
LEMMA AnsweredHandled ==
  ASSUME NEW n, IsNode(n), Alive(n), NEW outcome \in Outcomes,
         NEW request \in Request \cup {NoRequest}
  PROVE  Handles(n, Answered(n, request, outcome))
<1>1. CASE request = NoRequest
  BY <1>1, SameClientFollows DEF Answered, Handles, IsNode
<1>2. CASE request # NoRequest
  <2>1. request.kind \in {"connect", "verify", "heartbeat", "post", "delete"}
    BY <1>2 DEF Request
  <2>. QED  BY <1>2, <2>1, ConnectHandled, VerifyHandled, PostHandled, DeleteHandled, HeartbeatHandled
            DEF Answered
<1>. QED  BY <1>1, <1>2

-----------------------------------------------------------------------------
(* The invariant. *)

\* What registries hold, and how much of each limit is left.
RegistryOK == registry \in [Hosts -> [Resources -> Revisions \cup {Absent}]]
LeftOK == left \in [DOMAIN Limits -> Nat] /\ \A l \in DOMAIN Limits : left[l] <= Limits[l]

\* The inductive invariant.
NodeInv == NodeOK(node) /\ RegistryOK /\ LeftOK

\* A node that was just made.
LEMMA NodeInit == Init => NodeInv
<1>. SUFFICES ASSUME Init PROVE NodeInv
  OBVIOUS
<1>1. 1 \in Revisions
  BY LimitsAssumption DEF Revisions
<1>2. IsClient(NewClient) /\ ClientOK(NewClient)
  BY DEF NewClient, IsClient, ClientOK, OneOperation, SessionStates, Busy
<1>3. IsTimer(NewTimer)
  BY DEF NewTimer, IsTimer, AsioTimer, NoCallback, ExpiredBound
<1>4. NodeOK(node)
  BY <1>1, <1>2, <1>3, MaxFailedAssumption
     DEF Init, NodeOK, IsNode, Alive, Modes, Statuses, Resources, NewTimer, NoCallback
<1>5. RegistryOK
  BY DEF Init, RegistryOK, NothingKnown
<1>6. LeftOK
  BY LimitsAssumption DEF Init, LeftOK
<1>. QED  BY <1>4, <1>5, <1>6 DEF NodeInv

\* What is used of a limit was left of it.
LEMMA UseKeepsLeft ==
  ASSUME LeftOK, NEW limit \in DOMAIN Limits, Use(limit)
  PROVE  LeftOK'
<1>. DEFINE Kinds == DOMAIN Limits
<1>1. Limits \in [Kinds -> Nat] /\ left \in [Kinds -> Nat] /\ limit \in Kinds
      /\ left[limit] > 0 /\ left' = [left EXCEPT ![limit] = @ - 1] /\ \A l \in Kinds : left[l] <= Limits[l]
  BY LimitsAssumption DEF LeftOK, Use
<1>. HIDE DEF Kinds
<1>2. left' \in [Kinds -> Nat] /\ \A l \in Kinds : left'[l] <= Limits[l]
  BY <1>1
<1>. QED  BY <1>2 DEF LeftOK, Kinds

\* The next revision of an edit or of a configuration is one that there is.
LEMMA NextRevisionIsOne ==
  ASSUME LeftOK, left["edits"] > 0 \/ left["configurations"] > 0
  PROVE  NextRevision \in Revisions
BY LimitsAssumption DEF LeftOK, NextRevision, Revisions

\* A change of the resources changes nothing else.
LEMMA UpdateKeeps ==
  ASSUME NEW n, IsNode(n), LeftOK, left["edits"] > 0 \/ left["configurations"] > 0,
         NEW rs \in SUBSET Resources
  PROVE  /\ IsNode(Update(n, rs)) /\ Update(n, rs).client = n.client
         /\ Update(n, rs).heartbeat = n.heartbeat /\ Update(n, rs).timer = n.timer
         /\ Update(n, rs).status = n.status /\ Update(n, rs).selected = n.selected
<1>1. [r \in Resources |-> IF r \in rs THEN NextRevision ELSE n.content[r]]
        \in [Resources -> Revisions \cup {Absent}]
  BY NextRevisionIsOne DEF IsNode
<1>. QED  BY <1>1 DEF Update, IsNode

\* A registry keeps what the node posted, or nothing of it.
LEMMA ProcessedIsTyped ==
  ASSUME RegistryOK, NEW request \in Request
  PROVE  Processed(request) \in [Hosts -> [Resources -> Revisions \cup {Absent}]]
<1>. DEFINE Contents == [Resources -> Revisions \cup {Absent}]
<1>1. CASE request.kind = "post"
  <2>1. request.resource \in Resources /\ request.revision \in Revisions
    BY <1>1 DEF Request
  <2>2. \A c \in Contents : [c EXCEPT ![request.resource] = request.revision] \in Contents
    BY <2>1
  <2>. HIDE DEF Contents
  <2>. QED  BY <1>1, <2>2 DEF Processed, RegistryOK, Contents
<1>2. CASE request.kind = "delete"
  <2>1. \A c \in Contents :
          [r \in Resources |-> IF r \in Dependants(request.resource) THEN Absent ELSE c[r]] \in Contents
    OBVIOUS
  <2>. HIDE DEF Contents
  <2>. QED  BY <1>2, <2>1 DEF Processed, RegistryOK, Contents
<1>3. CASE request.kind \notin {"post", "delete"}
  BY <1>3 DEF Processed, RegistryOK
<1>. QED  BY <1>1, <1>2, <1>3

\* The calls of the user.
LEMMA StartNodeStep == NodeInv /\ StartNode => NodeOK(node')
<1>. SUFFICES ASSUME NodeInv, StartNode PROVE NodeOK(node')
  OBVIOUS
<1>. DEFINE n == [node EXCEPT !.enabled = TRUE]
<1>1. NodeOK(n)
  BY DEF NodeInv, NodeOK, IsNode, Alive
<1>. HIDE DEF n
<1>2. NodeOK(StartInternal(n))
  BY <1>1, StartInternalIsOK DEF NodeOK, Alive
<1>3. node' = IF n.serving THEN n ELSE StartInternal(n)
  BY DEF StartNode, n
<1>. QED  BY <1>1, <1>2, <1>3

\* stop leaves nothing registered.
LEMMA StopNodeStep == NodeInv /\ StopNode => NodeOK(node')
<1>. SUFFICES ASSUME NodeInv, StopNode PROVE NodeOK(node')
  OBVIOUS
<1>. DEFINE m == [node EXCEPT !.enabled = FALSE]
            n == StopInternal(m)
            d == IF n.status = "registered" THEN DeleteResource(n, Self) ELSE n
<1>1. IsNode(m) /\ ClientOK(m.client)
  BY DEF NodeInv, NodeOK, IsNode
<1>. HIDE DEF m
<1>2. IsNode(n) /\ ClientOK(n.client) /\ n.heartbeat.callback = NoCallback
  BY <1>1, StopInternalIsOK
<1>. HIDE DEF n
<1>3. Requested(n, DeleteResource(n, Self))
  BY <1>2, DeleteRequested DEF Resources
<1>4. IsNode(d) /\ ClientOK(d.client) /\ d.heartbeat.callback = NoCallback
  BY <1>2, <1>3, FollowsKeepsOK DEF Requested
<1>. HIDE DEF d
<1>5. NodeOK(SetStatus(d, "disabled"))
  BY <1>4, SetStatusKeeps DEF Statuses, NodeOK, Alive, NoCallback
<1>. QED  BY <1>5 DEF StopNode, d, n, m

\* set_configuration stops and starts, or leaves the node as it is.
LEMMA SetConfigurationStep ==
  ASSUME NodeInv, NEW enabled \in BOOLEAN, NEW mode \in Modes, NEW otherPort \in BOOLEAN,
         SetConfiguration(enabled, mode, otherPort)
  PROVE  NodeOK(node')
<1>. DEFINE r == Unregistered(node, enabled)
            c == [r EXCEPT !.enabled = enabled, !.mode = mode]
            u == Update(c, {Self})
            s == StopInternal(u)
<1>1. IsNode(r) /\ ClientOK(r.client)
  <2>1. Requested(node, DeleteResource(node, Self))
    BY DeleteRequested DEF NodeInv, NodeOK, Resources
  <2>. QED  BY <2>1, FollowsKeepsOK DEF Unregistered, Requested, NodeInv, NodeOK
<1>. HIDE DEF r
<1>2. IsNode(c) /\ ClientOK(c.client)
  BY <1>1 DEF IsNode
<1>. HIDE DEF c
<1>3. left["configurations"] > 0
  BY DEF SetConfiguration, Use
<1>4. IsNode(u) /\ ClientOK(u.client)
  BY <1>2, <1>3, UpdateKeeps DEF NodeInv, Resources
<1>. HIDE DEF u
<1>5. IsNode(s) /\ ClientOK(s.client) /\ s.heartbeat.callback = NoCallback /\ ~s.selected
  BY <1>4, StopInternalIsOK
<1>. HIDE DEF s
<1>6. NodeOK(StartInternal(s))
  BY <1>5, StartInternalIsOK DEF NoCallback
<1>7. NodeOK(SetStatus(s, "disabled"))
  BY <1>5, SetStatusKeeps DEF Statuses, NodeOK, Alive, NoCallback
<1>8. node' = SendIfRegistered(IF enabled THEN StartInternal(s) ELSE SetStatus(s, "disabled"))
  BY DEF SetConfiguration, s, u, c, r
<1>. QED  BY <1>6, <1>7, <1>8, SendIfRegisteredKeepsOK

\* set_configuration may fail half way.
LEMMA SetConfigurationFailsStep ==
  ASSUME NodeInv, NEW mode \in Modes, SetConfigurationFails(mode)
  PROVE  NodeOK(node') /\ LeftOK'
<1>. DEFINE c == [node EXCEPT !.enabled = TRUE, !.mode = mode]
            u == Update(c, {Self})
            s == StopInternal(u)
<1>1. IsNode(c) /\ ClientOK(c.client)
  BY DEF NodeInv, NodeOK, IsNode
<1>. HIDE DEF c
<1>2. left["configurations"] > 0
  BY DEF SetConfigurationFails
<1>3. IsNode(u) /\ ClientOK(u.client)
  BY <1>1, <1>2, UpdateKeeps DEF NodeInv, Resources
<1>. HIDE DEF u
<1>4. IsNode(s) /\ ClientOK(s.client) /\ s.heartbeat.callback = NoCallback
  BY <1>3, StopInternalIsOK
<1>. HIDE DEF s
<1>5. NodeOK(SetStatus(s, "error"))
  BY <1>4, SetStatusKeeps DEF Statuses, NodeOK, Alive, NoCallback
<1>6. LeftOK'
  <2>. DEFINE Kinds == DOMAIN Limits
  <2>1. Limits \in [Kinds -> Nat] /\ left \in [Kinds -> Nat] /\ {"configurations", "faults"} \subseteq Kinds
    BY LimitsAssumption DEF NodeInv, LeftOK
  <2>2. /\ left["configurations"] > 0 /\ left["faults"] > 0 /\ \A l \in Kinds : left[l] <= Limits[l]
        /\ left' = [left EXCEPT !["configurations"] = @ - 1, !["faults"] = @ - 1]
    BY DEF SetConfigurationFails, NodeInv, LeftOK
  <2>. HIDE DEF Kinds
  <2>3. left' \in [Kinds -> Nat] /\ \A l \in Kinds : left'[l] <= Limits[l]
    BY <2>1, <2>2
  <2>. QED  BY <2>3 DEF LeftOK, Kinds
<1>. QED  BY <1>5, <1>6 DEF SetConfigurationFails, s, u, c

\* Resources change.
LEMMA AddOrUpdateStep ==
  ASSUME NodeInv, NEW rs \in SUBSET Resources, left["edits"] > 0
  PROVE  NodeOK(SendIfRegistered(Update(node, rs)))
<1>1. NodeOK(Update(node, rs))
  BY UpdateKeeps DEF NodeInv, NodeOK, Alive
<1>. QED  BY <1>1, SendIfRegisteredKeepsOK

\* A resource is removed.
LEMMA RemoveStep ==
  ASSUME NodeInv, NEW r \in Resources, Remove(r)
  PROVE  NodeOK(node')
<1>. DEFINE n == [node EXCEPT
                   !.content = [x \in Resources |-> IF x \in Dependants(r) THEN Absent ELSE @[x]]]
<1>1. NodeOK(n)
  BY DEF NodeInv, NodeOK, IsNode, Alive
<1>. HIDE DEF n
<1>2. NodeOK(DeleteResource(n, r))
  BY <1>1, DeleteRequested, RequestedKeepsOK DEF NodeOK
<1>. QED  BY <1>1, <1>2 DEF Remove, n

\* The handlers of the session.
LEMMA SessionStepStep == NodeInv /\ SessionStep => NodeOK(node')
<1>. SUFFICES ASSUME NodeInv, SessionStep PROVE NodeOK(node')
  OBVIOUS
<1>. DEFINE c == node.client
            d == CASE c.session = "resolving"        -> OnResolve(c)
                   [] c.session = "connecting"       -> OnConnect(c)
                   [] c.session = "waiting_for_send" -> OnWrite(c)
<1>1. c.session \in {"resolving", "connecting", "waiting_for_send"}
  BY DEF SessionStep, Busy
<1>2. IsClient(c) /\ ClientOK(c)
  BY DEF NodeInv, NodeOK, IsNode
<1>3. IsClient(d) /\ ClientOK(d)
  BY <1>1, <1>2, HandlersAreOK
<1>4. node' = [node EXCEPT !.client = d]
  BY DEF SessionStep, SessionProceeds
<1>. HIDE DEF d, c
<1>. QED  BY <1>3, <1>4 DEF NodeInv, NodeOK, IsNode, Alive

\* An operation of the session fails, and the callbacks hear of it.
LEMMA SessionErrorStep == NodeInv /\ SessionError => NodeOK(node') /\ RegistryOK'
<1>. SUFFICES ASSUME NodeInv, SessionError PROVE NodeOK(node') /\ RegistryOK'
  OBVIOUS
<1>. DEFINE c == node.client
            b == [node EXCEPT !.client = BeforeError(c)]
            n == Answered(b, c.callback, "failed")
<1>1. IsClient(c) /\ ClientOK(c) /\ c.session \in Busy
  BY DEF NodeInv, NodeOK, IsNode, SessionError
<1>2. IsClient(BeforeError(c))
  BY <1>1 DEF BeforeError, Finish, Disconnected, IsClient, SessionStates
<1>3. IsNode(b) /\ Alive(b) /\ b.client = BeforeError(c)
  BY <1>2 DEF NodeInv, NodeOK, IsNode, Alive
<1>. HIDE DEF b
<1>4. Handles(b, n)
  BY <1>1, <1>3, AnsweredHandled DEF IsClient, Outcomes
<1>. HIDE DEF n
<1>5. IsClient(AfterError(c.session, n.client)) /\ ClientOK(AfterError(c.session, n.client))
  BY <1>1, <1>3, <1>4, ErrorsAreOK DEF Handles
<1>6. node' = [n EXCEPT !.client = AfterError(c.session, @)]
  BY DEF SessionError, n, b
<1>7. NodeOK(node')
  BY <1>4, <1>5, <1>6 DEF Handles, NodeOK, IsNode, Alive
<1>8. RegistryOK'
  BY <1>1, ProcessedIsTyped DEF SessionError, ClientOK, NodeInv, RegistryOK
<1>. QED  BY <1>7, <1>8

\* A response arrives.
LEMMA ReadResponseStep ==
  ASSUME NodeInv, NEW outcome \in {"ok", "refused"}, NEW keepAlive \in BOOLEAN,
         ReadResponse(outcome, keepAlive)
  PROVE  NodeOK(node') /\ node.client.callback \in Request
<1>. DEFINE c == node.client
            b == [node EXCEPT !.client = BeforeResponse(c)]
            n == Answered(b, c.callback, outcome)
<1>1. IsClient(c) /\ ClientOK(c) /\ c.session = "waiting_for_response" /\ c.callback \in Request
  BY DEF NodeInv, NodeOK, IsNode, ReadResponse, ClientOK
<1>2. IsClient(BeforeResponse(c))
  BY <1>1 DEF BeforeResponse, Finish, IsClient
<1>3. IsNode(b) /\ Alive(b) /\ b.client = BeforeResponse(c)
  BY <1>2 DEF NodeInv, NodeOK, IsNode, Alive
<1>. HIDE DEF b
<1>4. Handles(b, n)
  BY <1>1, <1>3, AnsweredHandled DEF IsClient, Outcomes
<1>. HIDE DEF n
<1>5. IsClient(AfterResponse(n.client, keepAlive)) /\ ClientOK(AfterResponse(n.client, keepAlive))
  BY <1>1, <1>3, <1>4, ResponsesAreOK DEF Handles
<1>6. node' = [n EXCEPT !.client = AfterResponse(@, keepAlive)]
  BY DEF ReadResponse, n, b
<1>7. NodeOK(node')
  BY <1>4, <1>5, <1>6 DEF Handles, NodeOK, IsNode, Alive
<1>. QED  BY <1>1, <1>7

\* The timers.
LEMMA TimerExpiresStep == NodeInv /\ (TimerExpires \/ HeartbeatExpires) => NodeOK(node')
<1>. SUFFICES ASSUME NodeInv, TimerExpires \/ HeartbeatExpires PROVE NodeOK(node')
  OBVIOUS
<1>1. \A t : IsTimer(t) /\ CanExpire(t) => IsTimer(Expire(t)) /\ Expire(t).callback = t.callback
                                           /\ Expire(t).repeating = t.repeating
  BY DEF IsTimer, AsioTimer, CanExpire, Expire, ExpiredBound
<1>2. CASE TimerExpires
  <2>. DEFINE t == Expire(node.timer)
  <2>1. IsTimer(t) /\ t.callback = node.timer.callback /\ node' = [node EXCEPT !.timer = t]
    BY <1>1, <1>2 DEF TimerExpires, NodeInv, NodeOK, IsNode
  <2>. HIDE DEF t
  <2>. QED  BY <2>1 DEF NodeInv, NodeOK, IsNode, Alive
<1>3. CASE HeartbeatExpires
  <2>. DEFINE t == Expire(node.heartbeat)
  <2>1. IsTimer(t) /\ t.callback = node.heartbeat.callback /\ t.repeating = node.heartbeat.repeating
        /\ node' = [node EXCEPT !.heartbeat = t]
    BY <1>1, <1>3 DEF HeartbeatExpires, NodeInv, NodeOK, IsNode
  <2>. HIDE DEF t
  <2>. QED  BY <2>1 DEF NodeInv, NodeOK, IsNode, Alive
<1>. QED  BY <1>2, <1>3

\* AsioTimer schedules a repeating timer again before it calls back,
LEMMA BeforeCallbackKeeps ==
  ASSUME NEW t, IsTimer(t), CanComplete(t)
  PROVE  /\ IsTimer(BeforeCallback(t)) /\ BeforeCallback(t).callback = t.callback
         /\ BeforeCallback(t).repeating = t.repeating
BY DEF IsTimer, AsioTimer, CanComplete, BeforeCallback, ExpiredBound

\* and forgets the callback of one that does not repeat afterwards.
LEMMA AfterCallbackKeeps ==
  ASSUME NEW t, IsTimer(t)
  PROVE  /\ IsTimer(AfterCallback(t)) /\ AfterCallback(t).repeating = t.repeating
         /\ AfterCallback(t).callback = IF t.repeating THEN t.callback ELSE NoCallback
BY DEF IsTimer, AsioTimer, AfterCallback, Wait, NoCallback

\* When the discovery times out, or a retry is due, a registered node that has no
\* heartbeat cannot stay one: it has no registry selected.
LEMMA DiscoveryTimeoutIsOK ==
  ASSUME NEW n, NodeOK(n)
  PROVE  /\ NodeOK(DiscoveryTimeout(n))
         /\ DiscoveryTimeout(n).status = "registered" => DiscoveryTimeout(n).heartbeat.callback = "heartbeat"
<1>. DEFINE s == [n EXCEPT !.subscribed = TRUE]
            status == IF s.mode = "mdns_p2p" THEN "discovering" ELSE "p2p"
<1>1. NodeOK(s)
  BY DEF NodeOK, IsNode, Alive
<1>. HIDE DEF s
<1>2. NodeOK(SelectRegistry(s))
      /\ (SelectRegistry(s).status = "registered" => SelectRegistry(s).heartbeat.callback = "heartbeat")
  BY <1>1, SelectRegistryIsOK DEF NodeOK, Alive
<1>3. NodeOK(SetStatus(s, status)) /\ SetStatus(s, status).status # "registered"
  BY <1>1, SetStatusKeeps DEF Statuses, NodeOK, Alive
<1>4. DiscoveryTimeout(n) = IF s.resolved THEN SelectRegistry(s) ELSE SetStatus(s, status)
  BY DEF DiscoveryTimeout, s
<1>. QED  BY <1>2, <1>3, <1>4

\* The discovery timer calls back.
LEMMA TimerFiresStep == NodeInv /\ TimerFires => NodeOK(node')
<1>. SUFFICES ASSUME NodeInv, TimerFires PROVE NodeOK(node')
  OBVIOUS
<1>. DEFINE n == [node EXCEPT !.timer = BeforeCallback(@)]
            m == IF n.timer.callback = "retry" THEN ConnectToRegistry(n) ELSE DiscoveryTimeout(n)
<1>1. NodeOK(n) /\ n.timer.callback = node.timer.callback
  <2>1. IsTimer(BeforeCallback(node.timer)) /\ BeforeCallback(node.timer).callback = node.timer.callback
    BY BeforeCallbackKeeps DEF TimerFires, NodeInv, NodeOK, IsNode
  <2>. QED  BY <2>1 DEF NodeInv, NodeOK, IsNode, Alive
<1>2. node' = IF n.timer.callback = NoCallback THEN n ELSE [m EXCEPT !.timer = AfterCallback(@)]
  BY DEF TimerFires, n, m
<1>. HIDE DEF n
<1>3. NodeOK(m) /\ (m.status = "registered" => m.heartbeat.callback = "heartbeat")
  <2>1. CASE n.timer.callback = "retry"
    <3>1. Requested(n, ConnectToRegistry(n)) /\ NodeOK(ConnectToRegistry(n))
      BY <1>1, ConnectRequested, RequestedKeepsOK DEF NodeOK
    <3>. QED  BY <1>1, <2>1, <3>1 DEF Requested, NodeOK, Alive
  <2>2. CASE n.timer.callback # "retry"
    BY <1>1, <2>2, DiscoveryTimeoutIsOK
  <2>. QED  BY <2>1, <2>2
<1>. HIDE DEF m
<1>4. IsTimer(AfterCallback(m.timer))
  BY <1>3, AfterCallbackKeeps DEF NodeOK, IsNode
<1>5. NodeOK([m EXCEPT !.timer = AfterCallback(@)])
  BY <1>3, <1>4 DEF NodeOK, IsNode, Alive
<1>. QED  BY <1>1, <1>2, <1>5

\* The heartbeat timer calls back.
LEMMA HeartbeatFiresStep == NodeInv /\ HeartbeatFires => NodeOK(node')
<1>. SUFFICES ASSUME NodeInv, HeartbeatFires PROVE NodeOK(node')
  OBVIOUS
<1>. DEFINE n == [node EXCEPT !.heartbeat = BeforeCallback(@)]
            m == Send(n, [kind |-> "heartbeat"])
<1>1. NodeOK(n)
  <2>1. IsTimer(BeforeCallback(node.heartbeat))
        /\ BeforeCallback(node.heartbeat).callback = node.heartbeat.callback
        /\ BeforeCallback(node.heartbeat).repeating = node.heartbeat.repeating
    BY BeforeCallbackKeeps DEF HeartbeatFires, NodeInv, NodeOK, IsNode
  <2>. QED  BY <2>1 DEF NodeInv, NodeOK, IsNode, Alive
<1>2. node' = IF n.heartbeat.callback = NoCallback THEN n ELSE [m EXCEPT !.heartbeat = AfterCallback(@)]
  BY DEF HeartbeatFires, n, m
<1>. HIDE DEF n
<1>3. NodeOK(m)
  BY <1>1, SendRequested, RequestedKeepsOK, [kind |-> "heartbeat"] \in Request DEF Request, NodeOK
<1>. HIDE DEF m
<1>4. IsTimer(AfterCallback(m.heartbeat))
      /\ AfterCallback(m.heartbeat).repeating = m.heartbeat.repeating
      /\ AfterCallback(m.heartbeat).callback
           = IF m.heartbeat.repeating THEN m.heartbeat.callback ELSE NoCallback
  BY <1>3, AfterCallbackKeeps DEF NodeOK, IsNode
<1>5. NodeOK([m EXCEPT !.heartbeat = AfterCallback(@)])
  BY <1>3, <1>4 DEF NodeOK, IsNode, Alive, NoCallback
<1>. QED  BY <1>1, <1>2, <1>5

\* The browser finds a registry.
LEMMA RegistryResolvedStep == NodeInv /\ RegistryResolved => NodeOK(node')
<1>. SUFFICES ASSUME NodeInv, RegistryResolved PROVE NodeOK(node')
  OBVIOUS
<1>. DEFINE n == [node EXCEPT !.resolved = TRUE]
<1>1. NodeOK(n)
  BY DEF NodeInv, NodeOK, IsNode, Alive
<1>2. node' = n \/ node' = SelectRegistry(n)
  BY DEF RegistryResolved
<1>. HIDE DEF n
<1>. QED  BY <1>1, <1>2, SelectRegistryIsOK

\* A registry restarts empty.
LEMMA RegistryRestartStep == NodeInv /\ RegistryRestart => RegistryOK'
BY DEF NodeInv, RegistryOK, RegistryRestart, NothingKnown

\* Every step keeps the node, the registry and the limits.
LEMMA NodeInvStep == NodeInv /\ [Next]_vars => NodeInv'
<1>. SUFFICES ASSUME NodeInv, [Next]_vars PROVE NodeInv'
  OBVIOUS
<1>. USE DEF NodeInv
<1>0. DOMAIN Limits = {"edits", "configurations", "faults"}
  BY LimitsAssumption
<1>1. CASE StartNode
  BY <1>0, <1>1, StartNodeStep, UseKeepsLeft DEF StartNode, RegistryOK
<1>2. CASE StopNode
  BY <1>0, <1>2, StopNodeStep, UseKeepsLeft DEF StopNode, RegistryOK
<1>3. ASSUME NEW enabled \in BOOLEAN, NEW otherPort \in BOOLEAN, NEW mode \in Modes,
             SetConfiguration(enabled, mode, otherPort)
      PROVE  NodeInv'
  BY <1>0, <1>3, SetConfigurationStep, UseKeepsLeft DEF SetConfiguration, RegistryOK
<1>4. ASSUME NEW mode \in Modes, SetConfigurationFails(mode) PROVE NodeInv'
  BY <1>4, SetConfigurationFailsStep DEF SetConfigurationFails, RegistryOK
<1>5. ASSUME NEW r \in Resources, AddOrUpdate(r) PROVE NodeInv'
  BY <1>0, <1>5, AddOrUpdateStep, UseKeepsLeft DEF AddOrUpdate, Use, RegistryOK
<1>6. ASSUME NEW r \in Resources, Remove(r) PROVE NodeInv'
  BY <1>0, <1>6, RemoveStep, UseKeepsLeft DEF Remove, RegistryOK
<1>7. CASE SetNetworkInterfaces
  <2>1. {Self} \cup (Devices \cap Present(node)) \in SUBSET Resources
    BY DEF Resources
  <2>. QED  BY <1>0, <1>7, <2>1, AddOrUpdateStep, UseKeepsLeft DEF SetNetworkInterfaces, Use, RegistryOK
<1>8. CASE SessionStep
  BY <1>8, SessionStepStep DEF SessionStep, SessionProceeds, RegistryOK, LeftOK
<1>9. CASE SessionError
  BY <1>0, <1>9, SessionErrorStep, UseKeepsLeft DEF SessionError
<1>10. CASE ErrorResponse
  BY <1>0, <1>10, ReadResponseStep, UseKeepsLeft DEF ErrorResponse, RegistryOK
<1>11. ASSUME NEW keepAlive \in BOOLEAN, Response(keepAlive) PROVE NodeInv'
  <2>. DEFINE outcome == IF Accepts(node.client.callback) THEN "ok" ELSE "refused"
  <2>1. outcome \in {"ok", "refused"} /\ ReadResponse(outcome, keepAlive)
    BY <1>11 DEF Response
  <2>. HIDE DEF outcome
  <2>2. NodeOK(node') /\ node.client.callback \in Request
    BY <2>1, ReadResponseStep
  <2>3. RegistryOK'
    BY <1>11, <2>2, ProcessedIsTyped DEF Response, RegistryOK
  <2>. QED  BY <1>11, <2>2, <2>3 DEF Response, LeftOK
<1>12. CASE TimerExpires \/ HeartbeatExpires
  BY <1>12, TimerExpiresStep DEF TimerExpires, HeartbeatExpires, RegistryOK, LeftOK
<1>13. CASE TimerFires
  BY <1>13, TimerFiresStep DEF TimerFires, RegistryOK, LeftOK
<1>14. CASE HeartbeatFires
  BY <1>14, HeartbeatFiresStep DEF HeartbeatFires, RegistryOK, LeftOK
<1>15. CASE RegistryResolved
  BY <1>15, RegistryResolvedStep DEF RegistryResolved, RegistryOK, LeftOK
<1>16. CASE RegistryRestart
  BY <1>0, <1>16, RegistryRestartStep, UseKeepsLeft DEF RegistryRestart
<1>17. CASE UNCHANGED vars
  BY <1>17 DEF vars, RegistryOK, LeftOK
<1>. QED  BY <1>1, <1>2, <1>3, <1>4, <1>5, <1>6, <1>7, <1>8, <1>9, <1>10, <1>11, <1>12, <1>13, <1>14,
             <1>15, <1>16, <1>17 DEF Next

\* The invariant holds always.
LEMMA NodeInvariance == Spec => []NodeInv
BY NodeInit, NodeInvStep, PTL DEF Spec

\* The node, the registry and the limits are what the code takes them for.
THEOREM NodeTypeCorrect == Spec => []TypeOK
<1>1. NodeInv => TypeOK
  BY DEF NodeInv, NodeOK, IsNode, IsClient, IsTimer, RegistryOK, LeftOK, TypeOK
<1>. QED  BY <1>1, NodeInvariance, PTL

\* The HTTP session that the node registers by never has two operations under way,
\* whatever its callbacks request, cancel, or reconfigure.
THEOREM SessionHasOneOperation == Spec => []OneOperationAtATime
<1>1. NodeInv => OneOperationAtATime
  BY DEF NodeInv, NodeOK, ClientOK, OneOperationAtATime
<1>. QED  BY <1>1, NodeInvariance, PTL

\* No sequence of calls, responses and timeouts leaves a node registered in silence.
THEOREM NoSilentRegistration == Spec => []RegisteredIsAlive
<1>1. NodeInv => RegisteredIsAlive
  BY DEF NodeInv, NodeOK, Alive, RegisteredIsAlive
<1>. QED  BY <1>1, NodeInvariance, PTL

-----------------------------------------------------------------------------
(* What the registry has, of a node that was configured once. *)

\* The requests that the registry has yet to process, the one in flight first.
Awaited(c) ==
  (IF c.session \in {"waiting_for_send", "waiting_for_response"} THEN <<c.callback>> ELSE <<>>)
    \o c.requests

\* A request that changes what a registry has of a resource, and one that posts
\* a revision of it.
Touches(q, r) ==
  \/ q.kind = "post" /\ q.resource = r
  \/ q.kind = "delete" /\ r \in Dependants(q.resource)
IsPost(q, r, v) == q.kind = "post" /\ q.resource = r /\ q.revision = v

\* A registry with known will have revision v of r when it has processed out.
Lands(known, out, r, v) ==
  \/ \E i \in 1..Len(out) :
       IsPost(out[i], r, v) /\ \A j \in (i + 1)..Len(out) : Touches(out[j], r) => IsPost(out[j], r, v)
  \/ known[r] = v /\ \A j \in 1..Len(out) : Touches(out[j], r) => IsPost(out[j], r, v)

\* More requests, which post r in revision v if they touch it at all.
LEMMA AppendedLands ==
  ASSUME NEW known, NEW out \in Seq(Request), NEW more \in Seq(Request), NEW r, NEW v,
         \A j \in 1..Len(more) : Touches(more[j], r) => IsPost(more[j], r, v),
         Lands(known, out, r, v) \/ \E i \in 1..Len(more) : IsPost(more[i], r, v)
  PROVE  Lands(known, out \o more, r, v)
<1>. DEFINE all == out \o more
<1>1. Len(all) = Len(out) + Len(more) /\ Len(out) \in Nat /\ Len(more) \in Nat
  OBVIOUS
<1>2. /\ \A i \in 1..Len(out) : all[i] = out[i]
      /\ \A i \in 1..Len(more) : all[Len(out) + i] = more[i]
  OBVIOUS
<1>. HIDE DEF all
<1>3. \A j \in (Len(out) + 1)..Len(all) : Touches(all[j], r) => IsPost(all[j], r, v)
  <2>1. \A j \in (Len(out) + 1)..Len(all) : j - Len(out) \in 1..Len(more) /\ all[j] = more[j - Len(out)]
    <3>. SUFFICES ASSUME NEW j \in (Len(out) + 1)..Len(all)
                  PROVE  j - Len(out) \in 1..Len(more) /\ all[j] = more[j - Len(out)]
      OBVIOUS
    <3>1. j - Len(out) \in 1..Len(more) /\ Len(out) + (j - Len(out)) = j
      BY <1>1
    <3>. QED  BY <3>1, <1>2
  <2>. QED  BY <2>1
<1>4. CASE \E i \in 1..Len(more) : IsPost(more[i], r, v)
  <2>1. PICK i \in 1..Len(more) : IsPost(more[i], r, v)
    BY <1>4
  <2>2. Len(out) + i \in 1..Len(all) /\ IsPost(all[Len(out) + i], r, v)
    BY <1>1, <1>2, <2>1
  <2>3. \A j \in (Len(out) + i + 1)..Len(all) : j \in (Len(out) + 1)..Len(all)
    BY <1>1
  <2>. QED  BY <1>3, <2>2, <2>3 DEF Lands, all
<1>5. CASE Lands(known, out, r, v)
  <2>1. \A j \in 1..Len(all) : j \in 1..Len(out) \/ j \in (Len(out) + 1)..Len(all)
    BY <1>1
  <2>2. CASE \E i \in 1..Len(out) :
               /\ IsPost(out[i], r, v)
               /\ \A j \in (i + 1)..Len(out) : Touches(out[j], r) => IsPost(out[j], r, v)
    <3>1. PICK i \in 1..Len(out) :
               /\ IsPost(out[i], r, v)
               /\ \A j \in (i + 1)..Len(out) : Touches(out[j], r) => IsPost(out[j], r, v)
      BY <2>2
    <3>2. i \in 1..Len(all) /\ IsPost(all[i], r, v)
      BY <1>1, <1>2, <3>1
    <3>3. \A j \in (i + 1)..Len(all) :
            j \in (Len(out) + 1)..Len(all) \/ (j \in (i + 1)..Len(out) /\ j \in 1..Len(out))
      BY <1>1
    <3>4. \A j \in (i + 1)..Len(all) : Touches(all[j], r) => IsPost(all[j], r, v)
      BY <1>2, <1>3, <3>1, <3>3
    <3>. QED  BY <3>2, <3>4 DEF Lands, all
  <2>3. CASE known[r] = v /\ \A j \in 1..Len(out) : Touches(out[j], r) => IsPost(out[j], r, v)
    <3>1. \A j \in 1..Len(all) : Touches(all[j], r) => IsPost(all[j], r, v)
      BY <1>2, <1>3, <2>1, <2>3
    <3>. QED  BY <2>3, <3>1 DEF Lands, all
  <2>. QED  BY <1>5, <2>2, <2>3 DEF Lands
<1>. QED  BY <1>4, <1>5

\* The registry processes the first of the requests.
LEMMA ProcessedLands ==
  ASSUME RegistryOK, node.host \in Hosts, NEW q \in Request, NEW rest \in Seq(Request),
         NEW r \in Resources, NEW v, Lands(registry[node.host], <<q>> \o rest, r, v)
  PROVE  Lands(Processed(q)[node.host], rest, r, v)
<1>. DEFINE out == <<q>> \o rest
            known == registry[node.host]
            after == Processed(q)[node.host]
<1>1. Len(out) = Len(rest) + 1 /\ Len(rest) \in Nat /\ out[1] = q
  OBVIOUS
<1>2. \A i \in 1..Len(rest) : out[i + 1] = rest[i]
  OBVIOUS
<1>3. \A i \in 2..Len(out) : i - 1 \in 1..Len(rest) /\ out[i] = rest[i - 1]
  <2>. SUFFICES ASSUME NEW i \in 2..Len(out) PROVE i - 1 \in 1..Len(rest) /\ out[i] = rest[i - 1]
    OBVIOUS
  <2>1. i - 1 \in 1..Len(rest) /\ (i - 1) + 1 = i
    BY <1>1
  <2>. QED  BY <1>2, <2>1
<1>4. Lands(known, out, r, v)
  OBVIOUS
<1>5. known \in [Resources -> Revisions \cup {Absent}]
  BY DEF RegistryOK
<1>6. after[r] = IF q.kind = "post" /\ q.resource = r THEN q.revision
                 ELSE IF q.kind = "delete" /\ r \in Dependants(q.resource) THEN Absent
                 ELSE known[r]
  BY <1>5 DEF Processed, RegistryOK
<1>. HIDE DEF out, known, after
<1>7. CASE \E i \in 1..Len(out) :
             /\ IsPost(out[i], r, v)
             /\ \A j \in (i + 1)..Len(out) : Touches(out[j], r) => IsPost(out[j], r, v)
  <2>1. PICK i \in 1..Len(out) :
             /\ IsPost(out[i], r, v)
             /\ \A j \in (i + 1)..Len(out) : Touches(out[j], r) => IsPost(out[j], r, v)
    BY <1>7
  <2>2. \A j \in 1..Len(rest) : j + 1 \in (i + 1)..Len(out) \/ j + 1 <= i
    BY <1>1
  <2>3. \A j \in 1..Len(rest) : j >= i => (Touches(rest[j], r) => IsPost(rest[j], r, v))
    <3>. SUFFICES ASSUME NEW j \in 1..Len(rest), j >= i PROVE Touches(rest[j], r) => IsPost(rest[j], r, v)
      OBVIOUS
    <3>1. j + 1 \in (i + 1)..Len(out)
      BY <1>1
    <3>. QED  BY <1>2, <2>1, <3>1
  <2>4. CASE i = 1
    <3>1. after[r] = v
      BY <1>1, <1>6, <2>1, <2>4 DEF IsPost
    <3>. QED  BY <2>3, <2>4, <3>1 DEF Lands, after
  <2>5. CASE i # 1
    <3>1. i \in 2..Len(out)
      BY <2>5, <1>1
    <3>2. i - 1 \in 1..Len(rest) /\ IsPost(rest[i - 1], r, v)
      BY <1>3, <2>1, <3>1
    <3>3. \A j \in ((i - 1) + 1)..Len(rest) : j \in 1..Len(rest) /\ j >= i
      BY <1>1
    <3>. QED  BY <2>3, <3>2, <3>3 DEF Lands
  <2>. QED  BY <2>4, <2>5
<1>8. CASE known[r] = v /\ \A j \in 1..Len(out) : Touches(out[j], r) => IsPost(out[j], r, v)
  <2>1. 1 \in 1..Len(out) /\ \A j \in 1..Len(rest) : j + 1 \in 1..Len(out)
    BY <1>1
  <2>2. \A j \in 1..Len(rest) : Touches(rest[j], r) => IsPost(rest[j], r, v)
    BY <1>2, <1>8, <2>1
  <2>3. after[r] = v
    BY <1>1, <1>6, <1>8, <2>1 DEF Touches, IsPost
  <2>. QED  BY <2>2, <2>3 DEF Lands, after
<1>. QED  BY <1>4, <1>7, <1>8 DEF Lands

\* New requests wait behind those there are.
LEMMA RequestAllAwaits ==
  ASSUME NEW c, IsClient(c), NEW requests \in Seq(Request)
  PROVE  /\ Awaited(RequestAll(c, requests)) = Awaited(c) \o requests
         /\ c.session \in Busy => RequestAll(c, requests).requests = c.requests \o requests
<1>. DEFINE d == [c EXCEPT !.requests = @ \o requests,
                           !.session = IF @ = "none" THEN "disconnected" ELSE @]
            Flight == IF c.session \in {"waiting_for_send", "waiting_for_response"} THEN <<c.callback>> ELSE <<>>
<1>0. CASE requests = <<>>
  <2>1. \A s \in Seq(Request) : s \o <<>> = s
    OBVIOUS
  <2>2. Awaited(c) \o <<>> = Awaited(c)
    BY DEF Awaited, IsClient
  <2>. QED  BY <1>0, <2>1, <2>2 DEF RequestAll, IsClient
<1>1. CASE requests # <<>>
  <2>1. /\ d.requests = c.requests \o requests /\ d.callback = c.callback
        /\ d.session = IF c.session = "none" THEN "disconnected" ELSE c.session
        /\ IsClient(d)
    BY DEF IsClient, SessionStates
  <2>2. d.requests # <<>>
    BY <1>1, <2>1 DEF IsClient
  <2>3. RequestAll(c, requests) = SendRequests(d)
    BY <1>1 DEF RequestAll
  <2>. HIDE DEF d
  <2>4. Awaited(c) \o requests = Awaited(d)
    <3>1. Flight \o c.requests \o requests = Flight \o (c.requests \o requests)
      BY DEF IsClient
    <3>. QED  BY <2>1, <3>1 DEF Awaited
  <2>5. Awaited(SendRequests(d)) = Awaited(d)
    <3>1. CASE d.session = "connected"
      <4>. DEFINE s == AsyncSend(d)
      <4>1. s.session = "waiting_for_send" /\ s.callback = Head(d.requests) /\ s.requests = Tail(d.requests)
        BY <2>1, <2>2 DEF AsyncSend, Begin, IsClient
      <4>2. SendRequests(d) = s
        BY <2>2, <3>1 DEF SendRequests
      <4>. HIDE DEF s
      <4>3. <<Head(d.requests)>> \o Tail(d.requests) = d.requests
        BY <2>1, <2>2 DEF IsClient
      <4>4. <<>> \o d.requests = d.requests
        BY <2>1 DEF IsClient
      <4>. QED  BY <3>1, <4>1, <4>2, <4>3, <4>4 DEF Awaited
    <3>2. CASE d.session = "disconnected"
      BY <2>1, <2>2, <3>2 DEF SendRequests, AsyncConnect, Begin, Awaited, IsClient
    <3>3. CASE d.session \notin {"connected", "disconnected"}
      BY <2>2, <3>3 DEF SendRequests
    <3>. QED  BY <3>1, <3>2, <3>3
  <2>6. c.session \in Busy => SendRequests(d) = d
    BY <2>1, <2>2 DEF SendRequests, Busy
  <2>. QED  BY <2>1, <2>3, <2>4, <2>5, <2>6
<1>. QED  BY <1>0, <1>1

\* A request is a row of one.
LEMMA RequestAsyncIsAll ==
  ASSUME NEW c, IsClient(c), NEW request \in Request
  PROVE  RequestAsync(c, request) = RequestAll(c, <<request>>)
<1>1. Append(c.requests, request) = c.requests \o <<request>>
  BY DEF IsClient
<1>2. <<request>> # <<>>
  OBVIOUS
<1>. QED  BY <1>1, <1>2 DEF RequestAsync, RequestAll

\* The handlers of the session change the requests that the registry has to
\* process by the one it has answered only.
LEMMA HandlersAwait ==
  ASSUME NEW c, IsClient(c)
  PROVE  /\ c.session = "resolving" => Awaited(OnResolve(c)) = Awaited(c)
         /\ c.session = "connecting" => Awaited(OnConnect(c)) = Awaited(c)
         /\ c.session = "waiting_for_send" => Awaited(OnWrite(c)) = Awaited(c)
         /\ c.session = "waiting_for_response"
              => \A keepAlive \in BOOLEAN : Awaited(AfterResponse(c, keepAlive)) = c.requests
<1>1. c.requests # <<>> => <<Head(c.requests)>> \o Tail(c.requests) = c.requests
  BY DEF IsClient
<1>2. <<>> \o c.requests = c.requests
  BY DEF IsClient
<1>3. ASSUME c.session = "connecting" PROVE Awaited(OnConnect(c)) = Awaited(c)
  <2>. DEFINE d == [Finish(c) EXCEPT !.session = "connected"]
              s == AsyncSend(d)
  <2>1. d.session = "connected" /\ d.requests = c.requests
    BY DEF Finish, IsClient
  <2>2. s.requests = IF c.requests = <<>> THEN c.requests ELSE Tail(c.requests)
    BY DEF Finish, IsClient, AsyncSend, Begin
  <2>3. c.requests # <<>> => s.session = "waiting_for_send" /\ s.callback = Head(c.requests)
    BY DEF Finish, IsClient, AsyncSend, Begin
  <2>4. c.requests = <<>> => s.session = "connected"
    BY <2>1 DEF AsyncSend
  <2>. HIDE DEF s
  <2>. QED  BY <1>1, <1>2, <1>3, <2>2, <2>3, <2>4 DEF OnConnect, Awaited, s
<1>4. ASSUME c.session = "waiting_for_response", NEW keepAlive \in BOOLEAN
      PROVE  Awaited(AfterResponse(c, keepAlive)) = c.requests
  <2>1. c.requests # <<>> => Awaited(AsyncSend(c)) = c.requests
    <3>1. c.requests # <<>> => AsyncSend(c).session = "waiting_for_send"
                               /\ AsyncSend(c).callback = Head(c.requests) /\ AsyncSend(c).requests = Tail(c.requests)
      BY DEF AsyncSend, Begin, IsClient
    <3>. QED  BY <1>1, <3>1 DEF Awaited
  <2>2. Awaited(AsyncConnect(c)) = c.requests
    BY <1>2 DEF AsyncConnect, Begin, Awaited, IsClient
  <2>3. Awaited(Disconnected(c)) = c.requests
    BY <1>2 DEF Disconnected, Awaited, IsClient
  <2>4. Awaited([c EXCEPT !.session = "connected"]) = c.requests
    BY <1>2 DEF Awaited, IsClient
  <2>. QED  BY <2>1, <2>2, <2>3, <2>4 DEF AfterResponse
<1>5. c.session = "resolving" => Awaited(OnResolve(c)) = Awaited(c)
  BY DEF OnResolve, Begin, Finish, Awaited, IsClient
<1>6. c.session = "waiting_for_send" => Awaited(OnWrite(c)) = Awaited(c)
  BY DEF OnWrite, Begin, Finish, Awaited, IsClient
<1>. QED  BY <1>3, <1>4, <1>5, <1>6

\* SetToSeq leaves nothing out.
LEMMA OrderIsOnto ==
  ASSUME NEW S, IsFiniteSet(S)
  PROVE  \A x \in S : \E i \in 1..Cardinality(S) : Seqs!SetToSeq(S)[i] = x
<1>0. Seqs!Cardinality(S) = Cardinality(S)
  BY Zenon DEF Cardinality, Seqs!Cardinality
<1>. DEFINE F == [1..Cardinality(S) -> S]
            Onto(f) == f \in F /\ Seqs!IsInjective(f)
<1>1. Cardinality(S) \in Nat /\ ExistsBijection(1..Cardinality(S), S)
  BY FS_CardinalityType
<1>2. PICK f : f \in Bijection(1..Cardinality(S), S)
  BY <1>1 DEF ExistsBijection
<1>3. Onto(f)
  BY <1>2 DEF Bijection, Injection, Surjection, IsInjective, Seqs!IsInjective
<1>4. Onto(Seqs!SetToSeq(S))
  BY <1>0, <1>3 DEF Seqs!SetToSeq
<1>. DEFINE g == Seqs!SetToSeq(S)
            D == 1..Cardinality(S)
<1>5. g \in [D -> S] /\ \A i, j \in D : g[i] = g[j] => i = j
  BY <1>4, <1>0 DEF Seqs!IsInjective
<1>6. IsFiniteSet(D) /\ Cardinality(D) = Cardinality(S)
  BY <1>1, FS_Interval, 1 \in Int, Cardinality(S) \in Int
<1>. HIDE DEF g, D
<1>7. g \in Injection(D, S)
  BY <1>5 DEF Injection, IsInjective
<1>8. g \in Surjection(D, S)
  BY <1>6, <1>7, FS_Injection
<1>. QED  BY <1>8 DEF Surjection, g, D

\* post_resource_async of every changed resource of rs, and of nothing else.
LEMMA PostsPost ==
  ASSUME NEW n, IsNode(n), NEW rs, IsFiniteSet(rs)
  PROVE  /\ \A r \in Changed(n, rs) : \E i \in 1..Len(Posts(n, rs)) : IsPost(Posts(n, rs)[i], r, n.content[r])
         /\ \A i \in 1..Len(Posts(n, rs)) : \E r \in Changed(n, rs) : IsPost(Posts(n, rs)[i], r, n.content[r])
<1>. DEFINE C == Changed(n, rs)
            order == Seqs!SetToSeq(C)
            P == Posts(n, rs)
<1>1. IsFiniteSet(C)
  BY FS_Subset, C \subseteq rs DEF Changed
<1>. HIDE DEF C
<1>2. order \in [1..Cardinality(C) -> C] /\ Cardinality(C) \in Nat
  BY <1>1, OrderIsSeq
<1>3. \A r \in C : \E i \in 1..Cardinality(C) : order[i] = r
  BY <1>1, OrderIsOnto
<1>. HIDE DEF order
<1>4. Len(order) = Cardinality(C)
  BY <1>2
<1>5. P = [i \in 1..Len(order) |->
             [kind |-> "post", resource |-> order[i], revision |-> n.content[order[i]]]]
  BY DEF Posts, order, C
<1>6. Len(P) = Len(order)
  BY <1>2, <1>4, <1>5
<1>. HIDE DEF P
<1>7. \A i \in 1..Len(P) : order[i] \in C /\ IsPost(P[i], order[i], n.content[order[i]])
  BY <1>2, <1>4, <1>5, <1>6 DEF IsPost
<1>. QED  BY <1>3, <1>4, <1>6, <1>7 DEF C, P

\* What a registry with known will have once it has processed out is what the
\* node has, except of what has changed.
Promised(n, known, out) ==
  \A r \in Present(n) \ n.changed : Lands(known, out, r, n.content[r])

\* All that requests do not touch.
SameRest(n, m) ==
  /\ m.mode = n.mode /\ m.host = n.host /\ m.serving = n.serving /\ m.selected = n.selected
  /\ m.browsing = n.browsing /\ m.subscribed = n.subscribed /\ m.timer = n.timer

\* send_updated_resources_async keeps the promise, and gives it when everything
\* counts as changed.
LEMMA SendUpdatedPromises ==
  ASSUME NEW n, IsNode(n)
  PROVE  LET m == SendUpdatedResources(n) IN
         /\ SameRest(n, m) /\ m.heartbeat = n.heartbeat /\ m.status = n.status
         /\ m.content = n.content /\ m.changed = {}
         /\ \E more \in Seq(Request) :
              /\ Awaited(m.client) = Awaited(n.client) \o more
              /\ n.client.session \in Busy => m.client.requests = n.client.requests \o more
              /\ \A i \in 1..Len(more) : more[i].kind = "post"
              /\ \A known, out : out \in Seq(Request) /\ (Promised(n, known, out) \/ Present(n) \subseteq n.changed)
                                   => Promised(m, known, out \o more)
<1>. DEFINE m == SendUpdatedResources(n)
            P1 == Posts(n, {Self})
            P2 == Posts(n, Devices)
            P3 == Posts(n, Parts)
            more == P1 \o P2 \o P3
            C == n.changed \cap Present(n)
<1>0. IsFiniteSet({Self}) /\ IsFiniteSet(Devices) /\ IsFiniteSet(Parts)
  BY FS_Singleton, ResourcesAssumption
<1>1. P1 \in Seq(Request) /\ P2 \in Seq(Request) /\ P3 \in Seq(Request)
  BY <1>0, PostsAreRequests
<1>2. /\ \A r \in C : \/ \E i \in 1..Len(P1) : IsPost(P1[i], r, n.content[r])
                      \/ \E i \in 1..Len(P2) : IsPost(P2[i], r, n.content[r])
                      \/ \E i \in 1..Len(P3) : IsPost(P3[i], r, n.content[r])
      /\ \A i \in 1..Len(P1) : \E r \in C : IsPost(P1[i], r, n.content[r])
      /\ \A i \in 1..Len(P2) : \E r \in C : IsPost(P2[i], r, n.content[r])
      /\ \A i \in 1..Len(P3) : \E r \in C : IsPost(P3[i], r, n.content[r])
  <2>1. \A r \in C : r \in Changed(n, {Self}) \/ r \in Changed(n, Devices) \/ r \in Changed(n, Parts)
    BY DEF Changed, Present, Resources
  <2>2. Changed(n, {Self}) \subseteq C /\ Changed(n, Devices) \subseteq C /\ Changed(n, Parts) \subseteq C
    BY DEF Changed
  <2>. HIDE DEF C
  <2>. QED  BY <1>0, <2>1, <2>2, PostsPost
<1>3. m = [n EXCEPT !.client = RequestAll(n.client, more), !.changed = {}]
  BY DEF SendUpdatedResources
<1>. HIDE DEF P1, P2, P3, C, m
<1>4. Len(P1) \in Nat /\ Len(P2) \in Nat /\ Len(P3) \in Nat
      /\ Len(more) = Len(P1) + Len(P2) + Len(P3) /\ more \in Seq(Request)
  BY <1>1
<1>5. /\ \A i \in 1..Len(P1) : i \in 1..Len(more) /\ more[i] = P1[i]
      /\ \A i \in 1..Len(P2) : Len(P1) + i \in 1..Len(more) /\ more[Len(P1) + i] = P2[i]
      /\ \A i \in 1..Len(P3) : (Len(P1) + Len(P2)) + i \in 1..Len(more) /\ more[(Len(P1) + Len(P2)) + i] = P3[i]
  <2>. DEFINE Q == P1 \o P2
  <2>1. Q \in Seq(Request) /\ Len(Q) = Len(P1) + Len(P2)
    BY <1>1
  <2>2. /\ \A i \in 1..Len(P1) : i \in 1..Len(Q) /\ Q[i] = P1[i]
        /\ \A i \in 1..Len(P2) : Len(P1) + i \in 1..Len(Q) /\ Q[Len(P1) + i] = P2[i]
    BY <1>1
  <2>. HIDE DEF Q
  <2>3. /\ \A i \in 1..Len(Q) : i \in 1..Len(Q \o P3) /\ (Q \o P3)[i] = Q[i]
        /\ \A i \in 1..Len(P3) : Len(Q) + i \in 1..Len(Q \o P3) /\ (Q \o P3)[Len(Q) + i] = P3[i]
    BY <1>1, <2>1
  <2>4. more = Q \o P3
    BY DEF Q
  <2>. QED  BY <2>1, <2>2, <2>3, <2>4
<1>6. \A i \in 1..Len(more) :
        \/ i \in 1..Len(P1) /\ more[i] = P1[i]
        \/ \E j \in 1..Len(P2) : more[i] = P2[j]
        \/ \E j \in 1..Len(P3) : more[i] = P3[j]
  <2>. SUFFICES ASSUME NEW i \in 1..Len(more)
                PROVE  \/ i \in 1..Len(P1) /\ more[i] = P1[i]
                       \/ \E j \in 1..Len(P2) : more[i] = P2[j]
                       \/ \E j \in 1..Len(P3) : more[i] = P3[j]
    OBVIOUS
  <2>1. CASE i <= Len(P1)
    BY <1>4, <1>5, <2>1
  <2>2. CASE i > Len(P1) /\ i <= Len(P1) + Len(P2)
    <3>1. i - Len(P1) \in 1..Len(P2) /\ Len(P1) + (i - Len(P1)) = i
      BY <1>4, <2>2
    <3>. QED  BY <1>5, <3>1
  <2>3. CASE i > Len(P1) + Len(P2)
    <3>1. i - (Len(P1) + Len(P2)) \in 1..Len(P3) /\ (Len(P1) + Len(P2)) + (i - (Len(P1) + Len(P2))) = i
      BY <1>4, <2>3
    <3>. QED  BY <1>5, <3>1
  <2>. QED  BY <1>4, <2>1, <2>2, <2>3
<1>. HIDE DEF more
<1>7. \A r \in C : \E i \in 1..Len(more) : IsPost(more[i], r, n.content[r])
  BY <1>2, <1>5
<1>8. \A i \in 1..Len(more) : \E r \in C : IsPost(more[i], r, n.content[r])
  BY <1>2, <1>6
<1>9. /\ SameRest(n, m) /\ m.heartbeat = n.heartbeat /\ m.status = n.status
      /\ m.content = n.content /\ m.changed = {} /\ m.client = RequestAll(n.client, more)
  BY <1>3 DEF IsNode, SameRest
<1>10. /\ Awaited(m.client) = Awaited(n.client) \o more
       /\ n.client.session \in Busy => m.client.requests = n.client.requests \o more
  BY <1>4, <1>9, RequestAllAwaits DEF IsNode
<1>11. ASSUME NEW known, NEW out \in Seq(Request), Promised(n, known, out) \/ Present(n) \subseteq n.changed
       PROVE  Promised(m, known, out \o more)
  <2>. SUFFICES ASSUME NEW r \in Present(m) PROVE Lands(known, out \o more, r, m.content[r])
    BY DEF Promised
  <2>1. r \in Present(n) /\ m.content[r] = n.content[r]
    BY <1>9 DEF Present
  <2>2. \A j \in 1..Len(more) : Touches(more[j], r) => IsPost(more[j], r, n.content[r])
    BY <1>8 DEF Touches, IsPost
  <2>3. Lands(known, out, r, n.content[r]) \/ \E i \in 1..Len(more) : IsPost(more[i], r, n.content[r])
    BY <1>7, <1>11, <2>1 DEF Promised, C
  <2>. QED  BY <1>4, <2>1, <2>2, <2>3, AppendedLands
<1>12. \A i \in 1..Len(more) : more[i].kind = "post"
  BY <1>8 DEF IsPost
<1>. QED  BY <1>4, <1>9, <1>10, <1>11, <1>12 DEF m

\* One more request, which touches nothing that the node has and has not changed.
LEMMA SendPromises ==
  ASSUME NEW n, IsNode(n), NEW q \in Request
  PROVE  LET m == Send(n, q) IN
         /\ SameRest(n, m) /\ m.heartbeat = n.heartbeat /\ m.status = n.status
         /\ m.content = n.content /\ m.changed = n.changed
         /\ Awaited(m.client) = Awaited(n.client) \o <<q>>
         /\ n.client.session \in Busy => m.client.requests = n.client.requests \o <<q>>
         /\ \A known, out : out \in Seq(Request) /\ Promised(n, known, out)
                            /\ (\A r \in Present(n) : ~Touches(q, r))
                              => Promised(m, known, out \o <<q>>)
<1>. DEFINE m == Send(n, q)
            more == <<q>>
<1>1. more \in Seq(Request) /\ Len(more) = 1 /\ more[1] = q
  OBVIOUS
<1>. HIDE DEF more
<1>2. m = [n EXCEPT !.client = RequestAll(n.client, more)]
  BY RequestAsyncIsAll DEF Send, IsNode, more
<1>. HIDE DEF m
<1>3. /\ SameRest(n, m) /\ m.heartbeat = n.heartbeat /\ m.status = n.status
      /\ m.content = n.content /\ m.changed = n.changed /\ m.client = RequestAll(n.client, more)
  BY <1>2 DEF IsNode, SameRest
<1>4. /\ Awaited(m.client) = Awaited(n.client) \o more
      /\ n.client.session \in Busy => m.client.requests = n.client.requests \o more
  BY <1>1, <1>3, RequestAllAwaits DEF IsNode
<1>5. ASSUME NEW known, NEW out \in Seq(Request), Promised(n, known, out),
             \A r \in Present(n) : ~Touches(q, r)
      PROVE  Promised(m, known, out \o more)
  <2>. SUFFICES ASSUME NEW r \in Present(m) \ m.changed PROVE Lands(known, out \o more, r, m.content[r])
    BY DEF Promised
  <2>1. r \in Present(n) \ n.changed /\ m.content[r] = n.content[r]
    BY <1>3 DEF Present
  <2>2. \A j \in 1..Len(more) : Touches(more[j], r) => IsPost(more[j], r, n.content[r])
    BY <1>1, <1>5, <2>1
  <2>3. Lands(known, out, r, n.content[r])
    BY <1>5, <2>1 DEF Promised
  <2>. QED  BY <1>1, <2>1, <2>2, <2>3, AppendedLands
<1>6. \A known, out : out \in Seq(Request) /\ Promised(n, known, out)
                      /\ (\A r \in Present(n) : ~Touches(q, r))
                        => Promised(m, known, out \o more)
  BY <1>5
<1>. QED  BY <1>3, <1>4, <1>6 DEF m, more

\* The registry is asked whether it knows the node.
Verifies(out) == \E i \in 1..Len(out) : out[i].kind = "verify"

\* A node that has not made a request, and one that still has to find a registry.
Untouched(n) ==
  /\ n.client.session = "none" /\ n.client.requests = <<>>
  /\ n.heartbeat.callback = NoCallback /\ n.status # "registered"
Waits(n) ==
  n.timer.callback = "discover" \/ (n.mode = "mdns_p2p" /\ ~n.selected) \/ n.host \notin Hosts

\* A node that was never started.
Fresh(n) ==
  /\ Untouched(n) /\ ~n.serving /\ ~n.selected /\ ~n.browsing /\ n.timer.callback = NoCallback

\* A node that was started once finds its registry before it makes requests.
InOrder(n) ==
  /\ n.timer.callback \in {"discover", NoCallback} /\ ~n.timer.repeating
  /\ n.timer.callback = "discover" => ~n.subscribed
  /\ Waits(n) => Untouched(n)

\* What the registry of a node has, and that it will have what the node has once
\* the node is registered, or may become so.
KnownAt(n, registries) == IF n.host \in Hosts THEN registries[n.host] ELSE NothingKnown
SyncOK(n, known) ==
  /\ InOrder(n)
  /\ n.status = "registered" \/ Verifies(Awaited(n.client)) => Promised(n, known, Awaited(n.client))

\* The requests of a client are a sequence.
LEMMA AwaitedIsSeq ==
  ASSUME NEW c, IsClient(c), ClientOK(c)
  PROVE  Awaited(c) \in Seq(Request)
BY DEF Awaited, IsClient, ClientOK

\* Other requests do not verify.
LEMMA VerifiesBefore ==
  ASSUME NEW out \in Seq(Request), NEW more \in Seq(Request),
         \A i \in 1..Len(more) : more[i].kind # "verify", Verifies(out \o more)
  PROVE  Verifies(out)
<1>1. PICK i \in 1..Len(out \o more) : (out \o more)[i].kind = "verify"
  BY DEF Verifies
<1>2. CASE i <= Len(out)
  BY <1>1, <1>2 DEF Verifies
<1>3. CASE i > Len(out)
  <2>1. i - Len(out) \in 1..Len(more) /\ (out \o more)[i] = more[i - Len(out)]
    BY <1>3
  <2>. QED  BY <1>1, <2>1
<1>. QED  BY <1>2, <1>3

\* A change of resources that are not sent yet.
LEMMA UpdatePromises ==
  ASSUME NEW n, IsNode(n), NEW rs \in SUBSET Resources
  PROVE  /\ SameRest(n, Update(n, rs)) /\ Update(n, rs).client = n.client
         /\ Update(n, rs).heartbeat = n.heartbeat /\ Update(n, rs).status = n.status
         /\ \A known, out : Promised(n, known, out) => Promised(Update(n, rs), known, out)
<1>. DEFINE u == Update(n, rs)
<1>1. /\ SameRest(n, u) /\ u.client = n.client /\ u.heartbeat = n.heartbeat /\ u.status = n.status
      /\ u.changed = n.changed \cup rs
      /\ u.content = [r \in Resources |-> IF r \in rs THEN NextRevision ELSE n.content[r]]
  BY DEF Update, IsNode, SameRest
<1>. HIDE DEF u
<1>2. \A r \in Present(u) \ u.changed : r \in Present(n) \ n.changed /\ u.content[r] = n.content[r]
  BY <1>1 DEF Present
<1>. QED  BY <1>1, <1>2 DEF Promised, u

\* A change of resources, sent if the node is registered.
LEMMA UpdateSyncs ==
  ASSUME NodeInv, NEW known, SyncOK(node, known), NEW rs \in SUBSET Resources, left["edits"] > 0
  PROVE  LET m == SendIfRegistered(Update(node, rs)) IN
         SyncOK(m, known) /\ m.host = node.host /\ (Fresh(node) => Fresh(m))
<1>. DEFINE u == Update(node, rs)
            m == SendIfRegistered(u)
<1>1. IsNode(u) /\ IsNode(node) /\ ClientOK(node.client)
  BY UpdateKeeps DEF NodeInv, NodeOK
<1>2. /\ SameRest(node, u) /\ u.client = node.client /\ u.heartbeat = node.heartbeat
      /\ u.status = node.status
      /\ \A k, out : Promised(node, k, out) => Promised(u, k, out)
  BY <1>1, UpdatePromises
<1>3. Awaited(node.client) \in Seq(Request)
  BY <1>1, AwaitedIsSeq DEF IsNode
<1>. HIDE DEF u
<1>. DEFINE Goal == SyncOK(m, known) /\ m.host = node.host /\ (Fresh(node) => Fresh(m))
<1>4. ASSUME node.status # "registered" PROVE Goal
  <2>1. m = u
    BY <1>2, <1>4 DEF SendIfRegistered
  <2>. HIDE DEF m
  <2>2. Goal
    BY <1>2, <1>4, <2>1 DEF SyncOK, InOrder, Waits, Untouched, Fresh, SameRest
  <2>. QED  BY <2>2
<1>5. ASSUME node.status = "registered" PROVE Goal
  <2>1. m = SendUpdatedResources(u)
    BY <1>2, <1>5 DEF SendIfRegistered
  <2>2. PICK more \in Seq(Request) :
           /\ Awaited(m.client) = Awaited(u.client) \o more
           /\ \A k, out : out \in Seq(Request) /\ (Promised(u, k, out) \/ Present(u) \subseteq u.changed)
                            => Promised(m, k, out \o more)
    <3>. HIDE DEF m
    <3>. QED  BY <1>1, <2>1, SendUpdatedPromises
  <2>3. SameRest(u, m) /\ m.heartbeat = u.heartbeat /\ m.status = u.status
    BY <1>1, <2>1, SendUpdatedPromises
  <2>4. Promised(node, known, Awaited(node.client)) /\ ~Waits(node) /\ ~Fresh(node)
    BY <1>5 DEF SyncOK, InOrder, Untouched, Fresh
  <2>5. Promised(m, known, Awaited(m.client))
    BY <1>2, <1>3, <2>2, <2>4
  <2>. HIDE DEF m
  <2>6. ~Waits(m) /\ m.host = node.host
    BY <1>2, <2>3, <2>4 DEF Waits, SameRest
  <2>7. Goal
    BY <1>2, <2>3, <2>4, <2>5, <2>6 DEF SyncOK, InOrder, SameRest
  <2>. QED  BY <2>7
<1>6. Goal
  BY <1>4, <1>5
<1>. QED  BY <1>6 DEF u

\* A resource that is removed, and deleted if the node is registered.
LEMMA RemoveSyncs ==
  ASSUME NodeInv, NEW known, SyncOK(node, known), NEW r \in Resources, Remove(r)
  PROVE  SyncOK(node', known) /\ node'.host = node.host /\ (Fresh(node) => Fresh(node'))
<1>. DEFINE n == [node EXCEPT
                   !.content = [x \in Resources |-> IF x \in Dependants(r) THEN Absent ELSE @[x]]]
            q == [kind |-> "delete", resource |-> r]
            more == <<q>>
<1>1. IsNode(n) /\ IsNode(node) /\ ClientOK(node.client)
  BY DEF NodeInv, NodeOK, IsNode
<1>2. /\ SameRest(node, n) /\ n.client = node.client /\ n.heartbeat = node.heartbeat
      /\ n.status = node.status /\ n.changed = node.changed
      /\ n.content = [x \in Resources |-> IF x \in Dependants(r) THEN Absent ELSE node.content[x]]
  BY <1>1 DEF IsNode, SameRest
<1>3. node' = IF n.status = "registered" THEN Send(n, q) ELSE n
  BY DEF Remove, DeleteResource
<1>. HIDE DEF n
<1>4. \A x \in Present(n) : x \in Present(node) /\ n.content[x] = node.content[x] /\ x \notin Dependants(r)
  BY <1>2 DEF Present
<1>5. \A k, out : Promised(node, k, out) => Promised(n, k, out)
  BY <1>2, <1>4 DEF Promised
<1>6. Awaited(node.client) \in Seq(Request)
  BY <1>1, AwaitedIsSeq DEF IsNode
<1>7. q \in Request /\ more \in Seq(Request) /\ q.kind = "delete" /\ q.resource = r
  BY DEF Request
<1>. HIDE DEF q
<1>8. CASE node.status # "registered"
  <2>1. node' = n
    BY <1>2, <1>3, <1>8
  <2>. QED  BY <1>2, <1>5, <1>8, <2>1 DEF SyncOK, InOrder, Waits, Untouched, Fresh, SameRest
<1>9. CASE node.status = "registered"
  <2>. DEFINE m == Send(n, q)
  <2>1. node' = m
    BY <1>2, <1>3, <1>9
  <2>2. /\ Awaited(m.client) = Awaited(n.client) \o more
        /\ SameRest(n, m) /\ m.heartbeat = n.heartbeat /\ m.status = n.status
    BY <1>1, <1>7, SendPromises
  <2>3. \A x \in Present(n) : ~Touches(q, x)
    BY <1>4, <1>7 DEF Touches
  <2>4. \A k, out : out \in Seq(Request) /\ Promised(n, k, out) => Promised(m, k, out \o more)
    BY <1>1, <1>7, <2>3, SendPromises
  <2>5. Promised(node, known, Awaited(node.client)) /\ ~Waits(node) /\ ~Fresh(node)
    BY <1>9 DEF SyncOK, InOrder, Untouched, Fresh
  <2>. HIDE DEF more, m
  <2>6. Promised(m, known, Awaited(m.client))
    BY <1>2, <1>5, <1>6, <2>2, <2>4, <2>5
  <2>7. ~Waits(m) /\ m.host = node.host
    BY <1>2, <2>2, <2>5 DEF Waits, SameRest
  <2>. QED  BY <1>2, <2>1, <2>2, <2>5, <2>6, <2>7 DEF SyncOK, InOrder, SameRest
<1>. QED  BY <1>8, <1>9

\* connect_to_registry_async on a session of its own.
LEMMA ConnectsAlone ==
  ASSUME NEW n, IsNode(n), NEW host \in Hosts, Untouched(n)
  PROVE  LET m == ConnectToHost(n, host) IN
         /\ m.timer = n.timer /\ m.mode = n.mode /\ m.host = host /\ m.selected = n.selected
         /\ m.subscribed = n.subscribed /\ m.status = "connecting" /\ ~Verifies(Awaited(m.client))
<1>. DEFINE m == ConnectToHost(n, host)
            b == [n EXCEPT !.client = IF host = n.host THEN @ ELSE SetOtherHost(@), !.host = host]
            s == SetStatus(b, "connecting")
            q == [kind |-> "connect"]
            more == <<q>>
<1>1. /\ IsNode(b) /\ b.client.session = "none" /\ b.client.requests = <<>>
      /\ b.timer = n.timer /\ b.mode = n.mode /\ b.host = host /\ b.selected = n.selected
      /\ b.subscribed = n.subscribed
  <2>1. IsClient(SetOtherHost(n.client)) /\ SetOtherHost(n.client).session = "none"
        /\ SetOtherHost(n.client).requests = n.client.requests
    BY OtherHostIsOK DEF IsNode, SetOtherHost, IsClient
  <2>. QED  BY <2>1 DEF IsNode, Untouched
<1>. HIDE DEF b
<1>2. /\ IsNode(s) /\ s.client = b.client /\ s.timer = b.timer /\ s.mode = b.mode /\ s.host = b.host
      /\ s.selected = b.selected /\ s.subscribed = b.subscribed /\ s.status = "connecting"
  BY <1>1 DEF SetStatus, IsNode, Statuses
<1>. HIDE DEF s
<1>3. q \in Request /\ more \in Seq(Request) /\ Len(more) = 1 /\ more[1] = q /\ q.kind = "connect"
  BY DEF Request
<1>4. m = Send(s, q)
  BY DEF ConnectToHost, ConnectToRegistry, s, b
<1>. HIDE DEF q, m
<1>5. /\ SameRest(s, m) /\ m.status = s.status /\ Awaited(m.client) = Awaited(s.client) \o more
  BY <1>2, <1>3, <1>4, SendPromises
<1>. HIDE DEF more
<1>6. Awaited(m.client) = more
  <2>1. Awaited(s.client) = <<>>
    BY <1>1, <1>2 DEF Awaited
  <2>2. <<>> \o more = more
    BY <1>3
  <2>. QED  BY <1>5, <2>1, <2>2
<1>7. ~Verifies(Awaited(m.client))
  <2>1. \A i \in 1..Len(more) : more[i].kind = "connect"
    BY <1>3, \A i \in 1..1 : i = 1
  <2>. QED  BY <1>6, <2>1 DEF Verifies
<1>. QED  BY <1>1, <1>2, <1>5, <1>7 DEF SameRest, m

\* A node that has made no request awaits nothing.
LEMMA UntouchedIsSilent ==
  ASSUME NEW n, Untouched(n)
  PROVE  ~Verifies(Awaited(n.client))
<1>1. <<>> \o <<>> = <<>> /\ Len(<<>>) = 0
  OBVIOUS
<1>. QED  BY <1>1 DEF Untouched, Verifies, Awaited

\* start_internal and stop_internal of a node that was never started.
LEMMA FreshStarts ==
  ASSUME NEW n, IsNode(n), Untouched(n), ~n.selected, n.timer.callback = NoCallback, ~n.timer.repeating
  PROVE  LET m == StartInternal(n) IN
         m.status # "registered" /\ ~Verifies(Awaited(m.client)) /\ InOrder(m)
<1>. DEFINE s == [n EXCEPT !.serving = TRUE, !.changed = @ \cup (Devices \cap Present(n))]
            p == [s EXCEPT !.selected = FALSE, !.browsing = FALSE, !.resolved = FALSE]
            d == [s EXCEPT !.subscribed = FALSE, !.browsing = TRUE, !.timer = Once(@, "discover")]
            Goal(m) == m.status # "registered" /\ ~Verifies(Awaited(m.client)) /\ InOrder(m)
<1>1. IsNode(s) /\ Untouched(s) /\ ~s.selected /\ s.timer = n.timer /\ s.mode = n.mode
  BY DEF IsNode, Present, Untouched
<1>2. StartInternal(n) = IF s.mode = "manual" THEN ConnectToHost(s, "manual")
                         ELSE IF s.mode = "p2p" THEN SetStatus(p, "p2p") ELSE d
  BY <1>1 DEF StartInternal
<1>. HIDE DEF s
<1>3. s.mode = "manual" => Goal(ConnectToHost(s, "manual"))
  <2>. SUFFICES ASSUME s.mode = "manual" PROVE Goal(ConnectToHost(s, "manual"))
    OBVIOUS
  <2>. DEFINE m == ConnectToHost(s, "manual")
  <2>1. /\ m.timer = s.timer /\ m.mode = s.mode /\ m.host = "manual"
        /\ m.status = "connecting" /\ ~Verifies(Awaited(m.client))
    BY <1>1, ConnectsAlone DEF Hosts
  <2>. HIDE DEF m
  <2>2. Goal(m)
    BY <1>1, <2>1 DEF InOrder, Waits, Hosts, NoCallback
  <2>. QED  BY <2>2 DEF m
<1>4. Goal(SetStatus(p, "p2p"))
  <2>. DEFINE m == SetStatus(p, "p2p")
  <2>1. m.timer = s.timer /\ m.client = s.client /\ m.heartbeat = s.heartbeat /\ m.status = "p2p"
    BY <1>1 DEF SetStatus, IsNode
  <2>. HIDE DEF m
  <2>2. Goal(m)
    BY <1>1, <2>1, UntouchedIsSilent DEF InOrder, Untouched, NoCallback
  <2>. QED  BY <2>2 DEF m
<1>5. Goal(d)
  <2>1. /\ d.client = s.client /\ d.heartbeat = s.heartbeat /\ d.status = s.status /\ d.subscribed = FALSE
        /\ d.timer.callback = "discover" /\ d.timer.repeating = FALSE
    BY <1>1 DEF IsNode, IsTimer, Once, Start, Wait
  <2>. HIDE DEF d
  <2>. QED  BY <1>1, <2>1, UntouchedIsSilent DEF InOrder, Untouched
<1>. HIDE DEF p, d
<1>6. Goal(StartInternal(n))
  BY <1>2, <1>3, <1>4, <1>5
<1>. QED  BY <1>6

\* stop_internal leaves a fresh node as it is, but for its timers.
LEMMA FreshStops ==
  ASSUME NEW n, IsNode(n), Untouched(n), ~n.serving, ~n.browsing
  PROVE  LET m == StopInternal(n) IN
         /\ Untouched(m) /\ ~m.selected /\ m.timer.callback = NoCallback /\ ~m.timer.repeating
         /\ m.status = n.status
<1>. DEFINE m == StopInternal(n)
<1>1. /\ m.timer = Stop(n.timer) /\ m.heartbeat = Stop(n.heartbeat) /\ ~m.selected /\ m.status = n.status
      /\ m.client = CancelOutstandingRequests(n.client)
  BY DEF StopInternal, IsNode
<1>. HIDE DEF m
<1>2. CancelOutstandingRequests(n.client).session = "none" /\ CancelOutstandingRequests(n.client).requests = <<>>
  BY DEF CancelOutstandingRequests, Untouched, IsNode, IsClient
<1>3. /\ Stop(n.timer).callback = NoCallback /\ ~Stop(n.timer).repeating
      /\ Stop(n.heartbeat).callback = NoCallback
  BY DEF Stop, IsNode, IsTimer
<1>4. /\ Untouched(m) /\ ~m.selected /\ m.timer.callback = NoCallback /\ ~m.timer.repeating
      /\ m.status = n.status
  BY <1>1, <1>2, <1>3 DEF Untouched
<1>. QED  BY <1>4 DEF m

\* What matters for the discovery.
SameSearch(n, m) ==
  /\ m.timer = n.timer /\ m.mode = n.mode /\ m.host = n.host
  /\ m.selected = n.selected /\ m.subscribed = n.subscribed

\* What the callback of a request q may do with what was promised: it keeps it as it
\* is, it gives it up and does not verify, or it promises everything.
Answers(n, q, m) ==
  /\ SameSearch(n, m)
  /\ \/ /\ m.content = n.content /\ m.changed = n.changed /\ m.client.requests = n.client.requests
        /\ m.status = "registered" => n.status = "registered" \/ q.kind = "verify"
     \/ m.status # "registered" /\ ~Verifies(m.client.requests)
     \/ \A known : Promised(m, known, m.client.requests)

\* set_status with another status than disabled changes nothing else.
LEMMA SetStatusSame ==
  ASSUME NEW n, IsNode(n), NEW status \in Statuses \ {"disabled"}
  PROVE  LET m == SetStatus(n, status) IN
         /\ SameSearch(n, m) /\ m.content = n.content /\ m.changed = n.changed /\ m.client = n.client
         /\ m.heartbeat = n.heartbeat /\ m.status = status
BY DEF SetStatus, IsNode, SameSearch

\* The registry is connected: everything is posted, and then verified.
LEMMA ConnectAnswers ==
  ASSUME NEW n, IsNode(n), n.client.session \in Busy, NEW q, NEW outcome \in {"ok", "refused"}
  PROVE  Answers(n, q, ConnectAnswered(n, outcome))
<1>. DEFINE b == [n EXCEPT !.postErrors = FALSE, !.failed = 0, !.changed = Present(n)]
            t == SendUpdatedResources(b)
            v == [kind |-> "verify"]
            last == <<v>>
            r == Send(t, v)
            m == SetStatus(r, "connected")
<1>1. /\ IsNode(b) /\ b.client = n.client /\ b.content = n.content /\ b.changed = Present(n)
      /\ SameSearch(n, b)
  BY MaxFailedAssumption DEF IsNode, Present, SameSearch
<1>. HIDE DEF b
<1>2. Requested(b, t)
  BY <1>1, SendUpdatedRequests
<1>3. IsNode(t) /\ t.client.session \in Busy
  BY <1>1, <1>2 DEF Requested, Follows
<1>4. SameRest(b, t)
  BY <1>1, SendUpdatedPromises
<1>5. PICK more \in Seq(Request) :
         /\ b.client.session \in Busy => t.client.requests = b.client.requests \o more
         /\ \A known, out : out \in Seq(Request) /\ (Promised(b, known, out) \/ Present(b) \subseteq b.changed)
                              => Promised(t, known, out \o more)
  BY <1>1, SendUpdatedPromises
<1>6. Present(b) \subseteq b.changed
  BY <1>1 DEF Present
<1>7. \A known : Promised(t, known, t.client.requests)
  <2>1. b.client.requests \in Seq(Request) /\ b.client.session \in Busy
    BY <1>1 DEF IsNode, IsClient
  <2>. HIDE DEF t
  <2>. QED  BY <1>5, <1>6, <2>1
<1>8. t.client.requests \in Seq(Request)
  BY <1>3 DEF IsNode, IsClient
<1>. HIDE DEF t
<1>9. v \in Request /\ last \in Seq(Request) /\ v.kind = "verify"
  BY DEF Request
<1>. HIDE DEF v
<1>10. /\ SameRest(t, r) /\ r.client.requests = t.client.requests \o last
       /\ \A known, out : out \in Seq(Request) /\ Promised(t, known, out)
                          /\ (\A x \in Present(t) : ~Touches(v, x))
                            => Promised(r, known, out \o last)
  BY <1>3, <1>9, SendPromises
<1>11. \A x \in Present(t) : ~Touches(v, x)
  BY <1>9 DEF Touches
<1>12. IsNode(r)
  BY <1>3, <1>9, SendRequested DEF Requested
<1>. HIDE DEF last, r
<1>13. \A known : Promised(r, known, r.client.requests)
  BY <1>7, <1>8, <1>10, <1>11
<1>14. SameSearch(r, m) /\ m.content = r.content /\ m.changed = r.changed /\ m.client = r.client
  BY <1>12, SetStatusSame DEF Statuses
<1>. HIDE DEF m
<1>15. \A known : Promised(m, known, m.client.requests)
  BY <1>13, <1>14 DEF Promised, Present
<1>16. SameSearch(n, m)
  BY <1>1, <1>4, <1>10, <1>14 DEF SameSearch, SameRest
<1>17. outcome = "ok" => Answers(n, q, ConnectAnswered(n, outcome))
  BY <1>15, <1>16 DEF Answers, ConnectAnswered, Register, m, r, v, t, b
<1>18. outcome = "refused" => Answers(n, q, ConnectAnswered(n, outcome))
  <2>. DEFINE e == SetStatus(n, "error")
  <2>1. /\ SameSearch(n, e) /\ e.content = n.content /\ e.changed = n.changed /\ e.client = n.client
        /\ e.status = "error"
    BY SetStatusSame DEF Statuses
  <2>2. outcome = "refused" => ConnectAnswered(n, outcome) = e
    BY DEF ConnectAnswered
  <2>. HIDE DEF e
  <2>. QED  BY <2>1, <2>2 DEF Answers
<1>. QED  BY <1>17, <1>18

\* The heartbeat: the last failure cancels all requests and connects again.
LEMMA HeartbeatAnswers ==
  ASSUME NEW n, IsNode(n), n.client.session \in Busy, NEW q, NEW outcome \in {"ok", "refused"}
  PROVE  Answers(n, q, HeartbeatAnswered(n, outcome))
<1>. DEFINE f == [n EXCEPT !.failed = LeastOf(@ + 1, MaxFailed)]
            z == [n EXCEPT !.failed = 0]
            c == [f EXCEPT !.client = CancelOutstandingRequests(@)]
            e == SetStatus(c, "error")
            h == [e EXCEPT !.heartbeat = Stop(@)]
            v == [kind |-> "connect"]
            only == <<v>>
            m == Send(h, v)
<1>1. IsNode(f) /\ Answers(n, q, f) /\ SameSearch(n, f) /\ f.client = n.client
  BY MaxFailedAssumption DEF IsNode, LeastOf, SameSearch, Answers
<1>2. Answers(n, q, z)
  BY DEF IsNode, SameSearch, Answers
<1>. HIDE DEF f, z
<1>3. /\ IsNode(c) /\ SameSearch(f, c) /\ c.client.requests = <<>> /\ c.client.session = n.client.session
  <2>. DEFINE k == CancelOutstandingRequests(f.client)
  <2>1. IsClient(f.client)
    BY <1>1 DEF IsNode
  <2>2. IsClient(k) /\ k.requests = <<>> /\ k.session = f.client.session
    BY <2>1, CancelFollows DEF Follows, IsClient, CancelOutstandingRequests
  <2>. HIDE DEF k
  <2>3. c = [f EXCEPT !.client = k]
    BY DEF k
  <2>. HIDE DEF c
  <2>. QED  BY <1>1, <2>2, <2>3 DEF IsNode, SameSearch
<1>. HIDE DEF c
<1>4. SameSearch(c, e) /\ e.client = c.client /\ e.status = "error" /\ IsNode(e)
  BY <1>3, SetStatusSame, SetStatusKeeps DEF Statuses
<1>. HIDE DEF e
<1>5. IsNode(h) /\ SameSearch(e, h) /\ h.client = e.client /\ h.status = e.status
  <2>1. IsTimer(Stop(e.heartbeat))
    BY <1>4 DEF IsNode, IsTimer, Stop, AsioTimer
  <2>. QED  BY <1>4, <2>1 DEF IsNode, SameSearch
<1>. HIDE DEF h
<1>6. v \in Request /\ only \in Seq(Request) /\ v.kind = "connect" /\ Len(only) = 1 /\ only[1] = v
  BY DEF Request
<1>. HIDE DEF v
<1>7. SameRest(h, m) /\ m.status = h.status
      /\ (h.client.session \in Busy => m.client.requests = h.client.requests \o only)
  BY <1>5, <1>6, SendPromises
<1>. HIDE DEF only, m
<1>8. m.client.requests = only
  <2>1. <<>> \o only = only
    BY <1>6
  <2>. QED  BY <1>3, <1>4, <1>5, <1>7, <2>1
<1>9. ~Verifies(m.client.requests)
  <2>1. \A i \in 1..Len(only) : only[i].kind = "connect"
    BY <1>6, \A i \in 1..1 : i = 1
  <2>. QED  BY <1>8, <2>1 DEF Verifies
<1>10. Answers(n, q, m)
  BY <1>1, <1>3, <1>4, <1>5, <1>7, <1>9 DEF Answers, SameSearch, SameRest
<1>11. HeartbeatAnswered(n, outcome) =
        CASE outcome = "ok" -> z
          [] outcome = "refused" /\ f.failed < MaxFailed -> f
          [] OTHER -> m
  BY DEF HeartbeatAnswered, ConnectToRegistry, m, v, h, e, c, f, z
<1>. QED  BY <1>1, <1>2, <1>10, <1>11

\* Every callback does.
LEMMA AnsweredAnswers ==
  ASSUME NEW n, IsNode(n), n.client.session \in Busy, NEW q \in Request, NEW outcome \in {"ok", "refused"}
  PROVE  Answers(n, q, Answered(n, q, outcome))
<1>1. q.kind \in {"connect", "verify", "heartbeat", "post", "delete"}
  BY DEF Request
<1>2. Answers(n, q, n)
  BY DEF Answers, SameSearch
<1>3. Answers(n, q, SetStatus(n, "error"))
  <2>. DEFINE e == SetStatus(n, "error")
  <2>1. /\ SameSearch(n, e) /\ e.content = n.content /\ e.changed = n.changed /\ e.client = n.client
        /\ e.status = "error"
    BY SetStatusSame DEF Statuses
  <2>. HIDE DEF e
  <2>2. Answers(n, q, e)
    BY <2>1 DEF Answers
  <2>. QED  BY <2>2 DEF e
<1>4. q.kind = "verify" => Answers(n, q, VerifyAnswered(n, outcome))
  <2>. DEFINE s == SetStatus(n, "registered")
              m == [s EXCEPT !.heartbeat = Start(@, "heartbeat", TRUE)]
  <2>1. /\ SameSearch(n, s) /\ s.content = n.content /\ s.changed = n.changed /\ s.client = n.client
        /\ IsNode(s)
    BY SetStatusSame, SetStatusKeeps DEF Statuses
  <2>. HIDE DEF s
  <2>2. SameSearch(s, m) /\ m.content = s.content /\ m.changed = s.changed /\ m.client = s.client
    BY <2>1 DEF IsNode, SameSearch
  <2>3. VerifyAnswered(n, outcome) = IF outcome # "ok" \/ n.postErrors THEN SetStatus(n, "error") ELSE m
    BY DEF VerifyAnswered, s
  <2>. HIDE DEF m
  <2>4. q.kind = "verify" => Answers(n, q, m)
    BY <2>1, <2>2 DEF Answers, SameSearch
  <2>. QED  BY <1>3, <2>3, <2>4
<1>5. Answers(n, q, PostAnswered(n, outcome))
  <2>. DEFINE p == [n EXCEPT !.postErrors = TRUE]
              e == SetStatus(p, "error")
  <2>1. IsNode(p) /\ SameSearch(n, p) /\ p.content = n.content /\ p.changed = n.changed /\ p.client = n.client
    BY DEF IsNode, SameSearch
  <2>. HIDE DEF p
  <2>2. /\ SameSearch(p, e) /\ e.content = p.content /\ e.changed = p.changed /\ e.client = p.client
        /\ e.status = "error"
    BY <2>1, SetStatusSame DEF Statuses
  <2>3. PostAnswered(n, outcome) = IF outcome = "refused" THEN e ELSE n
    BY DEF PostAnswered, p
  <2>. HIDE DEF e
  <2>4. Answers(n, q, e)
    BY <2>1, <2>2 DEF Answers, SameSearch
  <2>. QED  BY <1>2, <2>3, <2>4
<1>6. Answers(n, q, DeleteAnswered(n, outcome))
  BY <1>2, <1>3 DEF DeleteAnswered
<1>. QED  BY <1>1, <1>2, <1>4, <1>5, <1>6, ConnectAnswers, HeartbeatAnswers DEF Answered

\* A response: the registry has processed the request, and its callback runs.
LEMMA ResponseSyncs ==
  ASSUME NodeInv, SyncOK(node, KnownAt(node, registry)), NEW keepAlive \in BOOLEAN, Response(keepAlive)
  PROVE  SyncOK(node', KnownAt(node', registry')) /\ ~Fresh(node)
<1>. DEFINE c == node.client
            q == c.callback
            rest == c.requests
            outcome == IF Accepts(q) THEN "ok" ELSE "refused"
            b == [node EXCEPT !.client = BeforeResponse(c)]
            n == Answered(b, q, outcome)
            known == Processed(q)[node.host]
<1>1. IsNode(node) /\ IsClient(c) /\ c.session = "waiting_for_response" /\ q \in Request
      /\ rest \in Seq(Request)
  BY DEF NodeInv, NodeOK, IsNode, Response, ReadResponse, ClientOK, IsClient
<1>2. ~Untouched(node) /\ ~Waits(node) /\ ~Fresh(node) /\ node.host \in Hosts
  BY <1>1 DEF SyncOK, InOrder, Untouched, Waits, Fresh
<1>3. IsClient(BeforeResponse(c)) /\ BeforeResponse(c).session = "waiting_for_response"
      /\ BeforeResponse(c).requests = rest
  BY <1>1 DEF BeforeResponse, Finish, IsClient
<1>4. /\ IsNode(b) /\ Alive(b) /\ b.client = BeforeResponse(c) /\ b.content = node.content
      /\ b.changed = node.changed /\ b.status = node.status /\ SameSearch(node, b)
  BY <1>3 DEF NodeInv, NodeOK, IsNode, Alive, SameSearch
<1>5. /\ node' = [n EXCEPT !.client = AfterResponse(@, keepAlive)]
      /\ registry' = Processed(q)
  BY DEF Response, ReadResponse
<1>6. outcome \in {"ok", "refused"} /\ outcome \in Outcomes
  BY DEF Outcomes
<1>7. Awaited(c) = <<q>> \o rest
  BY <1>1 DEF Awaited
<1>. HIDE DEF b, outcome, n, c
<1>8. Handles(b, n) /\ Answers(b, q, n)
  BY <1>1, <1>3, <1>4, <1>6, AnsweredHandled, AnsweredAnswers DEF n, Busy, IsClient
<1>9. IsNode(n) /\ IsClient(n.client) /\ n.client.session = "waiting_for_response"
  BY <1>3, <1>4, <1>8 DEF Handles, Follows, Busy
<1>10. Awaited(AfterResponse(n.client, keepAlive)) = n.client.requests
  BY <1>9, HandlersAwait
<1>11. /\ SameSearch(n, node') /\ node'.content = n.content /\ node'.changed = n.changed
       /\ node'.status = n.status /\ Awaited(node'.client) = n.client.requests
  BY <1>5, <1>9, <1>10 DEF IsNode, SameSearch
<1>12. KnownAt(node', registry') = known /\ KnownAt(node, registry) = registry[node.host]
  BY <1>2, <1>4, <1>5, <1>8, <1>11 DEF KnownAt, Answers, SameSearch
<1>13. InOrder(node')
  BY <1>2, <1>4, <1>8, <1>11 DEF SyncOK, InOrder, Waits, Answers, SameSearch
<1>14. ASSUME node.status = "registered" \/ Verifies(<<q>> \o rest)
       PROVE  Promised(node, known, rest)
  <2>1. Promised(node, registry[node.host], <<q>> \o rest)
    BY <1>7, <1>12, <1>14 DEF SyncOK, c
  <2>2. \A r \in Present(node) : r \in Resources
    BY DEF Present
  <2>. HIDE DEF known, q, rest
  <2>. QED  BY <1>1, <1>2, <2>1, <2>2, ProcessedLands DEF Promised, NodeInv, known
<1>15. (q.kind = "verify" \/ Verifies(rest)) => Verifies(<<q>> \o rest)
  <2>1. /\ 1 \in 1..Len(<<q>> \o rest) /\ (<<q>> \o rest)[1] = q
        /\ \A i \in 1..Len(rest) : i + 1 \in 1..Len(<<q>> \o rest) /\ (<<q>> \o rest)[i + 1] = rest[i]
    BY <1>1
  <2>. QED  BY <2>1 DEF Verifies
<1>16. node'.status = "registered" \/ Verifies(Awaited(node'.client))
         => Promised(node', known, Awaited(node'.client))
  <2>. HIDE DEF known, q, rest
  <2>1. CASE /\ n.content = b.content /\ n.changed = b.changed /\ n.client.requests = b.client.requests
             /\ n.status = "registered" => b.status = "registered" \/ q.kind = "verify"
    <3>1. /\ node'.content = node.content /\ node'.changed = node.changed
          /\ Awaited(node'.client) = rest
          /\ node'.status = "registered" => node.status = "registered" \/ q.kind = "verify"
      BY <1>3, <1>4, <1>11, <2>1
    <3>. QED  BY <1>14, <1>15, <3>1 DEF Promised, Present
  <2>2. CASE n.status # "registered" /\ ~Verifies(n.client.requests)
    BY <1>11, <2>2
  <2>3. CASE \A k : Promised(n, k, n.client.requests)
    BY <1>11, <2>3 DEF Promised, Present
  <2>. QED  BY <1>8, <2>1, <2>2, <2>3 DEF Answers
<1>. QED  BY <1>2, <1>12, <1>13, <1>16 DEF SyncOK

\* Handlers that change neither what is promised nor how the node searches.
LEMMA SameSyncs ==
  ASSUME NEW known, SyncOK(node, known), node'.mode = node.mode, node'.host = node.host,
         node'.selected = node.selected, node'.subscribed = node.subscribed,
         node'.timer.callback = node.timer.callback, node'.timer.repeating = node.timer.repeating,
         node'.heartbeat.callback = node.heartbeat.callback, node'.status = node.status,
         node'.content = node.content, node'.changed = node.changed,
         node.client.session = "none" => node'.client = node.client,
         Awaited(node'.client) = Awaited(node.client)
  PROVE  SyncOK(node', known) /\ node'.host = node.host
BY DEF SyncOK, InOrder, Waits, Untouched, Promised, Present

\* The session proceeds.
LEMMA SessionSyncs ==
  ASSUME NodeInv, NEW known, SyncOK(node, known), SessionStep
  PROVE  SyncOK(node', known) /\ node'.host = node.host /\ ~Fresh(node)
<1>. DEFINE c == node.client
            d == CASE c.session = "resolving"        -> OnResolve(c)
                   [] c.session = "connecting"       -> OnConnect(c)
                   [] c.session = "waiting_for_send" -> OnWrite(c)
<1>1. c.session \in {"resolving", "connecting", "waiting_for_send"}
  BY DEF SessionStep, Busy
<1>2. IsNode(node) /\ IsClient(c)
  BY DEF NodeInv, NodeOK, IsNode
<1>3. Awaited(d) = Awaited(c)
  BY <1>1, <1>2, HandlersAwait
<1>4. node' = [node EXCEPT !.client = d]
  BY DEF SessionStep, SessionProceeds
<1>. HIDE DEF d
<1>5. /\ SameSearch(node, node') /\ node'.heartbeat = node.heartbeat /\ node'.status = node.status
      /\ node'.content = node.content /\ node'.changed = node.changed /\ node'.client = d
  BY <1>2, <1>4 DEF IsNode, SameSearch
<1>6. ~Fresh(node) /\ c.session # "none"
  BY <1>1 DEF Fresh, Untouched
<1>7. node'.timer = node.timer
  BY <1>5 DEF SameSearch
<1>. QED  BY <1>3, <1>5, <1>6, <1>7, SameSyncs DEF SameSearch

\* Timers expire.
LEMMA ExpirySyncs ==
  ASSUME NodeInv, NEW known, SyncOK(node, known), TimerExpires \/ HeartbeatExpires
  PROVE  SyncOK(node', known) /\ node'.host = node.host /\ (Fresh(node) => Fresh(node'))
<1>1. \A t : IsTimer(t) => Expire(t).callback = t.callback /\ Expire(t).repeating = t.repeating
  BY DEF IsTimer, Expire
<1>2. IsNode(node) /\ IsTimer(node.timer) /\ IsTimer(node.heartbeat)
  BY DEF NodeInv, NodeOK, IsNode
<1>3. /\ node'.client = node.client /\ node'.status = node.status
      /\ node'.content = node.content /\ node'.changed = node.changed /\ node'.mode = node.mode
      /\ node'.host = node.host /\ node'.selected = node.selected /\ node'.subscribed = node.subscribed
      /\ node'.serving = node.serving /\ node'.browsing = node.browsing
      /\ node'.timer \in {node.timer, Expire(node.timer)}
      /\ node'.heartbeat \in {node.heartbeat, Expire(node.heartbeat)}
  BY <1>2 DEF TimerExpires, HeartbeatExpires, IsNode
<1>4. /\ node'.timer.callback = node.timer.callback /\ node'.timer.repeating = node.timer.repeating
      /\ node'.heartbeat.callback = node.heartbeat.callback
  BY <1>1, <1>2, <1>3
<1>5. SyncOK(node', known)
  BY <1>3, <1>4, SameSyncs
<1>. QED  BY <1>3, <1>4, <1>5 DEF Fresh, Untouched

\* A registry is selected by a node that has made no requests.
LEMMA SelectSyncs ==
  ASSUME NEW n, IsNode(n), Untouched(n)
  PROVE  LET m == SelectRegistry(n) IN
         /\ m.timer = n.timer /\ m.mode = n.mode /\ m.host = "mdns_p2p" /\ m.selected
         /\ m.subscribed = n.subscribed /\ m.status = "connecting" /\ ~Verifies(Awaited(m.client))
<1>. DEFINE s == [n EXCEPT !.selected = TRUE]
<1>1. /\ IsNode(s) /\ Untouched(s) /\ s.timer = n.timer /\ s.mode = n.mode /\ s.subscribed = n.subscribed
      /\ s.selected
  BY DEF IsNode, Untouched
<1>2. SelectRegistry(n) = ConnectToHost(s, "mdns_p2p")
  BY DEF SelectRegistry, Untouched
<1>. HIDE DEF s
<1>. DEFINE m == ConnectToHost(s, "mdns_p2p")
<1>3. /\ m.timer = n.timer /\ m.mode = n.mode /\ m.host = "mdns_p2p" /\ m.selected
      /\ m.subscribed = n.subscribed /\ m.status = "connecting" /\ ~Verifies(Awaited(m.client))
  BY <1>1, ConnectsAlone DEF Hosts
<1>. HIDE DEF m
<1>. QED  BY <1>2, <1>3 DEF m

\* The discovery timeout leaves a node with all its fields.
LEMMA DiscoveryTimeoutNode ==
  ASSUME NEW n, NodeOK(n)
  PROVE  IsNode(DiscoveryTimeout(n))
BY DiscoveryTimeoutIsOK DEF NodeOK

\* The discovery timer calls back.
LEMMA TimerSyncs ==
  ASSUME NodeInv, SyncOK(node, KnownAt(node, registry)), TimerFires
  PROVE  SyncOK(node', KnownAt(node', registry)) /\ (Fresh(node) => Fresh(node'))
<1>. DEFINE t == BeforeCallback(node.timer)
            n == [node EXCEPT !.timer = t]
            m == DiscoveryTimeout(n)
<1>1. IsNode(node) /\ IsTimer(node.timer) /\ CanComplete(node.timer)
  BY DEF NodeInv, NodeOK, IsNode, TimerFires
<1>2. IsTimer(t) /\ t.callback = node.timer.callback /\ t.repeating = node.timer.repeating
  BY <1>1, BeforeCallbackKeeps
<1>. HIDE DEF t
<1>3. /\ IsNode(n) /\ n.client = node.client /\ n.status = node.status /\ n.heartbeat = node.heartbeat
      /\ n.content = node.content /\ n.changed = node.changed /\ n.mode = node.mode
      /\ n.host = node.host /\ n.selected = node.selected /\ n.subscribed = node.subscribed
      /\ n.serving = node.serving /\ n.browsing = node.browsing /\ n.timer = t
  BY <1>1, <1>2 DEF IsNode
<1>8. NodeOK(n)
  BY <1>2, <1>3 DEF NodeInv, NodeOK, Alive
<1>4. node.timer.callback \in {"discover", NoCallback} /\ ~node.timer.repeating
  BY DEF SyncOK, InOrder
<1>5. node' = IF n.timer.callback = NoCallback THEN n ELSE [m EXCEPT !.timer = AfterCallback(@)]
  BY <1>2, <1>3, <1>4 DEF TimerFires, NoCallback, t
<1>. HIDE DEF n
<1>6. CASE node.timer.callback = NoCallback
  <2>1. node' = n
    BY <1>2, <1>3, <1>5, <1>6
  <2>2. SyncOK(node', KnownAt(node, registry)) /\ node'.host = node.host
    BY <1>2, <1>3, <2>1, SameSyncs
  <2>. QED  BY <1>2, <1>3, <1>6, <2>1, <2>2 DEF Fresh, Untouched, KnownAt
<1>7. CASE node.timer.callback = "discover"
  <2>. DEFINE s == [n EXCEPT !.subscribed = TRUE]
  <2>1. Untouched(node) /\ ~Fresh(node)
    BY <1>7 DEF SyncOK, InOrder, Waits, Fresh, NoCallback
  <2>2. IsNode(s) /\ Untouched(s) /\ s.timer = n.timer /\ s.client = n.client /\ s.heartbeat = n.heartbeat
    BY <1>3, <2>1 DEF IsNode, Untouched
  <2>3. DiscoveryTimeout(n) = IF s.resolved THEN SelectRegistry(s)
                              ELSE SetStatus(s, IF s.mode = "mdns_p2p" THEN "discovering" ELSE "p2p")
    BY DEF DiscoveryTimeout
  <2>. HIDE DEF s
  <2>5. /\ IsNode(m) /\ m.timer = n.timer /\ m.status # "registered" /\ ~Verifies(Awaited(m.client))
        /\ Untouched(m) \/ (m.selected /\ m.host = "mdns_p2p")
    <3>1. CASE s.resolved
      <4>. DEFINE k == SelectRegistry(s)
      <4>1. /\ k.timer = s.timer /\ k.selected /\ k.host = "mdns_p2p" /\ k.status = "connecting"
            /\ ~Verifies(Awaited(k.client))
        BY <2>2, SelectSyncs
      <4>2. m = k
        BY <2>3, <3>1
      <4>3. IsNode(m)
        BY <1>8, DiscoveryTimeoutNode
      <4>. HIDE DEF k, m
      <4>. QED  BY <2>2, <4>1, <4>2, <4>3
    <3>2. CASE ~s.resolved
      <4>. DEFINE status == IF s.mode = "mdns_p2p" THEN "discovering" ELSE "p2p"
                  k == SetStatus(s, status)
      <4>1. status \in Statuses \ {"disabled"} /\ status # "registered"
        BY DEF Statuses
      <4>. HIDE DEF status
      <4>2. k.timer = s.timer /\ k.client = s.client /\ k.heartbeat = s.heartbeat /\ k.status = status /\ IsNode(k)
        BY <2>2, <4>1, SetStatusSame, SetStatusKeeps DEF SameSearch
      <4>. HIDE DEF k
      <4>3. Untouched(k) /\ ~Verifies(Awaited(k.client))
        BY <2>2, <4>1, <4>2, UntouchedIsSilent DEF Untouched
      <4>4. m = k
        BY <2>3, <3>2 DEF k, status
      <4>. HIDE DEF m
      <4>. QED  BY <2>2, <4>1, <4>2, <4>3, <4>4
    <3>. QED  BY <3>1, <3>2
  <2>. HIDE DEF m
  <2>6. IsTimer(m.timer) /\ ~m.timer.repeating
    BY <1>2, <1>3, <1>4, <2>5
  <2>7. AfterCallback(m.timer).callback = NoCallback /\ ~AfterCallback(m.timer).repeating
    BY <2>6, AfterCallbackKeeps
  <2>8. node' = [m EXCEPT !.timer = AfterCallback(@)]
    BY <1>2, <1>3, <1>5, <1>7 DEF NoCallback
  <2>9. /\ node'.timer.callback = NoCallback /\ ~node'.timer.repeating /\ node'.client = m.client
        /\ node'.status = m.status /\ node'.heartbeat = m.heartbeat /\ node'.selected = m.selected
        /\ node'.host = m.host
    BY <2>5, <2>7, <2>8 DEF IsNode
  <2>. QED  BY <2>1, <2>5, <2>9 DEF SyncOK, InOrder, Waits, Untouched, NoCallback, Hosts
<1>. QED  BY <1>4, <1>6, <1>7

\* A heartbeat is sent.
LEMMA HeartbeatSyncs ==
  ASSUME NodeInv, NEW known, SyncOK(node, known), HeartbeatFires
  PROVE  SyncOK(node', known) /\ node'.host = node.host /\ (Fresh(node) => Fresh(node'))
<1>. DEFINE t == BeforeCallback(node.heartbeat)
            n == [node EXCEPT !.heartbeat = t]
            q == [kind |-> "heartbeat"]
            more == <<q>>
            m == Send(n, q)
<1>1. IsNode(node) /\ ClientOK(node.client) /\ IsTimer(node.heartbeat) /\ CanComplete(node.heartbeat)
  BY DEF NodeInv, NodeOK, IsNode, HeartbeatFires
<1>2. IsTimer(t) /\ t.callback = node.heartbeat.callback
  BY <1>1, BeforeCallbackKeeps
<1>. HIDE DEF t
<1>3. /\ IsNode(n) /\ n.client = node.client /\ n.status = node.status /\ n.timer = node.timer
      /\ n.content = node.content /\ n.changed = node.changed /\ n.mode = node.mode
      /\ n.host = node.host /\ n.selected = node.selected /\ n.subscribed = node.subscribed
      /\ n.serving = node.serving /\ n.browsing = node.browsing /\ n.heartbeat = t
  BY <1>1, <1>2 DEF IsNode
<1>4. node' = IF n.heartbeat.callback = NoCallback THEN n ELSE [m EXCEPT !.heartbeat = AfterCallback(@)]
  BY DEF HeartbeatFires, t
<1>. HIDE DEF n
<1>5. CASE node.heartbeat.callback = NoCallback
  <2>1. node' = n
    BY <1>2, <1>3, <1>4, <1>5
  <2>2. SyncOK(node', known) /\ node'.host = node.host
    BY <1>2, <1>3, <2>1, SameSyncs
  <2>. QED  BY <1>2, <1>3, <2>1, <2>2 DEF Fresh, Untouched
<1>6. CASE node.heartbeat.callback # NoCallback
  <2>1. ~Waits(node) /\ ~Fresh(node)
    BY <1>6 DEF SyncOK, InOrder, Fresh, Untouched
  <2>2. q \in Request /\ more \in Seq(Request) /\ q.kind = "heartbeat" /\ Len(more) = 1 /\ more[1] = q
    BY DEF Request
  <2>. HIDE DEF q
  <2>3. /\ SameRest(n, m) /\ m.status = n.status /\ m.content = n.content /\ m.changed = n.changed
        /\ Awaited(m.client) = Awaited(n.client) \o more
    BY <1>3, <2>2, SendPromises
  <2>4. IsNode(m)
    BY <1>3, <2>2, SendRequested DEF Requested
  <2>5. \A r \in Present(n) : ~Touches(q, r)
    BY <2>2 DEF Touches
  <2>6. \A k, out : out \in Seq(Request) /\ Promised(n, k, out) => Promised(m, k, out \o more)
    BY <1>3, <2>2, <2>5, SendPromises
  <2>7. \A i \in 1..Len(more) : more[i].kind # "verify"
    BY <2>2, \A i \in 1..1 : i = 1
  <2>8. Awaited(n.client) \in Seq(Request)
    BY <1>1, <1>3, AwaitedIsSeq DEF IsNode
  <2>. HIDE DEF more, m
  <2>9. Verifies(Awaited(m.client)) => Verifies(Awaited(node.client))
    BY <1>3, <2>2, <2>3, <2>7, <2>8, VerifiesBefore
  <2>10. node' = [m EXCEPT !.heartbeat = AfterCallback(@)]
    BY <1>2, <1>3, <1>4, <1>6
  <2>11. /\ SameRest(m, node') /\ node'.status = m.status /\ node'.content = m.content
         /\ node'.changed = m.changed /\ node'.client = m.client
    BY <2>4, <2>10 DEF IsNode, SameRest
  <2>12. InOrder(node') /\ node'.host = node.host
    BY <1>3, <2>1, <2>3, <2>11 DEF SyncOK, InOrder, Waits, SameRest
  <2>13. ASSUME node.status = "registered" \/ Verifies(Awaited(node.client))
         PROVE  Promised(node', known, Awaited(node'.client))
    <3>1. Promised(n, known, Awaited(n.client))
      BY <1>3, <2>13 DEF SyncOK, Promised, Present
    <3>2. Promised(m, known, Awaited(m.client))
      BY <2>3, <2>6, <2>8, <3>1
    <3>. QED  BY <2>11, <3>2 DEF Promised, Present
  <2>. QED  BY <1>3, <2>1, <2>3, <2>9, <2>11, <2>12, <2>13 DEF SyncOK
<1>. QED  BY <1>5, <1>6

\* The browser resolves a registry.
LEMMA ResolvedSyncs ==
  ASSUME NodeInv, SyncOK(node, KnownAt(node, registry)), RegistryResolved
  PROVE  SyncOK(node', KnownAt(node', registry')) /\ ~Fresh(node)
<1>. DEFINE n == [node EXCEPT !.resolved = TRUE]
            m == SelectRegistry(n)
<1>1. IsNode(node) /\ ~Fresh(node)
  BY DEF NodeInv, NodeOK, RegistryResolved, Fresh
<1>2. /\ IsNode(n) /\ n.client = node.client /\ n.status = node.status /\ n.timer = node.timer
      /\ n.content = node.content /\ n.changed = node.changed /\ n.mode = node.mode
      /\ n.host = node.host /\ n.selected = node.selected /\ n.subscribed = node.subscribed
      /\ n.heartbeat = node.heartbeat
  BY <1>1 DEF IsNode
<1>3. node' = IF n.subscribed /\ ~n.selected /\ n.mode = "mdns_p2p" THEN m ELSE n
  BY DEF RegistryResolved
<1>4. registry' = registry
  BY DEF RegistryResolved
<1>. HIDE DEF n
<1>5. CASE ~(n.subscribed /\ ~n.selected /\ n.mode = "mdns_p2p")
  <2>1. node' = n
    BY <1>3, <1>5
  <2>2. SyncOK(node', KnownAt(node, registry)) /\ node'.host = node.host
    BY <1>2, <2>1, SameSyncs
  <2>. QED  BY <1>1, <1>4, <2>2 DEF KnownAt
<1>6. CASE n.subscribed /\ ~n.selected /\ n.mode = "mdns_p2p"
  <2>1. Untouched(node) /\ node.timer.callback = NoCallback /\ ~node.timer.repeating
    BY <1>2, <1>6 DEF SyncOK, InOrder, Waits
  <2>2. Untouched(n)
    BY <1>2, <2>1 DEF Untouched
  <2>3. /\ m.timer = n.timer /\ m.mode = n.mode /\ m.host = "mdns_p2p" /\ m.selected
        /\ m.status = "connecting" /\ ~Verifies(Awaited(m.client))
    BY <1>2, <2>2, SelectSyncs
  <2>4. node' = m
    BY <1>3, <1>6
  <2>. HIDE DEF m
  <2>. QED  BY <1>1, <1>2, <2>1, <2>3, <2>4 DEF SyncOK, InOrder, Waits, NoCallback, Hosts
<1>. QED  BY <1>5, <1>6

\* The first configuration of a node, in one of three ways.
LEMMA ConfiguresFresh ==
  ASSUME NodeInv, Fresh(node), NEW known, SyncOK(node, known),
         \/ StartNode \/ StopNode
         \/ \E enabled, otherPort \in BOOLEAN, mode \in Modes : SetConfiguration(enabled, mode, otherPort)
  PROVE  node'.status # "registered" /\ ~Verifies(Awaited(node'.client)) /\ InOrder(node')
<1>. DEFINE Goal(m) == m.status # "registered" /\ ~Verifies(Awaited(m.client)) /\ InOrder(m)
<1>1. IsNode(node) /\ ~node.timer.repeating /\ ClientOK(node.client)
  BY DEF NodeInv, NodeOK, SyncOK, InOrder
<1>2. CASE StartNode
  <2>. DEFINE n == [node EXCEPT !.enabled = TRUE]
  <2>1. /\ IsNode(n) /\ Untouched(n) /\ ~n.selected /\ n.timer.callback = NoCallback
        /\ ~n.timer.repeating /\ ~n.serving
    BY <1>1 DEF IsNode, Fresh, Untouched
  <2>2. node' = IF n.serving THEN n ELSE StartInternal(n)
    BY <1>2 DEF StartNode
  <2>. HIDE DEF n
  <2>. QED  BY <2>1, <2>2, FreshStarts
<1>3. \A m : IsNode(m) /\ Untouched(m) /\ m.timer.callback = NoCallback /\ ~m.timer.repeating
               => Goal(SetStatus(m, "disabled"))
  <2>. SUFFICES ASSUME NEW m, IsNode(m), Untouched(m), m.timer.callback = NoCallback, ~m.timer.repeating
                PROVE  Goal(SetStatus(m, "disabled"))
    OBVIOUS
  <2>. DEFINE d == SetStatus(m, "disabled")
  <2>1. d.timer = m.timer /\ d.client = m.client /\ d.heartbeat = m.heartbeat /\ d.status = "disabled"
    BY SetStatusKeeps DEF Statuses
  <2>. HIDE DEF d
  <2>2. Untouched(d)
    BY <2>1 DEF Untouched
  <2>3. Goal(d)
    BY <2>1, <2>2, UntouchedIsSilent DEF InOrder, NoCallback
  <2>. QED  BY <2>3 DEF d
<1>4. CASE StopNode
  <2>. DEFINE b == [node EXCEPT !.enabled = FALSE]
              n == StopInternal(b)
  <2>1. IsNode(b) /\ Untouched(b) /\ ~b.serving /\ ~b.browsing /\ ClientOK(b.client)
    BY <1>1 DEF IsNode, Fresh, Untouched
  <2>. HIDE DEF b
  <2>2. IsNode(n) /\ Untouched(n) /\ n.timer.callback = NoCallback /\ ~n.timer.repeating
    BY <2>1, StopInternalIsOK, FreshStops
  <2>3. node' = SetStatus(IF n.status = "registered" THEN DeleteResource(n, Self) ELSE n, "disabled")
    BY <1>4 DEF StopNode, n, b
  <2>. HIDE DEF n
  <2>4. node' = SetStatus(n, "disabled")
    BY <2>2, <2>3 DEF Untouched
  <2>. QED  BY <1>3, <2>2, <2>4
<1>5. ASSUME NEW enabled \in BOOLEAN, NEW otherPort \in BOOLEAN, NEW mode \in Modes,
             SetConfiguration(enabled, mode, otherPort)
      PROVE  Goal(node')
  <2>. DEFINE c == [node EXCEPT !.enabled = enabled, !.mode = mode]
              u == Update(c, {Self})
              s == StopInternal(u)
              t == IF enabled THEN StartInternal(s) ELSE SetStatus(s, "disabled")
  <2>1. Unregistered(node, enabled) = node
    BY DEF Unregistered, Fresh, Untouched
  <2>2. /\ enabled # node.enabled \/ mode # node.mode \/ otherPort
        /\ node' = SendIfRegistered(t) /\ left["configurations"] > 0
    BY <1>5, <2>1 DEF SetConfiguration, Use
  <2>3. IsNode(c) /\ Untouched(c) /\ ~c.serving /\ ~c.browsing /\ ClientOK(c.client)
    BY <1>1 DEF IsNode, Fresh, Untouched
  <2>. HIDE DEF c
  <2>4. /\ IsNode(u) /\ u.client = c.client /\ u.heartbeat = c.heartbeat /\ u.status = c.status
        /\ SameRest(c, u)
    BY <2>2, <2>3, UpdateKeeps, UpdatePromises DEF NodeInv, Resources
  <2>. HIDE DEF u
  <2>5. Untouched(u) /\ ~u.serving /\ ~u.browsing /\ ClientOK(u.client)
    BY <2>3, <2>4 DEF Untouched, SameRest
  <2>6. IsNode(s) /\ Untouched(s) /\ ~s.selected /\ s.timer.callback = NoCallback /\ ~s.timer.repeating
    BY <2>4, <2>5, StopInternalIsOK, FreshStops
  <2>. HIDE DEF s
  <2>7. Goal(t)
    BY <1>3, <2>6, FreshStarts
  <2>. HIDE DEF t
  <2>8. SendIfRegistered(t) = t
    BY <2>7 DEF SendIfRegistered
  <2>. QED  BY <2>2, <2>7, <2>8
<1>. QED  BY <1>2, <1>3, <1>4, <1>5

\* The node was started, stopped or configured at most once.
ConfiguredOnce == left["configurations"] + 1 >= Limits["configurations"]

\* The inductive invariant of a node that was configured once and saw no faults.
SyncInv ==
  Calm /\ ConfiguredOnce
    => /\ left["configurations"] = Limits["configurations"] => Fresh(node)
       /\ SyncOK(node, KnownAt(node, registry))

\* What is left of the limits after an edit, a configuration or a fault.
LEMMA LeftAfterUse ==
  ASSUME LeftOK, NEW limit \in DOMAIN Limits, Use(limit)
  PROVE  /\ limit # "configurations" => left'["configurations"] = left["configurations"]
         /\ limit = "configurations" => left'["configurations"] = left["configurations"] - 1
         /\ limit # "faults" => left'["faults"] = left["faults"]
         /\ limit = "faults" => left'["faults"] = left["faults"] - 1
<1>1. {"configurations", "faults"} \subseteq DOMAIN Limits
  BY LimitsAssumption
<1>. QED  BY <1>1 DEF LeftOK, Use

\* A node that was just made.
LEMMA SyncInit == Init => SyncInv
<1>. SUFFICES ASSUME Init PROVE SyncInv
  OBVIOUS
<1>1. Fresh(node)
  BY DEF Init, Fresh, Untouched, NewClient, NewTimer, NoCallback
<1>2. InOrder(node)
  BY <1>1 DEF Init, InOrder, Fresh, NewTimer, NoCallback
<1>3. ~Verifies(Awaited(node.client)) /\ node.status # "registered"
  BY <1>1, UntouchedIsSilent DEF Fresh, Untouched
<1>. QED  BY <1>1, <1>2, <1>3 DEF SyncInv, SyncOK

\* Every step keeps the promise of a node that was configured once.
LEMMA SyncStep == NodeInv /\ SyncInv /\ [Next]_vars => SyncInv'
<1>. SUFFICES ASSUME NodeInv, SyncInv, [Next]_vars, Calm', ConfiguredOnce'
              PROVE  /\ left'["configurations"] = Limits["configurations"] => Fresh(node')
                     /\ SyncOK(node', KnownAt(node', registry'))
  BY DEF SyncInv
<1>. DEFINE Goal == /\ left'["configurations"] = Limits["configurations"] => Fresh(node')
                    /\ SyncOK(node', KnownAt(node', registry'))
            most == Limits["configurations"]
<1>0. /\ DOMAIN Limits = {"edits", "configurations", "faults"} /\ most \in Nat /\ Limits["faults"] \in Nat
      /\ left["configurations"] \in Nat /\ left["configurations"] <= most
      /\ left["faults"] \in Nat /\ left["faults"] <= Limits["faults"] /\ LeftOK
  BY LimitsAssumption DEF NodeInv, LeftOK
<1>a. ~Use("faults")
  BY <1>0, LeftAfterUse DEF Calm
<1>b. ASSUME left'["configurations"] = left["configurations"], left'["faults"] = left["faults"]
      PROVE  SyncOK(node, KnownAt(node, registry)) /\ (left["configurations"] = most => Fresh(node))
  BY <1>b DEF SyncInv, Calm, ConfiguredOnce
<1>c. Use("edits") \/ UNCHANGED left
        => left'["configurations"] = left["configurations"] /\ left'["faults"] = left["faults"]
  BY <1>0, LeftAfterUse
<1>1. CASE \/ StartNode \/ StopNode
           \/ \E enabled, otherPort \in BOOLEAN, mode \in Modes : SetConfiguration(enabled, mode, otherPort)
  <2>1. Use("configurations")
    BY <1>1 DEF StartNode, StopNode, SetConfiguration
  <2>2. left'["configurations"] = left["configurations"] - 1 /\ left'["faults"] = left["faults"]
    BY <1>0, <2>1, LeftAfterUse
  <2>3. left["configurations"] = most /\ left'["configurations"] # most /\ Calm /\ ConfiguredOnce
    BY <1>0, <2>2 DEF ConfiguredOnce, Calm
  <2>4. node'.status # "registered" /\ ~Verifies(Awaited(node'.client)) /\ InOrder(node')
    BY <1>1, <2>3, ConfiguresFresh DEF SyncInv
  <2>. QED  BY <2>3, <2>4 DEF SyncOK
<1>2. ASSUME NEW mode \in Modes, SetConfigurationFails(mode) PROVE Goal
  <2>1. left'["faults"] = left["faults"] - 1
    BY <1>0, <1>2 DEF SetConfigurationFails, LeftOK
  <2>. QED  BY <1>0, <2>1 DEF Calm
<1>3. ASSUME NEW rs \in SUBSET Resources, Use("edits"), registry' = registry,
             node' = SendIfRegistered(Update(node, rs))
      PROVE  Goal
  <2>1. SyncOK(node', KnownAt(node, registry)) /\ node'.host = node.host /\ (Fresh(node) => Fresh(node'))
    BY <1>3, <1>b, <1>c, UpdateSyncs DEF Use
  <2>. QED  BY <1>3, <1>b, <1>c, <2>1 DEF KnownAt
<1>4. ASSUME NEW r \in Resources, AddOrUpdate(r) PROVE Goal
  BY <1>3, <1>4 DEF AddOrUpdate
<1>5. CASE SetNetworkInterfaces
  <2>1. {Self} \cup (Devices \cap Present(node)) \in SUBSET Resources
    BY DEF Resources
  <2>. QED  BY <1>3, <1>5, <2>1 DEF SetNetworkInterfaces
<1>6. ASSUME NEW r \in Resources, Remove(r) PROVE Goal
  <2>1. Use("edits") /\ registry' = registry
    BY <1>6 DEF Remove
  <2>2. SyncOK(node', KnownAt(node, registry)) /\ node'.host = node.host /\ (Fresh(node) => Fresh(node'))
    BY <1>6, <1>b, <1>c, <2>1, RemoveSyncs
  <2>. QED  BY <1>b, <1>c, <2>1, <2>2 DEF KnownAt
<1>7. CASE SessionStep
  <2>1. UNCHANGED <<registry, left>>
    BY <1>7 DEF SessionStep, SessionProceeds
  <2>2. SyncOK(node', KnownAt(node, registry)) /\ node'.host = node.host /\ ~Fresh(node)
    BY <1>7, <1>b, <1>c, <2>1, SessionSyncs
  <2>. QED  BY <1>b, <1>c, <2>1, <2>2 DEF KnownAt
<1>8. CASE SessionError \/ ErrorResponse \/ RegistryRestart
  BY <1>8, <1>a DEF SessionError, ErrorResponse, RegistryRestart
<1>9. ASSUME NEW keepAlive \in BOOLEAN, Response(keepAlive) PROVE Goal
  <2>1. UNCHANGED left
    BY <1>9 DEF Response
  <2>. QED  BY <1>9, <1>b, <1>c, <2>1, ResponseSyncs
<1>10. CASE TimerExpires \/ HeartbeatExpires
  <2>1. UNCHANGED <<registry, left>>
    BY <1>10 DEF TimerExpires, HeartbeatExpires
  <2>2. SyncOK(node', KnownAt(node, registry)) /\ node'.host = node.host /\ (Fresh(node) => Fresh(node'))
    BY <1>10, <1>b, <1>c, <2>1, ExpirySyncs
  <2>. QED  BY <1>b, <1>c, <2>1, <2>2 DEF KnownAt
<1>11. CASE TimerFires
  <2>1. UNCHANGED <<registry, left>>
    BY <1>11 DEF TimerFires
  <2>2. SyncOK(node, KnownAt(node, registry)) /\ (left["configurations"] = most => Fresh(node))
    BY <1>b, <1>c, <2>1
  <2>3. SyncOK(node', KnownAt(node', registry)) /\ (Fresh(node) => Fresh(node'))
    BY <1>11, <2>2, TimerSyncs
  <2>. QED  BY <2>1, <2>2, <2>3 DEF KnownAt
<1>12. CASE HeartbeatFires
  <2>1. UNCHANGED <<registry, left>>
    BY <1>12 DEF HeartbeatFires
  <2>2. SyncOK(node', KnownAt(node, registry)) /\ node'.host = node.host /\ (Fresh(node) => Fresh(node'))
    BY <1>12, <1>b, <1>c, <2>1, HeartbeatSyncs
  <2>. QED  BY <1>b, <1>c, <2>1, <2>2 DEF KnownAt
<1>13. CASE RegistryResolved
  <2>1. UNCHANGED left
    BY <1>13 DEF RegistryResolved
  <2>. QED  BY <1>13, <1>b, <1>c, <2>1, ResolvedSyncs
<1>14. CASE UNCHANGED vars
  BY <1>14, <1>b, <1>c DEF vars, KnownAt
<1>. QED  BY <1>1, <1>2, <1>4, <1>5, <1>6, <1>7, <1>8, <1>9, <1>10, <1>11, <1>12, <1>13, <1>14 DEF Next

\* A node that was started once has its resources in the registry whenever all its
\* requests are answered, whatever it added, changed and removed in between: the
\* requests leave in the order that ends with the last revision of each.
THEOREM StartedNodeIsInSync == Spec => [](ConfiguredOnce => InSync)
<1>1. NodeInv /\ SyncInv => (ConfiguredOnce => InSync)
  <2>. SUFFICES ASSUME NodeInv, SyncInv, ConfiguredOnce, Calm, Idle, Heartbeating,
                       NEW r \in Present(node) \ node.changed
                PROVE  Known[r] = node.content[r]
    BY DEF InSync
  <2>1. Promised(node, KnownAt(node, registry), Awaited(node.client))
    BY DEF SyncInv, SyncOK, Heartbeating
  <2>2. Awaited(node.client) = <<>>
    <3>1. <<>> \o <<>> = <<>>
      OBVIOUS
    <3>. QED  BY <3>1 DEF Idle, Awaited, Busy
  <2>3. Lands(KnownAt(node, registry), <<>>, r, node.content[r])
    BY <2>1, <2>2 DEF Promised
  <2>4. KnownAt(node, registry)[r] = node.content[r]
    BY <2>3, Len(<<>>) = 0 DEF Lands
  <2>. QED  BY <2>4 DEF KnownAt, Known
<1>2. Init => NodeInv /\ SyncInv
  BY NodeInit, SyncInit
<1>3. NodeInv /\ SyncInv /\ [Next]_vars => (NodeInv /\ SyncInv)'
  BY NodeInvStep, SyncStep
<1>. QED  BY <1>1, <1>2, <1>3, PTL DEF Spec
=============================================================================
