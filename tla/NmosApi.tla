------------------------------ MODULE NmosApi ------------------------------
(***************************************************************************)
(* What rav::HttpServer answers for rav::nmos::Node: the routes of the     *)
(* node API and of the connection API, the resources that senders and      *)
(* receivers show there, and what a controller changes with PATCH.         *)
(*                                                                         *)
(* A request is handled and answered before the next one is read, and by   *)
(* the thread that changes the resources.  A path is the sequence of its   *)
(* sections.  The versions of resources and what is sent to a registry are *)
(* in NmosNode.                                                            *)
(***************************************************************************)
EXTENDS SessionDescription

CONSTANTS
  Devices, Senders, Receivers,   \* the objects; those of a sender's flow and source are named as it is
  Id,                            \* object |-> its UUID, which two devices may share
  DeviceOf,                      \* sender or receiver |-> the UUID of its device
  Nil, Garbage,                  \* the UUID that is none, and a text that is no UUID
  Streams,                       \* what a sender may be configured to send
  Interfaces,                    \* how many interfaces are configured
  Bodies,                        \* kind |-> the bodies that a controller sends
  MaxMembers                     \* bound: how many ids the lists of a device hold

VARIABLES
  lists,      \* kind |-> the objects that the node lists, in their order
  members,    \* device |-> the ids that it names as its senders and receivers
  config,     \* the configuration of a sender: stream and enabled; of a receiver: sdp and enabled
  resource,   \* the subscription that is shown: the id of the peer, and whether it is active
  shown,      \* the objects that know the node
  exchange,   \* the last PATCH: the object it was for, its members, the answer, and the objects whose
              \* configuration it left as it was, and that it left as they were
  taken       \* history: the devices that were taken away

nmos == <<lists, members, config, resource, shown, exchange, taken>>

Kinds == {"devices", "flows", "receivers", "senders", "sources"}
Node == [lists |-> lists, members |-> members, config |-> config, resource |-> resource, shown |-> shown]

(***************************************************************************)
(* The resources of the node                                               *)
(***************************************************************************)

\* find_device, find_flow, find_receiver, find_sender and find_source: the first with the id.
FirstOrNone(found) == IF found = <<>> THEN None ELSE Head(found)
Find(w, kind, id) == FirstOrNone(SelectSeq(w.lists[kind], LAMBDA o : Id[o] = id))

Push(w, kind, o) == [w EXCEPT !.lists[kind] = Append(@, o)]
PushNew(w, kind, o) == IF o \in ToSet(w.lists[kind]) THEN w ELSE Push(w, kind, o)

\* add_or_update_device, add_or_update_flow and add_or_update_source
AddOrUpdateDevice(w, d) ==
  IF \E o \in ToSet(w.lists["devices"]) \ {d} : Id[o] = Id[d] THEN w ELSE PushNew(w, "devices", d)
AddOrUpdateFlow(w, o) == PushNew(w, "flows", o)
AddOrUpdateSource(w, o) == IF Find(w, "sources", Id[o]) = None THEN Push(w, "sources", o) ELSE w

\* add_sender_to_device and add_receiver_to_device
AddToDevice(w, kind, o) ==
  LET d == Find(w, "devices", DeviceOf[o])
  IN  IF d = None THEN w ELSE Push([w EXCEPT !.members[d][kind] = Append(@, Id[o])], kind, o)

\* add_or_update_sender and add_or_update_receiver: a sender is known by its id.
AddOrUpdateSender(w, s) == IF Find(w, "senders", Id[s]) = None THEN AddToDevice(w, "senders", s) ELSE w
AddOrUpdateReceiver(w, r) == IF r \in ToSet(w.lists["receivers"]) THEN w ELSE AddToDevice(w, "receivers", r)

\* remove_flow, remove_receiver, remove_sender and remove_source: the device goes on naming it.
RemoveFrom(w, kind, o) == [w EXCEPT !.lists[kind] = SelectSeq(@, LAMBDA other : other # o)]

\* Mutant of RemoveDevice: what belongs to the device stays.
RemoveDeviceAlone(w, d) == RemoveFrom(w, "devices", d)

\* remove_device, with all that belongs to a device of this id.
RemoveDevice(w, d) ==
  LET others(kind) == SelectSeq(w.lists[kind], LAMBDA o : DeviceOf[o] # Id[d])
  IN  RemoveFrom([w EXCEPT !.lists = [kind \in Kinds |-> IF kind = "devices" THEN @[kind] ELSE others(kind)]], "devices", d)

(***************************************************************************)
(* Senders and receivers                                                   *)
(***************************************************************************)

\* RavennaSender::update_nmos and RavennaReceiver::update_nmos
UpdateSenderNmos(w, s) ==
  LET updated == [w EXCEPT !.resource[s].active = w.config[s].enabled]
  IN  IF s \in w.shown THEN AddOrUpdateSender(AddOrUpdateFlow(AddOrUpdateSource(updated, s), s), s) ELSE updated
UpdateReceiverNmos(w, r) ==
  LET updated == [w EXCEPT !.resource[r].active = w.config[r].enabled]
  IN  IF r \in w.shown THEN AddOrUpdateReceiver(updated, r) ELSE updated

\* What RavennaSender::set_configuration accepts; all else holds of the values that occur.
IsValidSender(c) ==
  LET enabled == {i \in DOMAIN c.stream.dsts : c.stream.dsts[i].enabled}
  IN  /\ c.stream.name # <<>> /\ c.stream.dsts # <<>>
      /\ c.enabled => enabled # {} /\ \A i \in enabled : c.stream.dsts[i].address # UnspecifiedAddress

\* set_configuration of both: whatever differs of a sender is shown.
SetSender(w, s, c) == IF w.config[s] = c THEN w ELSE UpdateSenderNmos([w EXCEPT !.config[s] = c], s)
SetReceiver(w, r, c) ==
  LET set == [w EXCEPT !.config[r] = c]
  IN  IF /\ w.config[r].enabled = c.enabled
         /\ CreateRtpReceiverParameters(w.config[r].sdp) = CreateRtpReceiverParameters(c.sdp)
      THEN set ELSE UpdateReceiverNmos(set, r)

(***************************************************************************)
(* What is shown of a session description                                  *)
(***************************************************************************)

AddressOf(media) == IF media.connections = <<>> THEN None ELSE Head(media.connections).address
SourceOf(media) ==
  IF media.filters = <<>> THEN None ELSE IF Head(media.filters).sources = <<>> THEN None ELSE Head(Head(media.filters).sources)

\* get_sender_transport_params_from_sdp
SenderParams(sdp) ==
  [i \in DOMAIN sdp.media |-> [address |-> AddressOf(sdp.media[i]), source |-> SourceOf(sdp.media[i]),
                               port |-> sdp.media[i].port, enabled |-> TRUE]]

\* get_receiver_transport_params_from_sdp: at least as many as there are interfaces.
ReceiverParams(sdp) ==
  LET interface == IF sdp.origin = None THEN None ELSE sdp.origin.address
  IN  [i \in 1..Max({Len(sdp.media), Interfaces}) |->
        IF i <= Len(sdp.media) THEN [interface |-> interface] @@ SenderParams(sdp)[i]
        ELSE [interface |-> UnspecifiedAddress, address |-> None, source |-> None, port |-> 5004, enabled |-> FALSE]]

\* get_transport_file
TransportFile(w, o) == IF o \in Senders THEN GenerateSdp(w.config[o].stream) ELSE w.config[o].sdp

Text(sdp) == IF CanShow(sdp) THEN ShowSession(sdp) ELSE None

\* The UUID of a peer becomes text, or where it is not told how, its octets.
Octets(id) == IF id = None THEN None ELSE <<"octets", id>>

\* What staged and active show.
Connection(w, o, sdp) ==
  LET subscribed == [peer |-> w.resource[o].peer, master_enable |-> w.resource[o].active]
  IN  IF o \in Senders THEN [transport_params |-> SenderParams(sdp)] @@ subscribed
      ELSE [transport_params |-> ReceiverParams(sdp), transport_file |-> Text(sdp)] @@ subscribed

(***************************************************************************)
(* Routes                                                                  *)
(***************************************************************************)

Route(method, pattern, what, kind, links) ==
  [method |-> method, pattern |-> pattern, what |-> what, kind |-> kind, links |-> links]

Parameters == {"{version}", "{device_id}", "{flow_id}", "{receiver_id}", "{sender_id}", "{source_id}"}
IdName == [devices |-> "{device_id}", flows |-> "{flow_id}", receivers |-> "{receiver_id}",
           senders |-> "{sender_id}", sources |-> "{source_id}"]

NodeVersions == <<"v1.2", "v1.3">>
ConnectionVersions == <<"v1.0", "v1.1">>
NodePath(sections) == <<"x-nmos", "node", "{version}">> \o sections
ConnectionPath(sections) == <<"x-nmos", "connection", "{version}">> \o sections

\* Those that only list what is below them
NodeIndexes ==
  <<Route("GET", <<>>, "index", "node", <<"x-nmos">>),
    Route("GET", <<"x-nmos">>, "index", "node", <<"node", "connection">>),
    Route("GET", <<"x-nmos", "node">>, "index", "node", NodeVersions),
    Route("GET", NodePath(<<>>), "index", "node", <<"self", "sources", "flows", "devices", "senders", "receivers">>),
    Route("GET", NodePath(<<"self">>), "self", "node", <<>>)>>

\* The resources of a kind
ResourceRoutes(kind) ==
  <<Route("GET", NodePath(<<kind>>), "list", kind, <<>>),
    Route("GET", NodePath(<<kind, IdName[kind]>>), "show", kind, <<>>)>>
DeviceRoutes == ResourceRoutes("devices")
FlowRoutes == ResourceRoutes("flows")
ReceiverRoutes == Append(ResourceRoutes("receivers"),
  Route("OPTIONS", NodePath(<<"receivers", "{receiver_id}", "target">>), "target", "receivers", <<>>))
SenderRoutes == ResourceRoutes("senders")
SourceRoutes == ResourceRoutes("sources")

ConnectionIndexes ==
  <<Route("GET", <<"x-nmos", "connection">>, "index", "connection", ConnectionVersions),
    Route("GET", ConnectionPath(<<>>), "index", "connection", <<"bulk", "single">>),
    Route("GET", ConnectionPath(<<"bulk">>), "index", "connection", <<"senders", "receivers">>),
    Route("GET", ConnectionPath(<<"single">>), "index", "connection", <<"senders", "receivers">>)>>

\* What there is of all senders or receivers, and of one of them
BulkRoutes(kind) ==
  <<Route("GET", ConnectionPath(<<"bulk", kind>>), "forbidden", kind, <<>>),
    Route("OPTIONS", ConnectionPath(<<"bulk", kind>>), "options", kind, <<>>),
    Route("GET", ConnectionPath(<<"single", kind>>), "list", kind, <<>>)>>
SinglePath(kind, sections) == ConnectionPath(<<"single", kind, IdName[kind]>> \o sections)
SingleRoutes(kind, parts) ==
  <<Route("GET", SinglePath(kind, <<>>), "parts", kind, parts),
    Route("GET", SinglePath(kind, <<"staged">>), "staged", kind, <<>>),
    Route("OPTIONS", SinglePath(kind, <<"staged">>), "part", kind, <<>>),
    Route("PATCH", SinglePath(kind, <<"staged">>), "patch", kind, <<>>),
    Route("GET", SinglePath(kind, <<"active">>), "active", kind, <<>>)>>
TypeRoutes(kind) ==
  <<Route("GET", SinglePath(kind, <<"constraints">>), "part", kind, <<>>),
    Route("GET", SinglePath(kind, <<"transporttype">>), "part", kind, <<>>)>>

ReceiverParts == SingleRoutes("receivers", <<"constraints", "staged", "active", "transporttype">>)
SenderParts == SingleRoutes("senders", <<"constraints", "staged", "active", "transportfile", "transporttype">>)
SenderFile == <<Route("GET", SinglePath("senders", <<"transportfile">>), "file", "senders", <<>>)>>
EverythingElse == <<Route("GET", <<"**">>, "none", "node", <<>>)>>

NodeRoutes == NodeIndexes \o DeviceRoutes \o FlowRoutes \o ReceiverRoutes \o SenderRoutes \o SourceRoutes
ConnectionRoutes ==
  ConnectionIndexes \o BulkRoutes("receivers") \o ReceiverParts \o TypeRoutes("receivers")
    \o BulkRoutes("senders") \o SenderParts \o SenderFile \o TypeRoutes("senders")

\* Mutant of Routes: what answers everything else comes first.
RoutesCatchAllFirst == EverythingElse \o NodeRoutes \o ConnectionRoutes

\* In the order in which they were inserted
Routes == NodeRoutes \o ConnectionRoutes \o EverythingElse

(***************************************************************************)
(* PathMatcher and HttpRouter                                              *)
(***************************************************************************)

\* How many sections of a path and a pattern go together, from the first on.
InCommon(path, pattern) ==
  LET both == Min({Len(path), Len(pattern)})
      apart == {i \in 1..both : path[i] # pattern[i] /\ pattern[i] # "*" /\ pattern[i] \notin Parameters}
  IN  IF apart = {} THEN both ELSE Min(apart) - 1

\* match.  A wildcard for all that follows is one only at the end.
Matches(path, pattern) ==
  \/ Len(path) = Len(pattern) /\ InCommon(path, pattern) = Len(pattern)
  \/ /\ pattern # <<>> /\ "**" \notin ToSet(Front(pattern)) /\ Last(pattern) = "**"
     /\ InCommon(path, Front(pattern)) = Len(pattern) - 1

\* What the parameters of a pattern stand for.  They are set one by one, before it is
\* known whether all of the path matches.
Taken(path, pattern) ==
  LET at == {i \in 1..InCommon(path, pattern) : pattern[i] \in Parameters /\ path[i] # pattern[i]}
  IN  [name \in {pattern[i] : i \in at} |-> path[CHOOSE i \in at : pattern[i] = name]]

\* HttpRouter::match: the first route that matches, with the parameters of all that were tried.
RoutesOf == [method \in {"GET", "OPTIONS", "PATCH"} |-> SelectSeq(Routes, LAMBDA route : route.method = method)]
TakenByAll(path, routes) == FoldLeft(LAMBDA sum, route : Taken(path, route.pattern) @@ sum, <<>>, routes)
FirstMatch(matching, routes, path) ==
  IF matching = {} THEN [route |-> None, parameters |-> TakenByAll(path, routes)]
  ELSE [route |-> routes[Min(matching)], parameters |-> TakenByAll(path, SubSeq(routes, 1, Min(matching)))]
MatchAmong(routes, path) == FirstMatch({i \in DOMAIN routes : Matches(path, routes[i].pattern)}, routes, path)
Match(method, path) == MatchAmong(RoutesOf[method], path)

(***************************************************************************)
(* Handlers: an answer is a status, the paths below that it lists, and     *)
(* what it shows.                                                          *)
(***************************************************************************)

Response(status, links, value) == [status |-> status, links |-> links, value |-> value]
Error(status) == Response(status, <<>>, None)
Ok(value) == Response(200, <<>>, value)

\* get_valid_api_version_from_parameters
HasValidVersion(route, parameters) ==
  "{version}" \in ToSet(route.pattern) =>
    /\ "{version}" \in DOMAIN parameters
    /\ parameters["{version}"] \in ToSet(IF route.pattern[2] = "node" THEN NodeVersions ELSE ConnectionVersions)

\* A resource of the node API
ShowResource(w, kind, o) ==
  CASE kind = "devices" -> Ok(w.members[o])
    [] kind = "senders" -> Ok([peer |-> Octets(w.resource[o].peer), active |-> w.resource[o].active])
    [] kind = "receivers" -> Ok(w.resource[o])
    [] OTHER -> Ok(None)

\* The handlers that answer for one resource.  A text that is no UUID throws.
ShowFile(text) == IF text = None THEN Error(204) ELSE Ok(text)

\* The handlers that answer for one resource.  A text that is no UUID throws.
AnswerAbout(w, route, id, o, file) ==
  CASE id = Garbage -> Error(500)
    [] id = Nil /\ route.what \in {"show", "target"} -> Error(400)
    [] route.what = "target" -> Ok(None)
    [] o = None -> Error(404)
    [] route.what = "show" -> ShowResource(w, route.kind, o)
    [] route.what = "parts" -> Response(200, route.links, None)
    [] route.what = "part" -> Ok(None)
    [] file = Failed -> Error(500)
    [] route.what = "file" -> ShowFile(Text(file))
    [] route.what = "staged" /\ route.kind = "senders" -> Ok([Connection(w, o, file) EXCEPT !.peer = Octets(@)])
    [] OTHER -> Ok(Connection(w, o, file))
AnswerForObject(w, route, id, o) == AnswerAbout(w, route, id, o, TransportFile(w, o))
AnswerFor(w, route, id) == AnswerForObject(w, route, id, Find(w, route.kind, id))

\* The other handlers
AnswerOf(w, route) ==
  CASE route.what = "list" -> Response(200, [i \in DOMAIN w.lists[route.kind] |-> Id[w.lists[route.kind][i]]], None)
    [] route.what = "index" -> Response(200, route.links, None)
    [] route.what = "forbidden" -> Error(403)
    [] route.what = "none" -> Error(404)
    [] OTHER -> Ok(None)

IsOfOne(route) == route.what \in {"show", "target", "parts", "part", "staged", "active", "file", "patch"}

(***************************************************************************)
(* PATCH.  The members of its object are a function of their names.        *)
(***************************************************************************)

Keys == [senders |-> {"activation", "receiver_id", "transport_params", "master_enable"},
         receivers |-> {"activation", "sender_id", "transport_params", "transport_file", "master_enable"}]
PeerName == [senders |-> "receiver_id", receivers |-> "sender_id"]

\* The first of the checks that fails gives the status.
Check(fails, status) == [fails |-> fails, status |-> status]
Failing(checks) == SelectSeq(checks, LAMBDA c : c.fails)

\* Before on_patch_request.  A body that is not an object is a bad request, for a sender
\* an exception; so is an activation whose mode is null.
CheckBody(kind, body) ==
  LET mode == IF "activation" \in DOMAIN body.members THEN body.members["activation"] ELSE "activate_immediate"
  IN  Failing(<<Check(body.kind = "text", 500), Check(body.kind = "array", IF kind = "senders" THEN 500 ELSE 400),
                Check(~DOMAIN body.members \subseteq Keys[kind], 400), Check(mode = "null", 500),
                Check(mode \notin {"none", "activate_immediate"}, 501)>>)

\* What handle_patch_request checks of the transport parameters of a sender.
CheckSenderParams(given) ==
  <<Check("number" \in given, 400), Check("source_ip" \in given, 400), Check("destination_ip" \in given, 400),
    Check("destination_port" \in given, 501), Check("rtp_enabled" \in given, 400)>>

\* What it checks of the transport file of a receiver, which has a type and data unless it throws.
CheckTransportFile(file, sdp) ==
  <<Check(None \in {file.type, file.data}, 500), Check(file.type # <<"application/sdp">>, 400),
    Check(file.data = <<>>, 400), Check(sdp = Failed, 400)>>

\* The id of the peer is set first.  One that is no text is none, one that is no UUID throws.
PeerGiven(kind, m) == PeerName[kind] \in DOMAIN m
WithPeer(w, kind, o, m) ==
  IF PeerGiven(kind, m) /\ m[PeerName[kind]] # Garbage THEN [w EXCEPT !.resource[o].peer = m[PeerName[kind]]] ELSE w

Enabled(w, o, m) == IF "master_enable" \in DOMAIN m THEN m["master_enable"] = "on" ELSE w.config[o].enabled
CheckMembers(kind, m) ==
  <<Check(PeerGiven(kind, m) /\ m[PeerName[kind]] = Garbage, 500),
    Check("master_enable" \in DOMAIN m /\ m["master_enable"] = "number", 500)>>

\* RavennaSender::handle_patch_request
PatchSender(w, s, m) ==
  LET new == [w.config[s] EXCEPT !.enabled = Enabled(w, s, m)]
      checks == CheckMembers("senders", m)
                  \o (IF "transport_params" \in DOMAIN m THEN CheckSenderParams(m["transport_params"]) ELSE <<>>)
                  \o <<Check(~IsValidSender(new), 500)>>
      with == WithPeer(w, "senders", s, m)
  IN  [w |-> IF Failing(checks) = <<>> THEN SetSender(with, s, new) ELSE with, failing |-> Failing(checks)]

\* What is described by the transport file that is given.
GivenSdp(m) ==
  IF "transport_file" \notin DOMAIN m THEN None
  ELSE IF m["transport_file"].data \in {None, <<>>} THEN None ELSE ParseSession(m["transport_file"].data)

CheckReceiver(m, sdp) ==
  CheckMembers("receivers", m) \o (IF "transport_file" \in DOMAIN m THEN CheckTransportFile(m["transport_file"], sdp) ELSE <<>>)

\* The new configuration of a receiver
Patched(w, r, m, sdp) ==
  [enabled |-> Enabled(w, r, m), sdp |-> IF sdp \in {None, Failed} THEN w.config[r].sdp ELSE sdp]

\* Mutant of PatchReceiverWith: whether it is enabled is set before the file is looked at.
PatchReceiverAsItComes(w, r, m, sdp) ==
  [w |-> SetReceiver(WithPeer(w, "receivers", r, m), r, Patched(w, r, m, sdp)), failing |-> Failing(CheckReceiver(m, sdp))]

\* RavennaReceiver::handle_patch_request.  Transport parameters are not looked at.
PatchReceiverWith(w, r, m, sdp) ==
  LET with == WithPeer(w, "receivers", r, m)
      failing == Failing(CheckReceiver(m, sdp))
  IN  [w |-> IF failing = <<>> THEN SetReceiver(with, r, Patched(w, r, m, sdp)) ELSE with, failing |-> failing]
PatchReceiver(w, r, m) == PatchReceiverWith(w, r, m, GivenSdp(m))

\* The handlers of PATCH: what is changed, and what the parts of the object show then.
AnswerPatched(patched, route, id) ==
  [w |-> patched.w,
   answer |-> IF patched.failing # <<>> THEN Error(Head(patched.failing).status) ELSE AnswerFor(patched.w, route, id)]
AnswerPatch(w, route, id, body) ==
  LET o == Find(w, route.kind, id)
      wrong == CheckBody(route.kind, body)
  IN  IF id = Garbage THEN [w |-> w, answer |-> Error(500)]
      ELSE IF o = None THEN [w |-> w, answer |-> Error(404)]
      ELSE IF wrong # <<>> THEN [w |-> w, answer |-> Error(Head(wrong).status)]
      ELSE AnswerPatched(IF route.kind = "senders" THEN PatchSender(w, o, body.members) ELSE PatchReceiver(w, o, body.members),
                         route, id)

\* HttpServer::on_request up to the handler: a request whose path is taken by no route, or
\* lacks what the route needs, is refused.
Refusal(match) ==
  IF match.route = None THEN 404
  ELSE IF ~HasValidVersion(match.route, match.parameters) THEN 400
  ELSE IF IsOfOne(match.route) /\ IdName[match.route.kind] \notin DOMAIN match.parameters THEN 400
  ELSE 0
IdIn(match) == match.parameters[IdName[match.route.kind]]

\* What a request is answered that only reads
Respond(w, match) ==
  IF Refusal(match) # 0 THEN Error(Refusal(match))
  ELSE IF IsOfOne(match.route) THEN AnswerFor(w, match.route, IdIn(match)) ELSE AnswerOf(w, match.route)
Get(w, path) == Respond(w, Match("GET", path))

\* and one that changes something
OnPatch(w, match, body) ==
  IF Refusal(match) # 0 THEN [w |-> w, answer |-> Error(Refusal(match))]
  ELSE AnswerPatch(w, match.route, IdIn(match), body)

(***************************************************************************)
(* Actions                                                                 *)
(***************************************************************************)

NodeBecomes(w) ==
  lists' = w.lists /\ members' = w.members /\ config' = w.config /\ resource' = w.resource /\ shown' = w.shown

NoExchange == [object |-> None, members |-> <<>>, answer |-> None, kept |-> {}, untouched |-> {}]

\* A sender or receiver that was not configured yet
NewConfig(o) ==
  IF o \in Senders THEN [stream |-> CHOOSE c \in Streams : TRUE, enabled |-> FALSE] ELSE [sdp |-> NewSession, enabled |-> FALSE]
NewResource == [peer |-> None, active |-> FALSE]

\* set_nmos_node of both
Known(w, o) ==
  LET known == [w EXCEPT !.shown = @ \cup {o}]
  IN  IF o \in Senders THEN AddOrUpdateSender(AddOrUpdateFlow(AddOrUpdateSource(known, o), o), o)
      ELSE UpdateReceiverNmos(known, o)

\* A node with its device and the senders and receivers given, none configured
InitNmos(objects) ==
  LET empty == [lists |-> [kind \in Kinds |-> <<>>],
                members |-> [d \in Devices |-> [senders |-> <<>>, receivers |-> <<>>]],
                config |-> [o \in Senders \cup Receivers |-> NewConfig(o)],
                resource |-> [o \in Senders \cup Receivers |-> NewResource], shown |-> {}]
      w == FoldLeft(Known, AddOrUpdateDevice(empty, CHOOSE d \in Devices : TRUE), SetToSeq(objects))
  IN  /\ lists = w.lists /\ members = w.members /\ config = w.config /\ resource = w.resource /\ shown = w.shown
      /\ exchange = NoExchange /\ taken = {}

\* What the application does
Changes(w) == NodeBecomes(w) /\ exchange' = NoExchange /\ UNCHANGED taken

AddDevice(d) == Changes(AddOrUpdateDevice(Node, d))
TakeDevice(d) ==
  /\ d \in ToSet(lists["devices"])
  /\ NodeBecomes(RemoveDevice(Node, d)) /\ exchange' = NoExchange /\ taken' = taken \cup {d}

HasRoom == \A d \in Devices, kind \in {"senders", "receivers"} : Len(members[d][kind]) < MaxMembers

SetNmosNode(o) == o \notin shown /\ HasRoom /\ Changes(Known(Node, o))

\* The destructors.  What has the same id afterwards is what is restored.
Destroy(o) ==
  LET new == [Node EXCEPT !.shown = @ \ {o}, !.config[o] = NewConfig(o), !.resource[o] = NewResource]
  IN  /\ o \in shown
      /\ Changes(IF o \in Senders THEN RemoveFrom(RemoveFrom(RemoveFrom(new, "senders", o), "flows", o), "sources", o)
                 ELSE RemoveFrom(new, "receivers", o))

\* What the application configures
Configure(o) ==
  /\ HasRoom
  /\ IF o \in Senders
     THEN \E c \in [stream : Streams, enabled : BOOLEAN] : IsValidSender(c) /\ Changes(SetSender(Node, o, c))
     ELSE Changes(SetReceiver(Node, o, [config[o] EXCEPT !.enabled = ~@]))

\* A controller sends a PATCH.
Patch(kind, id, body) ==
  \E done \in {OnPatch(Node, Match("PATCH", <<"x-nmos", "connection", "v1.1", "single", kind, id, "staged">>), body)} :
    /\ NodeBecomes(done.w)
    /\ exchange' = [object |-> Find(Node, kind, id), members |-> body.members, answer |-> done.answer,
                    kept |-> {o \in DOMAIN config : done.w.config[o] = config[o]},
                    untouched |-> {o \in DOMAIN resource : done.w.resource[o] = resource[o]}]
    /\ UNCHANGED taken

\* The senders and receivers given come, go and change.
NextNmos(objects) ==
  \/ \E d \in Devices : AddDevice(d) \/ TakeDevice(d)
  \/ \E o \in objects : SetNmosNode(o) \/ Destroy(o) \/ Configure(o)
  \/ \E o \in objects : LET kind == IF o \in Senders THEN "senders" ELSE "receivers"
                        IN  \E body \in Bodies[kind] : Patch(kind, Id[o], body)

(***************************************************************************)
(* Properties                                                              *)
(***************************************************************************)

CanBeDescribed(o) == TransportFile(Node, o) # Failed

\* Of what is listed: the device of a sender or receiver, which names it, and the flow
\* and the source of a sender.
MembersAreListed ==
  \A kind \in {"senders", "receivers"} : \A o \in ToSet(lists[kind]) :
    /\ \E d \in ToSet(lists["devices"]) : Id[d] = DeviceOf[o] /\ Id[o] \in ToSet(members[d][kind])
    /\ kind = "senders" => o \in ToSet(lists["flows"]) \cap ToSet(lists["sources"])

\* What a device names is listed, of that kind and with that device, but for what the
\* node does not know any more: remove_sender and remove_receiver leave its lists as they
\* are, and so does remove_device, after which it may be added again
\* (nmos_node.cpp:1972-2000, 2063-2074, 2130-2140).
NamedAreListed ==
  \A d \in ToSet(lists["devices"]), kind \in {"senders", "receivers"} : \A id \in ToSet(members[d][kind]) :
    \E o \in Senders \cup Receivers :
      /\ o \in (IF kind = "senders" THEN Senders ELSE Receivers) /\ Id[o] = id /\ DeviceOf[o] = Id[d]
      /\ o \in ToSet(lists[kind]) \/ o \notin shown \/ d \in taken

\* Whatever is added, removed and restored in whatever order: the device, the flow and
\* the source that a listed sender or receiver refers to are listed too, and what a
\* device names is unless it was removed (nmos_node.cpp:1744, 1972); and every path that
\* an answer lists, from the root on, is answered: the nodes, their resources and what
\* can be done with them.  In bulk nothing can be done, and what a sender cannot describe
\* is not shown (nmos_node.cpp:374, http_router.hpp:59).  A device goes on naming the
\* senders and receivers that were removed, for which the node API answers 404.
LinksResolve ==
  LET below(paths) == UNION {{path \o <<link>> : link \in ToSet(Get(Node, path).links)} : path \in paths}
      levels == FoldLeft(LAMBDA found, i : Append(found, below(Last(found))), <<{<<>>}>>, <<1, 2, 3, 4, 5, 6>>)
  IN  /\ MembersAreListed /\ NamedAreListed
      /\ \A path \in UNION ToSet(levels) :
           \/ Get(Node, path).status = 200
           \/ "bulk" \in ToSet(path)
           \/ \E s \in Senders : Id[s] \in ToSet(path) /\ ~CanBeDescribed(s)

\* How staged and the node API show the id of the peer: that of a receiver as the PATCH
\* was answered, as text, but that of a sender as the octets of its UUID, which no other
\* route does (nmos_node.cpp:1159, nmos_sender.hpp:94; as text at 1239 and 1279).
AlsoShown(kind, peer) == IF kind = "senders" THEN Octets(peer) ELSE peer

\* A PATCH that is answered with success has done what it asked for, and what it was
\* answered is what active shows from then on, and staged and the node API with the id of
\* the peer in the form that AlsoShown says.  One that is refused changes no configuration,
\* unless the sender cannot be described, which is not looked at before
\* (nmos_node.cpp:1147, ravenna_receiver.cpp:309), and none changes another object.
TakesEffect(o) ==
  LET m == exchange.members
      value == exchange.answer.value
      kind == IF o \in Senders THEN "senders" ELSE "receivers"
      part(name) == Get(Node, <<"x-nmos", "connection", "v1.0", "single", kind, Id[o], name>>).value
  IN  /\ part("active") = value
      /\ part("staged") = [value EXCEPT !.peer = AlsoShown(kind, @)]
      /\ Get(Node, <<"x-nmos", "node", "v1.3", kind, Id[o]>>).value =
           [peer |-> AlsoShown(kind, value.peer), active |-> value.master_enable]
      /\ config[o].enabled = value.master_enable
      /\ "master_enable" \in DOMAIN m => value.master_enable = (m["master_enable"] = "on")
      /\ PeerGiven(kind, m) => value.peer = m[PeerName[kind]]
      /\ "transport_file" \in DOMAIN m => value.transport_file = m["transport_file"].data

PatchTakesEffect ==
  exchange # NoExchange =>
    /\ (Senders \cup Receivers) \ {exchange.object} \subseteq exchange.kept \cap exchange.untouched
    /\ exchange.object # None =>
         IF exchange.answer.status = 200 THEN TakesEffect(exchange.object)
         ELSE CanBeDescribed(exchange.object) => exchange.object \in exchange.kept
=============================================================================
