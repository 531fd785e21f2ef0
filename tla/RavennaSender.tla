--------------------------- MODULE RavennaSender ---------------------------
(***************************************************************************)
(* rav::RavennaSender: what is streamed, served over RTSP, advertised over *)
(* DNS-SD, announced and shown over NMOS follows its configuration.        *)
(*                                                                         *)
(* The operators take and give the state w of a node, as one handler of    *)
(* the node often works on several senders.  A destination stands for the  *)
(* list of them, NoAddress for a list with an address still to be made.    *)
(***************************************************************************)
EXTENDS Sequences, FiniteSets, SequencesExt, TLC, Naturals

-----------------------------------------------------------------------------
(***************************************************************************)
(* The RTSP sides of a RAVENNA node.                                       *)
(*                                                                         *)
(* rav::rtsp::Server: its paths, who answers the requests for each, and   *)
(* who asked for it, to be told of changes.  A path without handler and    *)
(* connections is no different from one that is not in paths_.             *)
(*                                                                         *)
(* rav::RavennaRtspClient: the sessions that receivers of a node want to   *)
(* be told about, and what is asked of the hosts that offer them.  In the  *)
(* state w of a node, w.found gives for the sessions that are discovered   *)
(* the host of each; w.client holds the sessions subscribed to, for each   *)
(* connection the requests that its host has still to read, and the hosts  *)
(* whose connection is lost.                                               *)
(***************************************************************************)
CONSTANTS NoHandler, NoHost, NoSdp

NoContext == [handler |-> NoHandler, connections |-> {}]

\* register_handler: whoever was there before is replaced.
RegisterHandler(paths, path, handler) == [paths EXCEPT ![path].handler = handler]

\* unregister_handler: those who asked for its paths remain.
UnregisterHandler(paths, handler) ==
  [path \in DOMAIN paths |->
     IF paths[path].handler = handler THEN [paths[path] EXCEPT !.handler = NoHandler] ELSE paths[path]]

\* Mutant of OnRequest: only who gets an answer is told of changes.
OnRequestServed(paths, path, connection) ==
  IF paths[path].handler = NoHandler THEN paths
  ELSE [paths EXCEPT ![path].connections = @ \cup {connection}]

\* on_request up to the answer: whoever asks is told of changes from then on,
\* also of a path that has no handler yet.
OnRequest(paths, path, connection) == [paths EXCEPT ![path].connections = @ \cup {connection}]

\* on_disconnect
OnDisconnect(paths, connection) ==
  [path \in DOMAIN paths |-> [paths[path] EXCEPT !.connections = @ \ {connection}]]

-----------------------------------------------------------------------------

NewClient == [sessions |-> <<>>, asked |-> <<>>, lost |-> {}]

Request(method, name) == [method |-> method, name |-> name]

\* find_or_create_connection: one that is lost is found too, and never made anew.
FindOrCreateConnection(w, host) ==
  IF host \in DOMAIN w.client.asked THEN w ELSE [w EXCEPT !.client.asked = (host :> <<>>) @@ @]

\* async_describe and async_teardown: from a lost connection nothing is sent.
Ask(w, host, requests) ==
  IF host \in w.client.lost THEN w ELSE [w EXCEPT !.client.asked[host] = @ \o requests]

\* update_session_with_service
UpdateSessionWithService(w, name, host) ==
  Ask(FindOrCreateConnection([w EXCEPT !.client.sessions[name].host = host], host),
      host, <<Request("DESCRIBE", name)>>)

\* subscribe_to_session, but for telling the subscriber of a description that is known.
SubscribeToSession(w, id, name) ==
  LET new == [subscribers |-> {id}, host |-> NoHost, sdp |-> NoSdp]
      added == [w EXCEPT !.client.sessions = (name :> new) @@ @]
  IN  IF name \in DOMAIN w.client.sessions
      THEN [w EXCEPT !.client.sessions[name].subscribers = @ \cup {id}]
      ELSE IF name \in DOMAIN w.found THEN UpdateSessionWithService(added, name, w.found[name]) ELSE added

\* do_maintenance: sessions without subscribers are torn down and forgotten.
DoMaintenance(w) ==
  LET sessions == w.client.sessions
      empty == {name \in DOMAIN sessions : sessions[name].subscribers = {}}
      TornDown(host) == SetToSeq({Request("TEARDOWN", name) : name \in {n \in empty : sessions[n].host = host}})
  IN  [w EXCEPT !.client.asked = [host \in DOMAIN @ |->
                                    IF host \in w.client.lost THEN @[host] ELSE @[host] \o TornDown(host)],
                !.client.sessions = [name \in DOMAIN sessions \ empty |-> sessions[name]]]

\* unsubscribe_from_all_sessions
UnsubscribeFromAllSessions(w, id) ==
  DoMaintenance([w EXCEPT !.client.sessions =
                   [name \in DOMAIN @ |-> [@[name] EXCEPT !.subscribers = @ \ {id}]]])

\* ravenna_session_discovered.  That a session is gone does not matter to the client.
RavennaSessionDiscovered(w, name, host) ==
  IF name \in DOMAIN w.client.sessions THEN UpdateSessionWithService(w, name, host) ELSE w

-----------------------------------------------------------------------------
CONSTANTS
  Formats,       \* the audio formats that can be sent
  Nodes,
  WriterSlots,   \* k_max_num_writers
  NoName, NoAddress, NoInterface, NoFormat, NotShown

SenderFields == {"name", "enabled", "dst", "ttl", "format", "packet"}

ByName(name) == <<"by-name", name>>
ById(id) == <<"by-id", id>>

Without(f, key) == [k \in DOMAIN f \ {key} |-> f[k]]

(***************************************************************************)
(* rtp::AudioSender, as far as who streams what                            *)
(***************************************************************************)

\* add_writer: when all are in use nothing happens.
AddWriter(w, id, parameters) ==
  IF id \in DOMAIN w.writers \/ Cardinality(DOMAIN w.writers) >= WriterSlots THEN w
  ELSE [w EXCEPT !.writers = (id :> parameters) @@ @]

\* remove_writer
RemoveWriter(w, id) == [w EXCEPT !.writers = Without(@, id)]

\* set_ttl
SetTtl(w, id, ttl) == IF id \in DOMAIN w.writers THEN [w EXCEPT !.writers[id].ttl = ttl] ELSE w

(***************************************************************************)
(* The parts of a sender                                                   *)
(***************************************************************************)

\* The constructor, before the addresses that it may generate.
NewSender(w, sid, interface) ==
  [name |-> NoName, enabled |-> FALSE, dst |-> NoAddress, ttl |-> 0, format |-> NoFormat, packet |-> 0,
   sid |-> sid, path |-> NoName, advertised |-> FALSE, advertiser |-> w.advertiser,
   gm |-> w.gm, interface |-> interface, shown |-> NotShown]

\* generate_auto_addresses_if_needed
GenerateAddress(w, id) ==
  LET s == w.senders[id]
  IN  IF s.dst = NoAddress /\ s.interface # NoInterface
      THEN [w EXCEPT !.senders[id].dst = <<s.interface, id>>] ELSE w

\* generate_sdp.  What is the same in all, or can be told from the rest, is left out.
Sdp(s) == [name |-> s.name, sid |-> s.sid, dst |-> s.dst, format |-> s.format, packet |-> s.packet,
           source |-> s.interface, gm |-> s.gm]

StreamParameters(s) ==
  [dst |-> s.dst, format |-> s.format, packet |-> s.packet, ttl |-> s.ttl, interface |-> s.interface]

\* restart_streaming
RestartStreaming(w, id) ==
  LET s == w.senders[id]
      stopped == RemoveWriter(w, id)
  IN  IF s.enabled THEN AddWriter(stopped, id, StreamParameters(s)) ELSE stopped

\* What the NMOS node is shown of a sender, its flow and its source.
SenderResources(s) == [name |-> s.name, active |-> s.enabled, interface |-> s.interface, format |-> s.format]

\* update_nmos
UpdateSenderNmos(w, id) ==
  IF w.senders[id].shown = NotShown THEN w
  ELSE [w EXCEPT !.senders[id].shown = SenderResources(w.senders[id])]

\* set_nmos_node, with a node.
ShowSender(w, id) == [w EXCEPT !.senders[id].shown = SenderResources(w.senders[id])]

\* The service of a sender, and the paths under which it is served.
Unadvertised(w, id) ==
  LET s == w.senders[id]
  IN  [w EXCEPT !.services = IF s.advertised /\ s.advertiser THEN {v \in @ : v.id # id} ELSE @,
                !.senders[id].advertised = FALSE]
Unserved(w, id) == [w EXCEPT !.paths = UnregisterHandler(@, id), !.senders[id].path = NoName]

\* Mutant of UpdateAdvertisement: the paths of an earlier name are kept.
UpdateAdvertisementKeepsPaths(w, id) ==
  LET s == w.senders[id]
      stopped == Unadvertised(w, id)
      served == [stopped EXCEPT !.paths = RegisterHandler(RegisterHandler(@, ByName(s.name), id), ById(id), id),
                                !.senders[id].path = s.name]
  IN  IF ~s.enabled THEN Unserved(stopped, id)
      ELSE IF ~s.advertiser THEN served
      ELSE [served EXCEPT !.services = @ \cup {[id |-> id, name |-> s.name]}, !.senders[id].advertised = TRUE]

\* update_advertisement
UpdateAdvertisement(w, id) ==
  LET s == w.senders[id]
      stopped == Unadvertised(IF s.path # NoName THEN Unserved(w, id) ELSE w, id)
      served == [stopped EXCEPT !.paths = RegisterHandler(RegisterHandler(@, ByName(s.name), id), ById(id), id),
                                !.senders[id].path = s.name]
  IN  IF ~s.enabled THEN stopped
      ELSE IF ~s.advertiser THEN served
      ELSE [served EXCEPT !.services = @ \cup {[id |-> id, name |-> s.name]}, !.senders[id].advertised = TRUE]

\* send_request, to those who asked for a path.
SendRequest(w, path, message) ==
  [w EXCEPT !.replies = [c \in Nodes |-> IF c \in w.paths[path].connections THEN Append(@[c], message) ELSE @[c]]]

\* send_announce
SendAnnounce(w, id) ==
  LET s == w.senders[id]
      message == [kind |-> "ANNOUNCE", sdp |-> Sdp(s)]
  IN  IF s.path = NoName \/ s.interface = NoInterface THEN w
      ELSE SendRequest(SendRequest(w, ByName(s.path), message), ById(id), message)

(***************************************************************************)
(* The operations of a sender                                              *)
(***************************************************************************)

IsValidSender(config) ==
  /\ config.name # NoName
  /\ config.enabled => config.dst # NoAddress /\ config.format \in Formats

Configuration(s) == [f \in SenderFields |-> s[f]]

\* set_configuration
SetSenderConfiguration(w, id, config) ==
  LET s == w.senders[id]
      Differs(fields) == \E f \in fields : config[f] # s[f]
      assigned == GenerateAddress([w EXCEPT !.senders[id] = config @@ @], id)
      streamed == IF Differs({"enabled", "dst", "format", "packet"}) THEN RestartStreaming(assigned, id)
                  ELSE IF Differs({"ttl"}) THEN SetTtl(assigned, id, config.ttl) ELSE assigned
      served == IF Differs({"enabled", "name"}) THEN UpdateAdvertisement(streamed, id) ELSE streamed
      shown == IF Differs({"enabled", "name", "dst", "format"}) THEN UpdateSenderNmos(served, id) ELSE served
  IN  IF ~IsValidSender(config) THEN w
      ELSE IF Differs(SenderFields) /\ config.enabled THEN SendAnnounce(shown, id) ELSE shown

\* handle_patch_request of an NMOS controller.
PatchSender(w, id, enable) ==
  SetSenderConfiguration(w, id, [Configuration(w.senders[id]) EXCEPT !.enabled = enable])

\* Mutant of SetSenderInterface: what NMOS shows stays as it was.
SetSenderInterfaceUnshown(w, id, interface) ==
  IF w.senders[id].interface = interface THEN w
  ELSE RestartStreaming(GenerateAddress([w EXCEPT !.senders[id].interface = interface], id), id)

\* set_network_interface_config: nothing is announced.
SetSenderInterface(w, id, interface) ==
  IF w.senders[id].interface = interface THEN w
  ELSE UpdateSenderNmos(RestartStreaming(GenerateAddress(
         [w EXCEPT !.senders[id].interface = interface], id), id), id)

\* What set_advertiser asserts of a sender that has an advertiser before it is taken away.
\* A build with RAV_ASSERT_DEBUG stops where it does not hold; one without goes on, as below.
AssertsAdvertised(s) == s.advertiser => s.advertised

\* set_advertiser, which is given the advertiser of the node or none.
SetAdvertiser(w, id, advertiser) ==
  LET s == w.senders[id]
      without == [Unadvertised(w, id) EXCEPT !.senders[id].advertiser = FALSE]
  IN  IF s.advertiser = advertiser THEN w
      ELSE IF advertiser THEN UpdateAdvertisement([without EXCEPT !.senders[id].advertiser = TRUE], id)
      ELSE without

\* ptp_parent_changed
ParentChanged(w, id, gm) ==
  LET changed == UpdateSenderNmos([w EXCEPT !.senders[id].gm = gm], id)
  IN  IF w.senders[id].gm = gm THEN w ELSE SendAnnounce(changed, id)

\* on_request: the description whatever the method, to the one who asks.
AnswerRequest(w, id, connection) ==
  [w EXCEPT !.replies[connection] = Append(@, [kind |-> "200", sdp |-> Sdp(w.senders[id])])]

\* restore_from_json: the session id comes after the announcement.
RestoreSender(w, id, saved) ==
  LET set == SetSenderConfiguration(w, id, saved.config)
  IN  [set EXCEPT !.senders[id].sid = saved.sid]

\* The constructor and the destructor.  An advertiser that is gone is used when
\* the sender is advertised and was not told.
ConstructSender(w, id, sid, interface) ==
  GenerateAddress([w EXCEPT !.senders = (id :> NewSender(w, sid, interface)) @@ @], id)
DestroySender(w, id) ==
  LET s == w.senders[id]
      left == Unserved(Unadvertised(RemoveWriter(w, id), id), id)
  IN  [left EXCEPT !.senders = Without(@, id),
                   !.dangling = @ \/ (s.advertised /\ s.advertiser /\ ~w.advertiser)]
=============================================================================
