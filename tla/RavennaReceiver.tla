-------------------------- MODULE RavennaReceiver --------------------------
(***************************************************************************)
(* rav::RavennaReceiver: what is read from the network follows the session *)
(* description, and the description follows the session of that name when  *)
(* auto_update_sdp is on.  The operators take and give the state w of a    *)
(* node, as those of RavennaSender do.                                     *)
(***************************************************************************)
EXTENDS RavennaSender

CONSTANTS
  ReaderSlots,   \* the readers of rtp::AudioReceiver
  NoParameters

ReceiverFields == {"name", "enabled", "auto", "sdp"}

\* create_rtp_receiver_parameters: the first stream that can be received, if there is one.
CreateRtpReceiverParameters(sdp) ==
  IF sdp = NoSdp \/ sdp.format \notin Formats THEN NoParameters
  ELSE [dst |-> sdp.dst, format |-> sdp.format, packet |-> sdp.packet, source |-> sdp.source]

SessionName(sdp) == IF sdp = NoSdp THEN NoName ELSE sdp.name

(***************************************************************************)
(* rtp::AudioReceiver, as far as who reads what                            *)
(***************************************************************************)

\* remove_reader
RemoveReader(w, id) == [w EXCEPT !.readers = Without(@, id)]

\* add_reader
AddReader(w, id, parameters, interface) ==
  IF id \in DOMAIN w.readers \/ Cardinality(DOMAIN w.readers) >= ReaderSlots THEN w
  ELSE [w EXCEPT !.readers = (id :> [params |-> parameters, interface |-> interface]) @@ @]

(***************************************************************************)
(* The parts of a receiver                                                 *)
(***************************************************************************)

NewReceiver(interface) ==
  [name |-> NoName, enabled |-> FALSE, auto |-> TRUE, sdp |-> NoSdp, params |-> NoParameters,
   interface |-> interface, shown |-> NotShown]

\* What the NMOS node is shown of a receiver.
ReceiverResource(r) == [name |-> r.name, active |-> r.enabled, interface |-> r.interface]

\* update_nmos
UpdateReceiverNmos(w, id) ==
  IF w.receivers[id].shown = NotShown THEN w
  ELSE [w EXCEPT !.receivers[id].shown = ReceiverResource(w.receivers[id])]

\* set_nmos_node, with a node.
ShowReceiver(w, id) == [w EXCEPT !.receivers[id].shown = ReceiverResource(w.receivers[id])]

\* Mutant of ApplyReceiver: only other parameters restart the reader.
ApplyReceiverParameters(w, id, config) ==
  LET r == w.receivers[id]
      params == CreateRtpReceiverParameters(config.sdp)
      name == IF config.auto THEN config.name ELSE SessionName(config.sdp)
      assigned == [w EXCEPT !.receivers[id] = [name |-> name, params |-> params] @@ config @@ @]
      stopped == RemoveReader(assigned, id)
  IN  IF params = r.params THEN assigned
      ELSE IF params = NoParameters \/ ~config.enabled THEN stopped
      ELSE AddReader(stopped, id, params, r.interface)

\* set_configuration up to the subscriptions: a receiver that does not follow a
\* session takes the name from the description.
ApplyReceiver(w, id, config) ==
  LET r == w.receivers[id]
      params == CreateRtpReceiverParameters(config.sdp)
      name == IF config.auto THEN config.name ELSE SessionName(config.sdp)
      assigned == [w EXCEPT !.receivers[id] = [name |-> name, params |-> params] @@ config @@ @]
      stopped == RemoveReader(assigned, id)
  IN  IF params = r.params /\ config.enabled = r.enabled THEN assigned
      ELSE IF params = NoParameters \/ ~config.enabled THEN stopped
      ELSE AddReader(stopped, id, params, r.interface)

ReceiverConfiguration(r) == [f \in ReceiverFields |-> r[f]]

\* on_announced and handle_announced_sdp: set_configuration with nothing but another
\* description, of the session of the receiver.
HandleAnnouncedSdp(w, id, sdp) ==
  LET r == w.receivers[id]
      applied == ApplyReceiver(w, id, [ReceiverConfiguration(r) EXCEPT !.sdp = sdp])
  IN  IF ~r.auto \/ r.name # sdp.name THEN w
      ELSE IF applied.receivers[id].params # r.params THEN UpdateReceiverNmos(applied, id) ELSE applied

\* update_rtsp: when the description of the session is known the receiver is told at once.
UpdateRtsp(w, id) ==
  LET r == w.receivers[id]
      without == UnsubscribeFromAllSessions(w, id)
      with == SubscribeToSession(without, id, r.name)
      sdp == with.client.sessions[r.name].sdp
  IN  IF ~r.enabled \/ ~r.auto THEN without
      ELSE IF sdp = NoSdp THEN with ELSE HandleAnnouncedSdp(with, id, sdp)

(***************************************************************************)
(* The operations of a receiver                                            *)
(***************************************************************************)

IsValidReceiver(config) == config.auto => config.name # NoName

\* Mutant of SetReceiverConfiguration: a receiver that was renamed stays subscribed as it was.
SetReceiverConfigurationStays(w, id, config) ==
  LET r == w.receivers[id]
      Differs(fields) == \E f \in fields : config[f] # r[f]
      applied == ApplyReceiver(w, id, config)
      followed == IF Differs({"enabled", "auto"}) THEN UpdateRtsp(applied, id) ELSE applied
  IN  IF ~IsValidReceiver(config) THEN w
      ELSE IF Differs({"enabled", "name"}) \/ applied.receivers[id].params # r.params
      THEN UpdateReceiverNmos(followed, id) ELSE followed

\* set_configuration
SetReceiverConfiguration(w, id, config) ==
  LET r == w.receivers[id]
      Differs(fields) == \E f \in fields : config[f] # r[f]
      applied == ApplyReceiver(w, id, config)
      followed == IF Differs({"enabled", "name", "auto"}) THEN UpdateRtsp(applied, id) ELSE applied
  IN  IF ~IsValidReceiver(config) THEN w
      ELSE IF Differs({"enabled", "name"}) \/ applied.receivers[id].params # r.params
      THEN UpdateReceiverNmos(followed, id) ELSE followed

\* handle_patch_request of an NMOS controller, with the transport file of a sender or none.
PatchReceiver(w, id, enable, file) ==
  LET r == w.receivers[id]
  IN  SetReceiverConfiguration(w, id, [ReceiverConfiguration(r) EXCEPT
        !.enabled = enable, !.sdp = IF file = NoSdp THEN @ ELSE file])

\* set_network_interface_config
SetReceiverInterface(w, id, interface) ==
  IF w.receivers[id].interface = interface THEN w
  ELSE UpdateReceiverNmos([w EXCEPT !.receivers[id].interface = interface], id)

\* The constructor and the destructor.
ConstructReceiver(w, id, interface) == [w EXCEPT !.receivers = (id :> NewReceiver(interface)) @@ @]
DestroyReceiver(w, id) ==
  [UnsubscribeFromAllSessions(RemoveReader(w, id), id) EXCEPT !.receivers = Without(@, id)]

\* RavennaRtspClient::handle_incoming_sdp: the session is the one of that name.
HandleIncomingSdp(w, sdp) ==
  LET known == [w EXCEPT !.client.sessions[sdp.name].sdp = sdp]
  IN  IF sdp.name \notin DOMAIN w.client.sessions THEN w
      ELSE FoldSet(LAMBDA id, done : HandleAnnouncedSdp(done, id, sdp), known,
                   w.client.sessions[sdp.name].subscribers)
=============================================================================
