---------------------------- MODULE RavennaNode ----------------------------
(***************************************************************************)
(* rav::RavennaNode: what it does with its senders and receivers.  All of  *)
(* it runs on the maintenance thread, one operation after the other, so an *)
(* operation is an operator on the state w of the node:                    *)
(*                                                                         *)
(*   senders, receivers   by id                                            *)
(*   writers, readers     of rtp::AudioSender and rtp::AudioReceiver       *)
(*   paths, replies       of the RTSP server, and what it sent to whom     *)
(*   services             what the advertiser registered                   *)
(*   client, found        the RTSP client, and what the browser found      *)
(*   advertiser, browsing, interface, gm, nextId, saved                    *)
(*   dangling             something that was destroyed is still referred to*)
(***************************************************************************)
EXTENDS RavennaReceiver

CONSTANTS
  Names,    \* the names that applications give to sessions
  MaxId,    \* bound: the ids that are used
  NoSave

Ids == 1..MaxId
Paths == {ByName(name) : name \in Names} \cup {ById(id) : id \in Ids}

NewNode(gm) ==
  [senders |-> <<>>, receivers |-> <<>>, writers |-> <<>>, readers |-> <<>>,
   paths |-> [p \in Paths |-> NoContext], replies |-> [n \in Nodes |-> <<>>], services |-> {},
   client |-> NewClient, found |-> <<>>, advertiser |-> FALSE, browsing |-> FALSE,
   interface |-> NoInterface, gm |-> gm, nextId |-> 1, saved |-> NoSave, dangling |-> FALSE]

ForAllSenders(w, Op(_, _)) == FoldSet(LAMBDA id, v : Op(v, id), w, DOMAIN w.senders)
ForAllReceivers(w, Op(_, _)) == FoldSet(LAMBDA id, v : Op(v, id), w, DOMAIN w.receivers)

NextId(w) == [w EXCEPT !.nextId = @ + 1]

\* generate_unique_session_id
GenerateUniqueSessionId(w) == Max({w.senders[id].sid : id \in DOMAIN w.senders} \cup {0}) + 1

\* create_sender
CreateSender(w, config) ==
  LET id == w.nextId
      new == ConstructSender(NextId(w), id, GenerateUniqueSessionId(w), w.interface)
  IN  IF IsValidSender(config) THEN ShowSender(SetSenderConfiguration(new, id, config), id)
      ELSE DestroySender(new, id)

\* create_receiver
CreateReceiver(w, config) ==
  LET id == w.nextId
      new == ConstructReceiver(NextId(w), id, w.interface)
  IN  IF IsValidReceiver(config) THEN ShowReceiver(SetReceiverConfiguration(new, id, config), id)
      ELSE DestroyReceiver(new, id)

\* set_network_interface_config
SetNetworkInterfaceConfig(w, interface) ==
  LET set == [w EXCEPT !.interface = interface,
                       !.readers = [id \in DOMAIN @ |-> [@[id] EXCEPT !.interface = interface]],
                       !.writers = [id \in DOMAIN @ |-> [@[id] EXCEPT !.interface = interface]]]
      received == ForAllReceivers(set, LAMBDA v, id : SetReceiverInterface(v, id, interface))
  IN  IF w.interface = interface THEN w
      ELSE ForAllSenders(received, LAMBDA v, id : SetSenderInterface(v, id, interface))

\* set_configuration, with update_ravenna_browser
SetNodeConfiguration(w, advertise, browse) ==
  LET browsed == [w EXCEPT !.browsing = browse, !.found = IF browse THEN @ ELSE <<>>]
  IN  IF advertise = w.advertiser THEN browsed
      ELSE ForAllSenders([browsed EXCEPT !.advertiser = advertise],
                         LAMBDA v, id : SetAdvertiser(v, id, advertise))

\* The parent of the PTP instance changed, which all senders are told.
ParentChangedForAll(w, gm) == ForAllSenders([w EXCEPT !.gm = gm], LAMBDA v, id : ParentChanged(v, id, gm))

(***************************************************************************)
(* Saving and restoring                                                    *)
(***************************************************************************)

\* to_boost_json
ToJson(w) ==
  [interface |-> w.interface, advertise |-> w.advertiser, browse |-> w.browsing,
   senders |-> SetToSeq({[config |-> Configuration(w.senders[id]), sid |-> w.senders[id].sid] : id \in DOMAIN w.senders}),
   receivers |-> SetToSeq({ReceiverConfiguration(w.receivers[id]) : id \in DOMAIN w.receivers})]

\* The new senders and receivers, made beside those that there are.
Restored(w, saved) ==
  LET AddSender(v, s) == RestoreSender(ConstructSender(NextId(v), v.nextId, 1, saved.interface), v.nextId, s)
      AddReceiver(v, c) ==
        SetReceiverConfiguration(ConstructReceiver(NextId(v), v.nextId, saved.interface), v.nextId, c)
  IN  FoldLeft(AddReceiver, FoldLeft(AddSender, w, saved.senders), saved.receivers)

Destroy(w, senders, receivers) ==
  FoldSet(LAMBDA id, v : DestroyReceiver(v, id),
          FoldSet(LAMBDA id, v : DestroySender(v, id), w, senders), receivers)

Hidden(w, senders, receivers) ==
  [w EXCEPT !.senders = [id \in DOMAIN @ |-> IF id \in senders THEN [@[id] EXCEPT !.shown = NotShown] ELSE @[id]],
            !.receivers = [id \in DOMAIN @ |-> IF id \in receivers THEN [@[id] EXCEPT !.shown = NotShown] ELSE @[id]]]

\* restore_from_boost_json.  It may fail after the senders and receivers are made: on the
\* NMOS configuration that is missing or cannot be read, or on one that cannot be set,
\* after the device is removed with all that it shows.
FailedRestore(w, deviceRemoved) ==
  LET new == Restored(w, w.saved)
      left == Destroy(new, DOMAIN new.senders \ DOMAIN w.senders, DOMAIN new.receivers \ DOMAIN w.receivers)
  IN  IF deviceRemoved THEN Hidden(left, DOMAIN left.senders, DOMAIN left.receivers) ELSE left

\* set_network_interface_config reaches the members that are about to be replaced, which
\* it adds to the NMOS node again.
Restore(w) ==
  LET saved == w.saved
      new == Hidden(Restored(w, saved), DOMAIN w.senders, DOMAIN w.receivers)
      set == [new EXCEPT !.interface = saved.interface,
                         !.readers = [id \in DOMAIN @ |-> [@[id] EXCEPT !.interface = saved.interface]],
                         !.writers = [id \in DOMAIN @ |-> [@[id] EXCEPT !.interface = saved.interface]],
                         !.dangling = @ \/ (saved.interface # w.interface
                                            /\ DOMAIN w.senders \cup DOMAIN w.receivers # {})]
      interfaced == IF saved.interface = w.interface THEN new
                    ELSE FoldSet(LAMBDA id, v : SetSenderInterface(v, id, saved.interface), set, DOMAIN w.senders)
      swapped == FoldSet(LAMBDA id, v : ShowReceiver(v, id),
                         FoldSet(LAMBDA id, v : ShowSender(v, id), interfaced, DOMAIN new.senders \ DOMAIN w.senders),
                         DOMAIN new.receivers \ DOMAIN w.receivers)
      browsed == [swapped EXCEPT !.browsing = saved.browse, !.found = IF saved.browse THEN @ ELSE <<>>,
                                 !.advertiser = saved.advertise]
      configured == IF saved.advertise = w.advertiser THEN browsed
                    ELSE FoldSet(LAMBDA id, v : SetAdvertiser(v, id, saved.advertise), browsed,
                                 DOMAIN new.senders \ DOMAIN w.senders)
  IN  Destroy(configured, DOMAIN w.senders, DOMAIN w.receivers)
=============================================================================
