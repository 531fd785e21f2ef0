------------------------------ MODULE Ravenna ------------------------------
(***************************************************************************)
(* RAVENNA nodes on a network: the senders of one node, and the receivers  *)
(* that find them over DNS-SD and follow them over RTSP, while users, NMOS *)
(* controllers, the clock and the network change.  One step is one handler *)
(* on the maintenance thread of a node.                                    *)
(***************************************************************************)
EXTENDS RavennaNode

CONSTANTS
  Interfaces, Masters,   \* the interfaces and the grandmasters there are
  Destinations,          \* what users give as destinations of a sender
  ManualSdps,            \* descriptions that users give to a receiver
  Starts                 \* where runs start: [nodes, sending, receiving, budget]

VARIABLES
  node,      \* the nodes
  scenario,  \* the start that was chosen
  left,      \* bound: how often each kind of operation may still happen
  excused    \* history: what went wrong in a way that the code does not repair
vars == <<node, scenario, left, excused>>

sending == scenario.sending
receiving == scenario.receiving

Init ==
  \E s \in Starts : node = s.nodes /\ scenario = s /\ left = s.budget /\ excused = {}

Dangling == \E n \in Nodes : node[n].dangling

\* Nothing is done any more to a node that refers to what is destroyed.
Does(kind) ==
  /\ ~Dangling /\ left[kind] > 0
  /\ left' = [left EXCEPT ![kind] = @ - 1]
  /\ UNCHANGED scenario

Becomes(n, w) == node' = [node EXCEPT ![n] = w]
Excuse(condition, what) == excused' = IF condition THEN excused \cup {what} ELSE excused

\* The configurations that differ in one thing from config.
EditsOf(config, field, values) == {[config EXCEPT ![field] = v] : v \in values}

SenderEdits(config) ==
  EditsOf(config, "enabled", BOOLEAN) \cup EditsOf(config, "name", Names) \cup
  EditsOf(config, "dst", Destinations) \cup EditsOf(config, "format", Formats) \cup
  EditsOf(config, "ttl", 1..2) \cup EditsOf(config, "packet", 1..2)

\* A description is only given to a receiver that does not follow a session.
ReceiverEdits(config) ==
  EditsOf(config, "enabled", BOOLEAN) \cup EditsOf(config, "name", Names) \cup
  EditsOf(config, "auto", BOOLEAN) \cup
  (IF config.auto THEN {} ELSE EditsOf(config, "sdp", ManualSdps))

\* Names of sessions are unique on the network.
IsFree(name, id) == \A i \in DOMAIN node[sending].senders \ {id} : node[sending].senders[i].name # name

(***************************************************************************)
(* What users do                                                           *)
(***************************************************************************)
UserCreatesSender(config) ==
  /\ Does("create") /\ IsFree(config.name, 0) /\ node[sending].nextId < MaxId
  /\ Becomes(sending, CreateSender(node[sending], config))
  /\ UNCHANGED excused

UserCreatesReceiver(config) ==
  /\ Does("create") /\ node[receiving].nextId < MaxId
  /\ Becomes(receiving, CreateReceiver(node[receiving], config))
  /\ UNCHANGED excused

RemoveSender(id) ==
  /\ Does("remove") /\ Becomes(sending, DestroySender(node[sending], id)) /\ UNCHANGED excused

RemoveReceiver(id) ==
  /\ Does("remove") /\ Becomes(receiving, DestroyReceiver(node[receiving], id)) /\ UNCHANGED excused

UpdateSender(id) ==
  /\ Does("sender")
  /\ \E config \in SenderEdits(Configuration(node[sending].senders[id])) :
       /\ IsFree(config.name, id)
       /\ Becomes(sending, SetSenderConfiguration(node[sending], id, config))
  /\ UNCHANGED excused

UpdateReceiver(id) ==
  /\ Does("receiver")
  /\ \E config \in ReceiverEdits(ReceiverConfiguration(node[receiving].receivers[id])) :
       Becomes(receiving, SetReceiverConfiguration(node[receiving], id, config))
  /\ UNCHANGED excused

\* An interface that changes under an enabled sender is not announced.
SetInterfaces(n) ==
  /\ Does("interface")
  /\ \E interface \in (Interfaces \cup {NoInterface}) \ {node[n].interface} :
       Becomes(n, SetNetworkInterfaceConfig(node[n], interface))
  /\ Excuse(\E id \in DOMAIN node[n].senders : node[n].senders[id].enabled, "followed")

SetConfiguration(n) ==
  /\ Does("config")
  /\ \E advertise, browse \in BOOLEAN :
       /\ <<advertise, browse>> # <<node[n].advertiser, node[n].browsing>>
       /\ Becomes(n, SetNodeConfiguration(node[n], advertise, browse))
  /\ UNCHANGED excused

Save(n) ==
  /\ Does("save") /\ Becomes(n, [node[n] EXCEPT !.saved = ToJson(node[n])]) /\ UNCHANGED excused

CanRestore(n) ==
  /\ node[n].saved # NoSave
  /\ node[n].nextId + Len(node[n].saved.senders) + Len(node[n].saved.receivers) <= MaxId + 1

RestoreFromJson(n) ==
  /\ Does("restore") /\ CanRestore(n)
  /\ Becomes(n, Restore(node[n]))
  /\ UNCHANGED excused

\* The old senders lose the paths that new ones of their name took over.
RestoreFails(n) ==
  /\ Does("restore") /\ CanRestore(n)
  /\ \E deviceRemoved \in BOOLEAN :
       /\ Becomes(n, FailedRestore(node[n], deviceRemoved))
       /\ excused' = excused \cup {"followed", "served"} \cup (IF deviceRemoved THEN {"shown"} ELSE {})

(***************************************************************************)
(* What NMOS controllers do, and the clock                                 *)
(***************************************************************************)
NmosPatchSender(id) ==
  /\ Does("patch")
  /\ \E enable \in BOOLEAN : Becomes(sending, PatchSender(node[sending], id, enable))
  /\ UNCHANGED excused

\* A transport file replaces what a receiver that follows a session was told last.
NmosPatchReceiver(id) ==
  /\ Does("patch")
  /\ \E enable \in BOOLEAN, file \in {NoSdp} \cup {Sdp(node[sending].senders[s]) : s \in DOMAIN node[sending].senders} :
       /\ Becomes(receiving, PatchReceiver(node[receiving], id, enable, file))
       /\ Excuse(file # NoSdp /\ node[receiving].receivers[id].auto, "followed")

PtpParentChanged(n) ==
  /\ Does("clock")
  /\ \E gm \in Masters \ {node[n].gm} : Becomes(n, ParentChangedForAll(node[n], gm))
  /\ UNCHANGED excused

(***************************************************************************)
(* The network                                                             *)
(***************************************************************************)

\* The server of m reads a request of n, and answers it.
ReadRequest(n, m) ==
  /\ m \in DOMAIN node[n].client.asked /\ node[n].client.asked[m] # <<>>
  /\ LET request == Head(node[n].client.asked[m])
         path == ByName(request.name)
         read == [node EXCEPT ![n].client.asked[m] = Tail(@)]
         w == [read[m] EXCEPT !.paths = OnRequest(@, path, n)]
         handler == w.paths[path].handler
     IN  node' = [read EXCEPT ![m] =
           IF handler = NoHandler THEN [w EXCEPT !.replies[n] = Append(@, [kind |-> "404"])]
           ELSE AnswerRequest(w, handler, n)]
  /\ UNCHANGED <<scenario, left, excused>>

\* The client of n reads what the server of m sent.
ReadReply(n, m) ==
  /\ node[m].replies[n] # <<>>
  /\ LET message == Head(node[m].replies[n])
         read == [node EXCEPT ![m].replies[n] = Tail(@)]
     IN  node' = IF message.kind = "404" THEN read
                 ELSE [read EXCEPT ![n] = HandleIncomingSdp(read[n], message.sdp)]
  /\ UNCHANGED <<scenario, left, excused>>

\* The connection of n to m breaks, with all that is on its way.
LoseConnection(n, m) ==
  /\ Does("loss")
  /\ m \in DOMAIN node[n].client.asked \ node[n].client.lost
  /\ LET lost == [node EXCEPT ![n].client.lost = @ \cup {m}, ![n].client.asked[m] = <<>>]
     IN  node' = [lost EXCEPT ![m].paths = OnDisconnect(@, n), ![m].replies[n] = <<>>]
  /\ Excuse(TRUE, "followed")

\* The DNS-SD daemon tells a browser of a service, or that one is gone.
ServiceResolved(n, m) ==
  /\ node[n].browsing
  /\ \E service \in node[m].services :
       /\ service.name \notin DOMAIN node[n].found
       /\ Becomes(n, RavennaSessionDiscovered([node[n] EXCEPT !.found = (service.name :> m) @@ @], service.name, m))
  /\ UNCHANGED <<scenario, left, excused>>

Offered(name) == \E m \in Nodes : \E service \in node[m].services : service.name = name

ServiceRemoved(n) ==
  /\ \E name \in DOMAIN node[n].found :
       /\ ~Offered(name)
       /\ Becomes(n, [node[n] EXCEPT !.found = Without(@, name)])
  /\ UNCHANGED <<scenario, left, excused>>

Next ==
  \/ \E config \in scenario.newSenders : UserCreatesSender(config)
  \/ \E config \in scenario.newReceivers : UserCreatesReceiver(config)
  \/ \E id \in DOMAIN node[sending].senders : RemoveSender(id) \/ UpdateSender(id) \/ NmosPatchSender(id)
  \/ \E id \in DOMAIN node[receiving].receivers : RemoveReceiver(id) \/ UpdateReceiver(id) \/ NmosPatchReceiver(id)
  \/ \E n \in {sending, receiving} :
       \/ SetInterfaces(n) \/ SetConfiguration(n) \/ Save(n) \/ RestoreFromJson(n) \/ RestoreFails(n)
       \/ PtpParentChanged(n) \/ ServiceRemoved(n)
       \/ \E m \in {sending, receiving} :
            ReadRequest(n, m) \/ ReadReply(n, m) \/ LoseConnection(n, m) \/ ServiceResolved(n, m)

Spec == Init /\ [][Next]_vars

(***************************************************************************)
(* Properties                                                              *)
(***************************************************************************)

\* Nothing is on its way, and every browser knows what is offered.
Quiet ==
  /\ \A n, m \in Nodes : /\ node[m].replies[n] = <<>>
                         /\ m \in DOMAIN node[n].client.asked => node[n].client.asked[m] = <<>>
  /\ \A n \in Nodes : node[n].browsing =>
       DOMAIN node[n].found = {name \in Names : Offered(name)}

SameSession(s, t) == [s EXCEPT !.sid = 0] = [t EXCEPT !.sid = 0]

\* A receiver that follows a session ends up with the description that the sender of
\* the session would give of itself now, however their changes, requests, answers,
\* announcements and discoveries interleave.  (set_configuration announces what changed
\* and on_request keeps who asked, also for a path that has no handler yet.)
ReceiverFollowsSender ==
  Quiet /\ ~Dangling /\ "followed" \notin excused =>
    \A s \in DOMAIN node[sending].senders, r \in DOMAIN node[receiving].receivers :
      LET sender == node[sending].senders[s]
          receiver == node[receiving].receivers[r]
      IN  sender.enabled /\ sender.advertised /\ receiver.enabled /\ receiver.auto
          /\ receiver.name = sender.name /\ node[receiving].browsing
          /\ sender.interface # NoInterface
          => receiver.sdp # NoSdp /\ SameSession(receiver.sdp, Sdp(sender))

\* Exactly the enabled senders are served, under their present name and their id, and
\* advertised when the node advertises: no handler and no service of an earlier name,
\* of a sender that is switched off or of one that is gone.  (update_advertisement)  What
\* set_advertiser asserts when the node stops advertising is so of exactly the enabled
\* senders: it fails for each that is switched off (ravenna_sender.cpp:329).
SendersAreServed ==
  "served" \notin excused /\ ~Dangling => \A n \in Nodes :
    LET w == node[n]
        served == {id \in DOMAIN w.senders : w.senders[id].enabled}
    IN  /\ \A p \in Paths : w.paths[p].handler =
             IF \E id \in served : p \in {ByName(w.senders[id].name), ById(id)}
             THEN CHOOSE id \in served : p \in {ByName(w.senders[id].name), ById(id)}
             ELSE NoHandler
        /\ w.services = IF ~w.advertiser THEN {}
                        ELSE {[id |-> id, name |-> w.senders[id].name] : id \in served}
        /\ \A id \in DOMAIN w.senders :
             w.senders[id].advertiser => (AssertsAdvertised(w.senders[id]) <=> id \in served)

\* What is streamed and read is what the configurations of now ask for: one writer for
\* each enabled sender and one reader for each enabled receiver whose description can be
\* received, with their present parameters.  (restart_streaming, set_ttl and the restarts
\* of set_configuration, whichever of them the change calls for)
StreamingFollowsConfig ==
  ~Dangling => \A n \in Nodes :
    LET w == node[n]
        reading == {id \in DOMAIN w.receivers : w.receivers[id].enabled
                      /\ CreateRtpReceiverParameters(w.receivers[id].sdp) # NoParameters}
    IN  /\ w.writers = [id \in {i \in DOMAIN w.senders : w.senders[i].enabled} |-> StreamParameters(w.senders[id])]
        /\ w.readers = [id \in reading |->
             [params |-> CreateRtpReceiverParameters(w.receivers[id].sdp), interface |-> w.interface]]

\* A receiver is subscribed to the session of its name while it is enabled and follows
\* it, to no other, and no session is kept that nobody is subscribed to.  (update_rtsp)
SubscribedAsConfigured ==
  ~Dangling => \A n \in Nodes :
    LET w == node[n]
        following == {id \in DOMAIN w.receivers : w.receivers[id].enabled /\ w.receivers[id].auto}
    IN  /\ DOMAIN w.client.sessions = {w.receivers[id].name : id \in following}
        /\ \A name \in DOMAIN w.client.sessions :
             w.client.sessions[name].subscribers = {id \in following : w.receivers[id].name = name}

\* Whatever was configured, saved, restored and lost before: a node streams, reads and
\* subscribes as it is configured now.  (set_configuration of senders and receivers)
NodeDoesAsConfigured == StreamingFollowsConfig /\ SubscribedAsConfigured

\* What the NMOS node was given last of a sender or receiver is what it is now, but for
\* the label of a receiver, which may have taken its name from a description.  (update_nmos
\* is called for what changed, and set_nmos_node after the configuration)
NmosShowsWhatIsConfigured ==
  "shown" \notin excused /\ ~Dangling => \A n \in Nodes :
    /\ \A id \in DOMAIN node[n].senders :
         node[n].senders[id].shown = SenderResources(node[n].senders[id])
    /\ \A id \in DOMAIN node[n].receivers :
         LET r == node[n].receivers[id]
         IN  r.shown # NotShown /\ [r.shown EXCEPT !.name = r.name] = ReceiverResource(r)
=============================================================================
