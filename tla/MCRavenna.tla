----------------------------- MODULE MCRavenna -----------------------------
(***************************************************************************)
(* Two nodes, or one that receives from itself, with a sender and receivers*)
(* of the same session, and a few operations on top of what the network    *)
(* does: the kinds of operations that may meet are chosen by the start.    *)
(* The HTTP server of a node, which shares nothing with the rest, has      *)
(* behaviours of its own.                                                  *)
(***************************************************************************)
EXTENDS Ravenna, HttpServer

VARIABLE about   \* "nodes" or "server"

\* Connections are alike.
Symmetric == Permutations(Connections)

CONSTANTS a, b, n1, n2, i1, i2, f1, f2, g1, g2, d1, d2

MCDestinations == {d1, d2, NoAddress}

ManualSdp(name, format) ==
  [name |-> name, sid |-> 9, dst |-> d2, format |-> format, packet |-> 1, source |-> i2, gm |-> g2]
MCManualSdps == {NoSdp, ManualSdp(n2, f1), ManualSdp(n1, NoFormat)}

SenderConfig(name, enabled) ==
  [name |-> name, enabled |-> enabled, dst |-> d1, ttl |-> 1, format |-> f1, packet |-> 1]
ReceiverConfig(name, enabled, auto) == [name |-> name, enabled |-> enabled, auto |-> auto, sdp |-> NoSdp]

Kinds == {"create", "remove", "sender", "receiver", "interface", "config", "save", "restore",
          "patch", "clock", "loss"}
Budget(f) == f @@ [k \in Kinds |-> 0]

\* A node on interface i1 that advertises or browses.
OnNetwork(advertise, browse) ==
  SetNodeConfiguration(SetNetworkInterfaceConfig(NewNode(g1), i1), advertise, browse)
Sends(w, enabled) == CreateSender(w, SenderConfig(n1, enabled))
Receives(w, auto) == CreateReceiver(w, ReceiverConfig(n1, TRUE, auto))

Start(nodes, receiver, budget) ==
  [nodes |-> nodes, sending |-> a, receiving |-> receiver, budget |-> Budget(budget),
   newSenders |-> {SenderConfig(n2, TRUE), SenderConfig(NoName, FALSE)},
   newReceivers |-> {ReceiverConfig(n1, TRUE, TRUE), ReceiverConfig(NoName, TRUE, TRUE)}]

TwoNodes(senderEnabled, auto, budget) ==
  Start((a :> Sends(OnNetwork(TRUE, FALSE), senderEnabled)) @@ (b :> Receives(OnNetwork(FALSE, TRUE), auto)), b, budget)
OneNode(senderEnabled, budget) ==
  Start((a :> Receives(Sends(OnNetwork(TRUE, TRUE), senderEnabled), TRUE)) @@ (b :> NewNode(g1)), a, budget)

MCStarts ==
  {TwoNodes(TRUE, TRUE, "sender" :> 2 @@ "receiver" :> 1),
   TwoNodes(FALSE, TRUE, "sender" :> 2 @@ "receiver" :> 2),
   TwoNodes(TRUE, FALSE, "receiver" :> 4 @@ "sender" :> 1),
   TwoNodes(TRUE, TRUE, "create" :> 2 @@ "remove" :> 2 @@ "sender" :> 1),
   TwoNodes(TRUE, TRUE, "config" :> 2 @@ "sender" :> 1 @@ "clock" :> 1),
   TwoNodes(TRUE, TRUE, "interface" :> 2 @@ "sender" :> 1 @@ "receiver" :> 1),
   TwoNodes(TRUE, TRUE, "patch" :> 3 @@ "clock" :> 1 @@ "receiver" :> 1),
   TwoNodes(TRUE, TRUE, "loss" :> 1 @@ "sender" :> 1 @@ "receiver" :> 1),
   TwoNodes(TRUE, TRUE, "save" :> 1 @@ "restore" :> 1 @@ "sender" :> 1 @@ "config" :> 1),
   OneNode(TRUE, "sender" :> 2 @@ "receiver" :> 1),
   OneNode(TRUE, "save" :> 1 @@ "restore" :> 1 @@ "receiver" :> 1),
   OneNode(TRUE, "save" :> 1 @@ "restore" :> 1 @@ "interface" :> 1 @@ "create" :> 1)}

\* HttpServer
Asks(keep, effect) == [keep |-> keep, effect |-> effect]
AllRequests ==
  {Asks(FALSE, "unknown"), Asks(FALSE, "throws"), Asks(TRUE, "restarts")}

-----------------------------------------------------------------------------

RunInit ==
  /\ about \in {"nodes", "server"}
  /\ Init /\ ServerInit
  /\ about = "server" => scenario = OneNode(TRUE, "sender" :> 2 @@ "receiver" :> 1)

RunNext ==
  \/ about = "nodes" /\ Next /\ UNCHANGED <<about, serverVars>>
  \/ about = "server" /\ ServerNext /\ UNCHANGED <<about, vars>>

RunSpec == RunInit /\ [][RunNext]_<<about, vars, serverVars>>
=============================================================================
