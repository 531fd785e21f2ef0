----------------------------- MODULE MCMessages -----------------------------
(***************************************************************************)
(* Instances for TLC of what a node says to others in texts: descriptions  *)
(* of its senders over RTSP, and its resources over HTTP.  The two servers *)
(* share the node, but no state of their connections, so that a behaviour  *)
(* takes one of them.                                                      *)
(*                                                                         *)
(* A behaviour is about the conversation of two ends on the sessions       *)
(* Conversation, about a single description, whichever sender it is of, or *)
(* about a sender or receiver that comes, goes and is changed over HTTP.   *)
(***************************************************************************)
EXTENDS RtspConnection, NmosApi

CONSTANTS
  Conversation,   \* the names that are asked for in a conversation
  Device, DeviceRestored, Sender, Receiver

VARIABLE about

\* Texts: the numbers, those with a fraction (times 10000), and the words in capitals that occur.
MCNumbers ==
  (0..280) \cup {353, 384, 404, 501, 768, 5004, 44100, 48000, 88200, 96000, 192000}
MCDecimals ==
  ("1" :> 10000) @@ ("0.125" :> 1250) @@ ("0.25" :> 2500) @@ ("0.333" :> 3330) @@ ("4" :> 40000) @@ ("1.09" :> 10900)
    @@ ("0.136" :> 1360) @@ ("0.272" :> 2720) @@ ("0.363" :> 3630) @@ ("4.35" :> 43500)
MCLower == "CSeq" :> "cseq"
MCEscapes == (" " :> "%20") @@ ("?" :> "%3F") @@ ("%" :> "%25")

\* What a sender can be set to: the usual rates and packet times, one destination or two
\* in either order, of which one may be disabled.
Destination(rank, address, enabled) == [rank |-> rank, address |-> <<address>>, enabled |-> enabled]
First == Destination(1, "g1", TRUE)
Second == Destination(2, "g2", TRUE)
Off == Destination(1, "g1", FALSE)
Destinations == <<<<First>>, <<First, Second>>, <<Second, First>>, <<Off, Second>>>>
Packets == <<[num |-> 1, den |-> 1], [num |-> 1, den |-> 3], [num |-> 1, den |-> 4], [num |-> 1, den |-> 8], [num |-> 4, den |-> 1]>>

SenderNamed(name, dsts, encoding, rate, packet) ==
  [name |-> name, sid |-> 3, dsts |-> dsts, interfaces |-> <<<<"i1">>, <<"i2">>>>, gmid |-> <<"gm">>, domain |-> 1,
   format |-> [encoding |-> encoding, rate |-> rate, channels |-> 2], packet |-> packet]

Variants == {1, 2, 3, 4} \X {44100, 48000, 88200, 96000, 192000} \X {1, 2, 3, 4, 5}
VariantName(v) == <<ToString(v[1]), ".", ToString(v[2]), ".", ToString(v[3])>>
Plain == <<"a">>
Spaced == <<"b", " ", "?">>
MCConversation == {Plain, Spaced}
MCCuts == {"by-name", "content-length", "v="}

\* A short description, and one that cannot be made
Ordinary(name) == SenderNamed(name, Destinations[1], "s24", 48000, Packets[1])
Undescribed(name) == SenderNamed(name, Destinations[1], "f32", 48000, Packets[1])

MCNames == MCConversation \cup {VariantName(v) : v \in Variants}
MCServed == MCNames \ {Plain}
MCSenderOf ==
  (Spaced :> Ordinary(Spaced))
    @@ [name \in {VariantName(v) : v \in Variants} |->
          LET v == CHOOSE v \in Variants : VariantName(v) = name
          IN  SenderNamed(name, Destinations[v[1]], IF v[1] = 2 THEN "s16" ELSE "s24", v[2], Packets[v[3]])]

\* HTTP
MCDevices == {Device, DeviceRestored}
MCSenders == {Sender}
MCReceivers == {Receiver}
MCId == (Device :> "device") @@ (DeviceRestored :> "device") @@ (Sender :> "sender") @@ (Receiver :> "receiver")
MCDeviceOf == [o \in {Sender, Receiver} |-> "device"]
Unaddressed == [Ordinary(<<"n">>) EXCEPT !.dsts = <<Destination(1, "0.0.0.0", TRUE)>>]
MCStreams == {Ordinary(<<"n">>), Unaddressed, Undescribed(<<"n">>)}

Body(m) == [kind |-> "object", members |-> m]
File == [type |-> <<"application/sdp">>, data |-> ShowSession(GenerateSdp(Ordinary(<<"n">>)))]
Enable == [master_enable |-> "on"]
MCBodies ==
  [senders |->
     {Body(Enable), Body([master_enable |-> "off"]), Body([receiver_id |-> "receiver"] @@ Enable), Body([receiver_id |-> "garbage"]),
      Body([transport_params |-> {"source_ip"}] @@ Enable), Body([sender_id |-> "sender"] @@ Enable),
      Body([activation |-> "activate_scheduled_absolute"] @@ Enable), [kind |-> "array", members |-> <<>>]},
   receivers |->
     {Body(Enable), Body([master_enable |-> "off"]), Body([transport_file |-> File, sender_id |-> "sender"] @@ Enable),
      Body([transport_file |-> [File EXCEPT !.type = None]] @@ Enable),
      Body([transport_file |-> [File EXCEPT !.data = <<"x">>], sender_id |-> None] @@ Enable), Body([activation |-> "null"] @@ Enable)}]

-----------------------------------------------------------------------------
Init ==
  /\ about \in {Conversation} \cup {{name} : name \in Names} \cup {{o} : o \in Senders \cup Receivers}
  /\ InitConnection
  /\ InitNmos((Senders \cup Receivers) \ about)

\* The client asks for one session, and nothing else happens.
DescribeOnce(name) ==
  \/ sent["client"] = <<>> /\ Ask(<<"DESCRIBE">>, name)
  \/ Connect
  \/ \E e \in Ends : WriteCompletes(e) \/ Read(e)

Next ==
  /\ UNCHANGED about
  /\ \/ about = Conversation /\ NextConnection(Conversation) /\ UNCHANGED nmos
     \/ \E name \in Names : about = {name} /\ DescribeOnce(name) /\ UNCHANGED nmos
     \/ about \subseteq Senders \cup Receivers /\ NextNmos(about) /\ UNCHANGED connection

Spec == Init /\ [][Next]_<<connection, nmos, about>>
=============================================================================
