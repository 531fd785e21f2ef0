-------------------------- MODULE EndpointsProofs --------------------------
(***************************************************************************)
(* Proofs about what a node has on the network: the UDP sockets of PTP     *)
(* ports serve their port, and the clients of the HTTP server get their    *)
(* answers, for any ports, interfaces, connections, requests and restarts; *)
(* and PTP times are added, scaled and converted exactly, for any times.   *)
(***************************************************************************)
EXTENDS MCEndpoints, HttpServer, TLAPS

-----------------------------------------------------------------------------
(***************************************************************************)
(* The UDP sockets of PTP ports.  The invariant: a socket works for the    *)
(* interface of its port, or its port has gone.                            *)
(***************************************************************************)
SocketFields ==
  {"open", "handler", "wait", "round", "queue", "groups", "outbound", "loopback", "failed", "arrived", "got"}
\* What the asynchronous wait of a socket may be at, and the datagrams.
WaitStates == {"none", "reading", "done", "error", "aborted"}
Datagrams == [number : Nat, own : BOOLEAN, empty : BOOLEAN]

\* A socket that still goes out to its own host has failed to switch that off.
SocketOK(s) ==
  /\ DOMAIN s = SocketFields
  /\ s.open \in BOOLEAN /\ s.handler \in BOOLEAN /\ s.loopback \in BOOLEAN
  /\ s.wait \in WaitStates
  /\ s.round \in NoRound..RoundSize
  /\ s.queue \in Seq(Datagrams) /\ s.arrived \in Seq(Datagrams) /\ s.got \in Seq(Datagrams)
  /\ s.loopback => "loopback" \in s.failed

\* A socket of a port with this interface.
Works(s, interface) ==
  /\ SocketOK(s) /\ Serves(s, interface)
  /\ s.wait # "aborted"
  /\ s.wait = "error" => "read" \in s.failed
  /\ interface # NoNetwork /\ "outbound" \notin s.failed => s.outbound = interface

\* A socket whose port has gone.
Gone(s) == SocketOK(s) /\ ~s.open /\ ~s.handler /\ s.round = NoRound

\* It holds nothing that a port of this host sent.
NotOwn(s) == (\A i \in DOMAIN s.queue : ~s.queue[i].own) /\ (\A i \in DOMAIN s.got : ~s.got[i].own)

\* A list of ports or sockets, whatever it holds.
IsList(f) == Len(f) \in Nat /\ f = [n \in 1..Len(f) |-> f[n]]

\* Port p has the sockets with number n.
OwnedBy(p, n) == p \in DOMAIN ptpPorts /\ ptpPorts[p].number = n

\* Each port has sockets of its own, which work for its interface.
PortsOK ==
  /\ \A p \in DOMAIN ptpPorts :
       /\ DOMAIN ptpPorts[p] = {"interface", "number"}
       /\ ptpPorts[p].number \in DOMAIN impls
       /\ \A q \in DOMAIN ptpPorts : ptpPorts[p].number = ptpPorts[q].number => p = q
       /\ \A k \in SocketKinds : Works(impls[ptpPorts[p].number][k], ptpPorts[p].interface)

\* Sockets that no port has are gone.
ImplsOK ==
  /\ IsList(impls)
  /\ \A n \in DOMAIN impls :
       /\ DOMAIN impls[n] = SocketKinds
       /\ (\A p \in DOMAIN ptpPorts : ptpPorts[p].number # n) => \A k \in SocketKinds : Gone(impls[n][k])

\* Where multicast loopback is off, no socket holds what a port of this host sent.
NobodyLoops == \A n \in DOMAIN impls : "loopback" \notin impls[n]["event"].failed
SilenceOK == NobodyLoops => \A n \in DOMAIN impls : NotOwn(impls[n]["event"])

\* The inductive invariant: no datagram went to the wrong port, and none came late.
SocketsInv == PortsOK /\ ImplsOK /\ SilenceOK /\ datagrams \in Nat /\ ~astray /\ ~late

---------------------------------------------------------------------------
\* A function on 1..k is a list of length k.
LEMMA ListLength ==
  ASSUME NEW f, NEW k \in Nat, NEW g, f = [n \in 1..k |-> g[n]]
  PROVE  Len(f) = k /\ IsList(f) /\ DOMAIN f = 1..k
<1> DEFINE S == {g[n] : n \in 1..k}
<1>1. f \in [1..k -> S]
  OBVIOUS
<1>2. f \in Seq(S)
  BY <1>1
<1>3. Len(f) = k /\ DOMAIN f = 1..k
  BY <1>1, <1>2
<1> QED BY <1>3, <1>1 DEF IsList

\* Append adds one element at the end of a list.
LEMMA ListAppend ==
  ASSUME NEW f, IsList(f), NEW e
  PROVE  /\ IsList(Append(f, e)) /\ Len(Append(f, e)) = Len(f) + 1
         /\ DOMAIN Append(f, e) = 1..(Len(f) + 1) /\ DOMAIN f = 1..Len(f)
         /\ \A n \in 1..Len(f) : Append(f, e)[n] = f[n]
         /\ Append(f, e)[Len(f) + 1] = e
<1> DEFINE S == {f[n] : n \in 1..Len(f)} \cup {e}
<1>0. Len(f) \in Nat BY DEF IsList
<1>1. f \in [1..Len(f) -> S]
  BY DEF IsList
<1>2. f \in Seq(S)
  BY <1>0, <1>1
<1>3. e \in S OBVIOUS
<1> HIDE DEF S
<1>4. Append(f, e) \in Seq(S) /\ Len(Append(f, e)) = Len(f) + 1
  BY <1>2, <1>3
<1>5. Append(f, e) = [n \in 1..Len(Append(f, e)) |-> Append(f, e)[n]]
  <2> DEFINE a == Append(f, e)
  <2>1. a \in Seq(S)
    BY <1>4
  <2> HIDE DEF a
  <2>2. a \in [1..Len(a) -> S]
    BY <2>1
  <2>3. a = [n \in 1..Len(a) |-> a[n]]
    BY <2>2
  <2> QED BY <2>3 DEF a
<1> QED BY <1>0, <1>1, <1>2, <1>3, <1>4, <1>5 DEF IsList

\* What was taken from the head of a queue goes to the end of what was got.
LEMMA HeadMoves ==
  ASSUME NEW S, NEW g \in Seq(S), NEW q \in Seq(S), q # <<>>
  PROVE  Append(g, Head(q)) \o Tail(q) = g \o q
  OBVIOUS

\* The empty queue.
LEMMA EmptyList ==
  <<>> \in Seq(Datagrams) /\ <<>> \o <<>> = <<>> /\ DOMAIN <<>> = {}
  OBVIOUS

\* What arrives goes to the end of the queue, behind what was got before.
LEMMA TailGrows ==
  ASSUME NEW g \in Seq(Datagrams), NEW q \in Seq(Datagrams), NEW d \in Datagrams
  PROVE  g \o Append(q, d) = Append(g \o q, d)
  OBVIOUS

---------------------------------------------------------------------------
(***************************************************************************)
(* What the operations do with one socket                                  *)
(***************************************************************************)
Keeps(s, t) ==
  /\ \A interface : Works(s, interface) => Works(t, interface)
  /\ Gone(s) => Gone(t)
  /\ s.failed \subseteq t.failed
  /\ NotOwn(s) => NotOwn(t)

\* What set_interface does with a socket that works for the interface before it.
LEMMA MovedWorks ==
  ASSUME NEW s, NEW from, NEW to, NEW refused, Works(s, from)
  PROVE  /\ Works(Moved(s, from, to, refused), to)
         /\ s.failed \subseteq Moved(s, from, to, refused).failed
         /\ NotOwn(s) => NotOwn(Moved(s, from, to, refused))
<1> DEFINE left == IF from = NoNetwork THEN s ELSE Leave(s, from, refused)
           inGroup == Join(left, to, refused)
           after == Moved(s, from, to, refused)
           Left(t) ==
             /\ SocketOK(t) /\ t.open /\ t.handler
             /\ "read" \notin t.failed => (t.wait # "none") # (t.round # NoRound)
             /\ t.arrived = t.got \o t.queue
             /\ t.wait # "aborted"
             /\ t.wait = "error" => "read" \in t.failed
             /\ s.failed \subseteq t.failed
             /\ NotOwn(s) => NotOwn(t)
<1>1. Left(left) /\ (left.failed \cap {"join", "leave"} = {} => left.groups = {})
  BY DEF Works, Serves, SocketOK, SocketFields, Leave, Try, NotOwn
<1>2. Left(inGroup) /\ (inGroup.failed \cap {"join", "leave"} = {} => inGroup.groups = {to})
  <2> HIDE DEF left
  <2> QED BY <1>1 DEF Works, Serves, SocketOK, SocketFields, Join, Try, NotOwn
<1>3. CASE to = NoNetwork
  <2> HIDE DEF left
  <2>1. after = left
    BY <1>3 DEF Moved, left
  <2> QED BY <1>1, <2>1, <1>3 DEF Works, Serves
<1>4. CASE to # NoNetwork
  <2>1. after = SetOutbound(inGroup, to, refused)
    BY <1>4 DEF Moved
  <2> DEFINE t == SetOutbound(inGroup, to, refused)
  <2> HIDE DEF inGroup
  <2>2. /\ Left(t) /\ (t.failed \cap {"join", "leave"} = {} => t.groups = {to})
        /\ "outbound" \notin t.failed => t.outbound = to
    BY <1>2 DEF SocketOK, SocketFields, SetOutbound, Try, NotOwn
  <2> HIDE DEF t
  <2> QED BY <2>1, <2>2, <1>4 DEF Works, Serves, t
<1> QED BY <1>3, <1>4

\* A new socket is read from and works for the interface of its port.
LEMMA MadeWorks ==
  ASSUME NEW network, NEW refused, NEW t,
         t = Start(SetLoopback(Moved(Opened, NoNetwork, network, refused), FALSE, refused))
  PROVE  Works(t, network) /\ NotOwn(t)
<1> DEFINE inGroup == Join(Opened, network, refused)
           after == Moved(Opened, NoNetwork, network, refused)
           quiet == SetLoopback(after, FALSE, refused)
           Fresh(s) ==
             /\ DOMAIN s = SocketFields
             /\ s.open = TRUE /\ s.handler = FALSE /\ s.loopback \in BOOLEAN
             /\ s.wait = "none" /\ s.round = NoRound
             /\ s.queue = <<>> /\ s.arrived = <<>> /\ s.got = <<>>
             /\ "read" \notin s.failed
           For(s) ==
             /\ Fresh(s)
             /\ s.failed \cap {"join", "leave"} = {} => s.groups = {network} \ {NoNetwork}
             /\ network # NoNetwork /\ "outbound" \notin s.failed => s.outbound = network
<1>1. Fresh(Opened) /\ Opened.groups = {}
  BY DEF Opened, SocketFields
<1>2. Fresh(inGroup) /\ (inGroup.failed \cap {"join", "leave"} = {} => inGroup.groups = {network})
  <2> HIDE DEF Opened
  <2> QED BY <1>1 DEF Join, Try, SocketFields
<1>3. For(after)
  <2> HIDE DEF inGroup
  <2>1. CASE network = NoNetwork
    BY <2>1, <1>1 DEF Moved
  <2>2. CASE network # NoNetwork
    <3>1. after = SetOutbound(inGroup, network, refused)
      BY <2>2 DEF Moved, inGroup
    <3> QED BY <3>1, <2>2, <1>2 DEF SetOutbound, Try, SocketFields
  <2> QED BY <2>1, <2>2
<1>4. For(quiet) /\ (quiet.loopback => "loopback" \in quiet.failed)
  <2> HIDE DEF after
  <2> QED BY <1>3 DEF SetLoopback, Try, SocketFields
<1> HIDE DEF quiet
<1>5. t = Start(quiet)
  BY DEF quiet
<1>6. t = [quiet EXCEPT !.handler = TRUE, !.wait = "reading", !.round = NoRound]
  BY <1>4, <1>5 DEF Start, AsyncReceive, SocketFields
<1>7. /\ t.handler = TRUE /\ t.wait = "reading" /\ (t.loopback => "loopback" \in t.failed)
  BY <1>4, <1>6 DEF SocketFields
<1>8. /\ DOMAIN t = SocketFields /\ t.open = TRUE /\ t.loopback \in BOOLEAN /\ t.round = NoRound
      /\ t.queue = <<>> /\ t.arrived = <<>> /\ t.got = <<>>
      /\ t.failed \cap {"join", "leave"} = {} => t.groups = {network} \ {NoNetwork}
      /\ network # NoNetwork /\ "outbound" \notin t.failed => t.outbound = network
  BY <1>4, <1>6 DEF SocketFields
<1>9. SocketOK(t)
  <2>1. t.queue \in Seq(Datagrams) /\ t.arrived \in Seq(Datagrams) /\ t.got \in Seq(Datagrams)
    BY <1>8, EmptyList
  <2>2. t.round \in NoRound..RoundSize
    <3>1. NoRound \in NoRound..RoundSize
      BY RoundAssumption DEF NoRound
    <3> QED BY <3>1, <1>8
  <2> QED BY <2>1, <2>2, <1>7, <1>8 DEF SocketOK, WaitStates
<1>10. t.arrived = t.got \o t.queue
  BY <1>8, EmptyList
<1>11. NotOwn(t)
  BY <1>8, EmptyList DEF NotOwn
<1> QED BY <1>7, <1>8, <1>9, <1>10, <1>11 DEF Works, Serves

\* The handler of the wait, one pass of the loop and its end, and an error of either.
LEMMA ReadingKeeps ==
  ASSUME NEW s, SocketOK(s)
  PROVE  /\ s.wait = "reading" /\ s.queue # <<>> => Keeps(s, [s EXCEPT !.wait = "done"])
         /\ s.wait = "reading" => Keeps(s, [s EXCEPT !.wait = "error", !.failed = @ \cup {"read"}])
         /\ s.wait \in {"done", "aborted", "error"} =>
              Keeps(s, [s EXCEPT !.wait = "none", !.round = IF s.wait = "done" /\ s.handler THEN 0 ELSE NoRound])
<1>1. NoRound \in NoRound..RoundSize /\ 0 \in NoRound..RoundSize /\ NoRound # 0
  BY RoundAssumption DEF NoRound
<1>2. ASSUME s.wait = "reading", s.queue # <<>>
      PROVE  Keeps(s, [s EXCEPT !.wait = "done"])
  BY <1>2 DEF Keeps, Works, Gone, Serves, SocketOK, SocketFields, WaitStates, NotOwn
<1>3. ASSUME s.wait = "reading"
      PROVE  Keeps(s, [s EXCEPT !.wait = "error", !.failed = @ \cup {"read"}])
  BY <1>3 DEF Keeps, Works, Gone, Serves, SocketOK, SocketFields, WaitStates, NotOwn
<1>4. ASSUME s.wait \in {"done", "aborted", "error"}
      PROVE  Keeps(s, [s EXCEPT !.wait = "none", !.round = IF s.wait = "done" /\ s.handler THEN 0 ELSE NoRound])
  BY <1>1, <1>4 DEF Keeps, Works, Gone, Serves, SocketOK, SocketFields, WaitStates, NotOwn
<1> QED BY <1>2, <1>3, <1>4

\* A round of the reading loop takes a datagram, ends, or meets an error.
LEMMA RoundKeeps ==
  ASSUME NEW s, SocketOK(s), s.round # NoRound
  PROVE  /\ Keeps(s, AsyncReceive(s))
         /\ Keeps(s, [s EXCEPT !.round = NoRound, !.failed = @ \cup {"read"}])
         /\ s.round \in 0..(RoundSize - 1) /\ s.queue # <<>> =>
              Keeps(s, [s EXCEPT !.queue = Tail(@), !.got = Append(@, Head(s.queue)), !.round = @ + 1])
<1>1. NoRound \in NoRound..RoundSize
  BY RoundAssumption DEF NoRound
<1>2. Keeps(s, AsyncReceive(s))
  BY <1>1 DEF AsyncReceive, Keeps, Works, Gone, Serves, SocketOK, SocketFields, WaitStates, NotOwn
<1>3. Keeps(s, [s EXCEPT !.round = NoRound, !.failed = @ \cup {"read"}])
  BY <1>1 DEF Keeps, Works, Gone, Serves, SocketOK, SocketFields, WaitStates, NotOwn
<1>4. ASSUME s.round \in 0..(RoundSize - 1), s.queue # <<>>
      PROVE  Keeps(s, [s EXCEPT !.queue = Tail(@), !.got = Append(@, Head(s.queue)), !.round = @ + 1])
  <2> DEFINE queue == Tail(s.queue)
             got == Append(s.got, Head(s.queue))
             t == [s EXCEPT !.queue = Tail(@), !.got = Append(@, Head(s.queue)), !.round = @ + 1]
  <2>1. /\ queue \in Seq(Datagrams) /\ got \in Seq(Datagrams) /\ Head(s.queue) \in Datagrams
        /\ Len(got) = Len(s.got) + 1 /\ Len(queue) = Len(s.queue) - 1
        /\ Head(s.queue) = s.queue[1] /\ 1 \in DOMAIN s.queue
        /\ \A i \in 1..Len(queue) : queue[i] = s.queue[i + 1]
        /\ \A i \in 1..Len(s.got) : got[i] = s.got[i]
        /\ got[Len(s.got) + 1] = Head(s.queue)
    BY <1>4 DEF SocketOK
  <2>2. got \o queue = s.got \o s.queue
    BY <1>4, HeadMoves DEF SocketOK
  <2>3. /\ DOMAIN s.queue = 1..Len(s.queue) /\ DOMAIN s.got = 1..Len(s.got)
        /\ DOMAIN queue = 1..(Len(s.queue) - 1) /\ DOMAIN got = 1..(Len(s.got) + 1)
        /\ Len(s.queue) \in Nat /\ Len(s.got) \in Nat
    BY <2>1, <1>4 DEF SocketOK
  <2>4. NotOwn(s) => (\A i \in DOMAIN queue : ~queue[i].own) /\ (\A i \in DOMAIN got : ~got[i].own)
    <3> SUFFICES ASSUME NotOwn(s)
                 PROVE  (\A i \in DOMAIN queue : ~queue[i].own) /\ (\A i \in DOMAIN got : ~got[i].own)
      OBVIOUS
    <3> HIDE DEF queue, got
    <3>1. ASSUME NEW i \in DOMAIN queue PROVE ~queue[i].own
      <4>1. i + 1 \in DOMAIN s.queue /\ queue[i] = s.queue[i + 1]
        BY <2>1, <2>3
      <4> QED BY <4>1 DEF NotOwn
    <3>2. ASSUME NEW i \in DOMAIN got PROVE ~got[i].own
      <4>1. CASE i \in DOMAIN s.got
        BY <4>1, <2>1, <2>3 DEF NotOwn
      <4>2. CASE i = Len(s.got) + 1
        BY <4>2, <2>1, <2>3 DEF NotOwn
      <4> QED BY <4>1, <4>2, <2>3
    <3> QED BY <3>1, <3>2
  <2>5. s.round + 1 \in NoRound..RoundSize /\ s.round + 1 # NoRound
    BY <1>4, RoundAssumption DEF NoRound
  <2> HIDE DEF queue, got
  <2>6. t = [s EXCEPT !.queue = queue, !.got = got, !.round = s.round + 1]
    BY DEF queue, got, SocketOK, SocketFields
  <2>7. NotOwn(s) => NotOwn(t)
    BY <2>4, <2>6 DEF NotOwn, SocketOK, SocketFields
  <2>8. SocketOK(t)
    BY <2>1, <2>5, <2>6 DEF SocketOK, SocketFields
  <2>9. \A interface : Works(s, interface) => Works(t, interface)
    BY <2>2, <2>5, <2>6, <2>8, <1>4 DEF Works, Serves, SocketOK, SocketFields
  <2>10. Gone(s) => Gone(t)
    BY DEF Gone
  <2> QED BY <2>6, <2>7, <2>9, <2>10 DEF Keeps, SocketOK, SocketFields
<1> QED BY <1>2, <1>3, <1>4

\* A datagram is delivered to an open socket.
Takes(s, d) == [s EXCEPT !.queue = Append(@, d), !.arrived = Append(@, d)]

\* A datagram that arrives changes the queue and the wait of a socket only.
LEMMA DeliveredKeeps ==
  ASSUME NEW s, SocketOK(s), s.open, NEW d \in Datagrams
  PROVE  /\ \A interface : Works(s, interface) => Works(Takes(s, d), interface)
         /\ Takes(s, d).failed = s.failed
         /\ ~d.own /\ NotOwn(s) => NotOwn(Takes(s, d))
<1> DEFINE t == Takes(s, d)
           queue == Append(s.queue, d)
           arrived == Append(s.arrived, d)
<1>1. queue \in Seq(Datagrams) /\ arrived \in Seq(Datagrams)
  BY DEF SocketOK
<1>2. s.arrived = s.got \o s.queue => arrived = s.got \o queue
  <2>1. s.got \o queue = Append(s.got \o s.queue, d)
    <3>1. s.got \in Seq(Datagrams) /\ s.queue \in Seq(Datagrams) /\ d \in Datagrams
      BY DEF SocketOK
    <3> QED BY <3>1, TailGrows
  <2> HIDE DEF queue
  <2> QED BY <2>1
<1>3. ~d.own /\ NotOwn(s) => \A i \in DOMAIN queue : ~queue[i].own
  <2> SUFFICES ASSUME ~d.own, NotOwn(s), NEW i \in DOMAIN queue
               PROVE  ~queue[i].own
    OBVIOUS
  <2>1. /\ DOMAIN queue = 1..(Len(s.queue) + 1) /\ DOMAIN s.queue = 1..Len(s.queue) /\ Len(s.queue) \in Nat
        /\ \A j \in 1..Len(s.queue) : queue[j] = s.queue[j]
        /\ queue[Len(s.queue) + 1] = d
    BY DEF SocketOK
  <2> HIDE DEF queue
  <2>2. CASE i \in DOMAIN s.queue
    BY <2>1, <2>2 DEF NotOwn
  <2>3. CASE i = Len(s.queue) + 1
    BY <2>1, <2>3
  <2> QED BY <2>1, <2>2, <2>3
<1> HIDE DEF queue, arrived
<1>4. t = [s EXCEPT !.queue = queue, !.arrived = arrived]
  BY DEF queue, arrived, Takes, SocketOK, SocketFields
<1> HIDE DEF t
<1>5. SocketOK(t)
  BY <1>1, <1>4 DEF SocketOK, SocketFields
<1> QED BY <1>2, <1>3, <1>4, <1>5 DEF t, Works, Serves, NotOwn, SocketOK, SocketFields

\* A socket that is stopped outside its loop is gone.
LEMMA StopSocketGone ==
  ASSUME NEW s, NEW interface, Works(s, interface), s.round = NoRound
  PROVE  /\ Gone(StopSocket(s))
         /\ StopSocket(s).failed = s.failed
         /\ NotOwn(s) => NotOwn(StopSocket(s))
  BY EmptyList DEF StopSocket, Gone, Works, Serves, SocketOK, SocketFields, WaitStates, NotOwn

---------------------------------------------------------------------------
(***************************************************************************)
(* Each operation keeps the invariant                                      *)
(***************************************************************************)
LEMMA SocketsStart ==
  ASSUME SocketsInit
  PROVE  SocketsInv
<1>1. IsList(impls) /\ DOMAIN impls = {} /\ DOMAIN ptpPorts = {}
  <2>1. Len(<<>>) = 0 /\ DOMAIN <<>> = {}
    OBVIOUS
  <2>2. <<>> = [n \in 1..0 |-> <<>>[n]]
    OBVIOUS
  <2> QED BY <2>1, <2>2 DEF SocketsInit, IsList
<1> QED BY <1>1 DEF SocketsInit, SocketsInv, PortsOK, ImplsOK, SilenceOK

\* Every socket is one of a port or of a port that has gone.
LEMMA AnySocket ==
  ASSUME SocketsInv, NEW n \in DOMAIN impls, NEW k \in SocketKinds
  PROVE  /\ SocketOK(impls[n][k])
         /\ impls[n][k].open \/ impls[n][k].round # NoRound => \E p \in DOMAIN ptpPorts : ptpPorts[p].number = n
  BY DEF SocketsInv, PortsOK, ImplsOK, Works, Gone

\* A step of one socket that keeps what it is.
LEMMA SocketChanges ==
  ASSUME SocketsInv, NEW n \in DOMAIN impls, NEW kind \in SocketKinds, NEW t,
         Keeps(impls[n][kind], t), Changes(n, kind, t), ~late'
  PROVE  SocketsInv'
<1>1. /\ DOMAIN impls' = DOMAIN impls
      /\ \A m \in DOMAIN impls : m # n => impls'[m] = impls[m]
      /\ DOMAIN impls[n] = SocketKinds /\ DOMAIN impls'[n] = SocketKinds
      /\ impls'[n][kind] = t
      /\ \A k \in SocketKinds : k # kind => impls'[n][k] = impls[n][k]
      /\ ptpPorts' = ptpPorts /\ datagrams' = datagrams /\ astray' = astray
  BY DEF Changes, SocketsInv, ImplsOK
<1>2. IsList(impls')
  <2>1. impls' = [m \in 1..Len(impls) |-> impls'[m]]
    BY DEF Changes, SocketsInv, ImplsOK, IsList
  <2> QED BY <2>1, ListLength DEF SocketsInv, ImplsOK, IsList
<1>3. \A m \in DOMAIN impls, k \in SocketKinds :
        /\ \A interface : Works(impls[m][k], interface) => Works(impls'[m][k], interface)
        /\ Gone(impls[m][k]) => Gone(impls'[m][k])
        /\ impls[m][k].failed \subseteq impls'[m][k].failed
        /\ NotOwn(impls[m][k]) => NotOwn(impls'[m][k])
  BY <1>1 DEF Keeps
<1>4. PortsOK'
  BY <1>1, <1>3 DEF SocketsInv, PortsOK
<1>5. ImplsOK'
  BY <1>1, <1>2, <1>3 DEF SocketsInv, ImplsOK
<1>6. SilenceOK'
  BY <1>1, <1>3 DEF SocketsInv, SilenceOK, NobodyLoops, SocketKinds
<1> QED BY <1>1, <1>4, <1>5, <1>6 DEF SocketsInv

\* A datagram for any of the sockets.
LEMMA DeliveredStep ==
  ASSUME SocketsInv, NEW kind \in SocketKinds, NEW network, NEW d \in Datagrams, NEW toAll,
         impls' = WithDatagram(kind, network, d, toAll), d.own => ~NobodyLoops,
         ptpPorts' = ptpPorts, datagrams' \in Nat, ~astray', ~late'
  PROVE  SocketsInv'
<1>1. /\ IsList(impls') /\ DOMAIN impls' = DOMAIN impls
  <2> DEFINE k == Len(impls)
  <2>1. k \in Nat /\ DOMAIN impls = 1..k
    BY DEF SocketsInv, ImplsOK, IsList
  <2>2. DOMAIN impls' = 1..k /\ impls' = [n \in 1..k |-> impls'[n]]
    BY <2>1 DEF WithDatagram
  <2> HIDE DEF k
  <2> QED BY <2>1, <2>2, ListLength
<1>2. ASSUME NEW n \in DOMAIN impls
      PROVE  \/ impls'[n] = impls[n]
             \/ impls[n][kind].open /\ impls'[n] = [impls[n] EXCEPT ![kind] = Takes(impls[n][kind], d)]
  BY DEF WithDatagram, Takes, SocketsInv, ImplsOK
<1>3. ASSUME NEW n \in DOMAIN impls, NEW k \in SocketKinds
      PROVE  /\ DOMAIN impls'[n] = SocketKinds
             /\ \A interface : Works(impls[n][k], interface) => Works(impls'[n][k], interface)
             /\ Gone(impls[n][k]) => Gone(impls'[n][k])
             /\ impls'[n][k].failed = impls[n][k].failed
             /\ ~d.own /\ NotOwn(impls[n][k]) => NotOwn(impls'[n][k])
  <2>1. DOMAIN impls[n] = SocketKinds /\ SocketOK(impls[n][kind])
    BY AnySocket DEF SocketsInv, ImplsOK
  <2>2. CASE impls'[n] = impls[n]
    BY <2>1, <2>2
  <2>3. CASE impls[n][kind].open /\ impls'[n] = [impls[n] EXCEPT ![kind] = Takes(impls[n][kind], d)]
    <3> DEFINE t == Takes(impls[n][kind], d)
    <3>1. /\ \A interface : Works(impls[n][kind], interface) => Works(t, interface)
          /\ t.failed = impls[n][kind].failed
          /\ ~d.own /\ NotOwn(impls[n][kind]) => NotOwn(t)
      BY <2>1, <2>3, DeliveredKeeps
    <3>2. impls'[n] = [impls[n] EXCEPT ![kind] = t]
      BY <2>3
    <3> HIDE DEF t
    <3>3. CASE k = kind
      <4>1. impls'[n][k] = t /\ DOMAIN impls'[n] = SocketKinds
        BY <3>2, <3>3, <2>1
      <4> QED BY <4>1, <3>1, <3>3, <2>3 DEF Gone
    <3>4. CASE k # kind
      BY <3>2, <3>4, <2>1
    <3> QED BY <3>3, <3>4
  <2> QED BY <1>2, <2>2, <2>3
<1>4. PortsOK'
  BY <1>1, <1>3 DEF SocketsInv, PortsOK
<1>5. ImplsOK'
  BY <1>1, <1>3 DEF SocketsInv, ImplsOK, SocketKinds
<1>6. SilenceOK'
  <2>1. \A n \in DOMAIN impls :
          /\ impls'[n]["event"].failed = impls[n]["event"].failed
          /\ ~d.own /\ NotOwn(impls[n]["event"]) => NotOwn(impls'[n]["event"])
    BY <1>3 DEF SocketKinds
  <2>2. NobodyLoops' <=> NobodyLoops
    BY <2>1, <1>1 DEF NobodyLoops
  <2>3. CASE d.own
    BY <2>2, <2>3 DEF SilenceOK
  <2>4. CASE ~d.own
    BY <1>1, <2>1, <2>2, <2>4 DEF SocketsInv, SilenceOK
  <2> QED BY <2>3, <2>4
<1> QED BY <1>4, <1>5, <1>6 DEF SocketsInv

\* add_port makes two sockets for its interface.
LEMMA AddPortStep ==
  ASSUME SocketsInv, AddPort
  PROVE  SocketsInv'
<1>1. PICK p \in PtpPorts, network \in Networks, refused \in Refusals :
        /\ p \notin DOMAIN ptpPorts
        /\ impls' = Append(impls, [k \in SocketKinds |->
             Start(SetLoopback(Moved(Opened, NoNetwork, network, refused[k]), FALSE, refused[k]))])
        /\ ptpPorts' = [q \in DOMAIN ptpPorts \cup {p} |->
                          IF q = p THEN [interface |-> network, number |-> Len(impls) + 1] ELSE ptpPorts[q]]
        /\ UNCHANGED <<datagrams, astray, late>>
  BY DEF AddPort
<1> DEFINE new == Len(impls) + 1
           made == [k \in SocketKinds |->
             Start(SetLoopback(Moved(Opened, NoNetwork, network, refused[k]), FALSE, refused[k]))]
<1>2. \A k \in SocketKinds : Works(made[k], network) /\ NotOwn(made[k])
  <2> SUFFICES ASSUME NEW k \in SocketKinds PROVE Works(made[k], network) /\ NotOwn(made[k])
    OBVIOUS
  <2>1. made[k] = Start(SetLoopback(Moved(Opened, NoNetwork, network, refused[k]), FALSE, refused[k]))
    OBVIOUS
  <2> HIDE DEF made
  <2> QED BY <2>1, MadeWorks
<1>3. DOMAIN made = SocketKinds
  OBVIOUS
<1>4. impls' = Append(impls, made)
  BY <1>1
<1> HIDE DEF made
<1>5. /\ IsList(impls') /\ DOMAIN impls' = 1..new /\ DOMAIN impls = 1..Len(impls) /\ Len(impls) \in Nat
      /\ \A n \in DOMAIN impls : impls'[n] = impls[n]
      /\ impls'[new] = made
  BY <1>4, ListAppend DEF SocketsInv, ImplsOK, IsList
<1>6. /\ DOMAIN ptpPorts' = DOMAIN ptpPorts \cup {p}
      /\ ptpPorts'[p] = [interface |-> network, number |-> new]
      /\ \A q \in DOMAIN ptpPorts : ptpPorts'[q] = ptpPorts[q]
  BY <1>1
<1>7. new \notin DOMAIN impls /\ DOMAIN impls' = DOMAIN impls \cup {new}
  BY <1>5
<1> HIDE DEF new
<1>8. PortsOK'
  <2>1. ASSUME NEW q \in DOMAIN ptpPorts
        PROVE  /\ ptpPorts'[q].number \in DOMAIN impls /\ ptpPorts'[q].number # new
               /\ DOMAIN ptpPorts'[q] = {"interface", "number"}
               /\ \A k \in SocketKinds : Works(impls'[ptpPorts'[q].number][k], ptpPorts'[q].interface)
    BY <1>5, <1>6, <1>7 DEF SocketsInv, PortsOK
  <2>2. /\ DOMAIN ptpPorts'[p] = {"interface", "number"}
        /\ ptpPorts'[p].number = new /\ ptpPorts'[p].interface = network
    BY <1>6
  <2>3. \A q \in DOMAIN ptpPorts, r \in DOMAIN ptpPorts : ptpPorts'[q].number = ptpPorts'[r].number => q = r
    BY <1>6 DEF SocketsInv, PortsOK
  <2> QED BY <2>1, <2>2, <2>3, <1>2, <1>5, <1>6, <1>7 DEF PortsOK
<1>9. ImplsOK'
  <2>1. ASSUME NEW n \in DOMAIN impls, \A q \in DOMAIN ptpPorts' : ptpPorts'[q].number # n
        PROVE  \A k \in SocketKinds : Gone(impls'[n][k])
    <3>1. \A q \in DOMAIN ptpPorts : ptpPorts[q].number # n
      BY <2>1, <1>6
    <3> QED BY <3>1, <1>5 DEF SocketsInv, ImplsOK
  <2>2. ptpPorts'[p].number = new
    BY <1>6
  <2> QED BY <2>1, <2>2, <1>3, <1>5, <1>6, <1>7 DEF SocketsInv, ImplsOK
<1>10. SilenceOK'
  BY <1>2, <1>5, <1>7 DEF SocketsInv, SilenceOK, NobodyLoops, SocketKinds
<1> QED BY <1>1, <1>8, <1>9, <1>10 DEF SocketsInv

\* An operation of a port on both of its sockets.
LEMMA PortChanges ==
  ASSUME SocketsInv, NEW p \in DOMAIN ptpPorts, NEW both, DOMAIN both = SocketKinds,
         impls' = [impls EXCEPT ![ptpPorts[p].number] = both],
         \A k \in SocketKinds :
           /\ impls[ptpPorts[p].number][k].failed \subseteq both[k].failed
           /\ NotOwn(impls[ptpPorts[p].number][k]) => NotOwn(both[k])
  PROVE  /\ IsList(impls') /\ DOMAIN impls' = DOMAIN impls
         /\ impls'[ptpPorts[p].number] = both
         /\ \A n \in DOMAIN impls : n # ptpPorts[p].number => impls'[n] = impls[n]
         /\ \A n \in DOMAIN impls : DOMAIN impls'[n] = SocketKinds
         /\ SilenceOK'
<1>1. /\ DOMAIN impls' = DOMAIN impls
      /\ impls'[ptpPorts[p].number] = both
      /\ \A n \in DOMAIN impls : n # ptpPorts[p].number => impls'[n] = impls[n]
      /\ \A n \in DOMAIN impls : DOMAIN impls'[n] = SocketKinds
  BY DEF SocketsInv, PortsOK, ImplsOK
<1>2. IsList(impls')
  <2>1. impls' = [m \in 1..Len(impls) |-> impls'[m]]
    BY DEF SocketsInv, ImplsOK, IsList
  <2> QED BY <2>1, ListLength DEF SocketsInv, ImplsOK, IsList
<1>3. SilenceOK'
  BY <1>1 DEF SocketsInv, SilenceOK, NobodyLoops, SocketKinds
<1> QED BY <1>1, <1>2, <1>3

\* set_interface moves both sockets of a port.
LEMMA SetInterfaceStep ==
  ASSUME SocketsInv, SetInterface
  PROVE  SocketsInv'
<1>1. PICK p \in DOMAIN ptpPorts, network \in Networks \cup {NoNetwork}, refused \in Refusals :
        /\ ptpPorts' = [ptpPorts EXCEPT ![p].interface = network]
        /\ impls' = [impls EXCEPT ![ptpPorts[p].number] =
             [k \in SocketKinds |-> Moved(impls[ptpPorts[p].number][k], ptpPorts[p].interface, network, refused[k])]]
        /\ UNCHANGED <<datagrams, astray, late>>
  BY DEF SetInterface
<1> DEFINE both ==
             [k \in SocketKinds |-> Moved(impls[ptpPorts[p].number][k], ptpPorts[p].interface, network, refused[k])]
<1>2. ASSUME NEW k \in SocketKinds
      PROVE  /\ Works(both[k], network)
             /\ impls[ptpPorts[p].number][k].failed \subseteq both[k].failed
             /\ NotOwn(impls[ptpPorts[p].number][k]) => NotOwn(both[k])
  <2>1. both[k] = Moved(impls[ptpPorts[p].number][k], ptpPorts[p].interface, network, refused[k])
    OBVIOUS
  <2>2. Works(impls[ptpPorts[p].number][k], ptpPorts[p].interface)
    BY DEF SocketsInv, PortsOK
  <2> HIDE DEF both
  <2> QED BY <2>1, <2>2, MovedWorks
<1>3. DOMAIN both = SocketKinds /\ impls' = [impls EXCEPT ![ptpPorts[p].number] = both]
  BY <1>1
<1> HIDE DEF both
<1>4. /\ IsList(impls') /\ DOMAIN impls' = DOMAIN impls
      /\ impls'[ptpPorts[p].number] = both
      /\ \A n \in DOMAIN impls : n # ptpPorts[p].number => impls'[n] = impls[n]
      /\ \A n \in DOMAIN impls : DOMAIN impls'[n] = SocketKinds
      /\ SilenceOK'
  BY <1>2, <1>3, PortChanges
<1>5. /\ DOMAIN ptpPorts' = DOMAIN ptpPorts
      /\ \A q \in DOMAIN ptpPorts :
           /\ DOMAIN ptpPorts'[q] = {"interface", "number"}
           /\ ptpPorts'[q].number = ptpPorts[q].number
           /\ q # p => ptpPorts'[q].interface = ptpPorts[q].interface
      /\ ptpPorts'[p].interface = network
  BY <1>1 DEF SocketsInv, PortsOK
<1>6. PortsOK'
  <2> SUFFICES ASSUME NEW q \in DOMAIN ptpPorts
               PROVE  /\ ptpPorts'[q].number \in DOMAIN impls'
                      /\ \A r \in DOMAIN ptpPorts : ptpPorts'[q].number = ptpPorts'[r].number => q = r
                      /\ \A k \in SocketKinds : Works(impls'[ptpPorts'[q].number][k], ptpPorts'[q].interface)
    <3>1. DOMAIN ptpPorts' = DOMAIN ptpPorts /\ \A q \in DOMAIN ptpPorts : DOMAIN ptpPorts'[q] = {"interface", "number"}
      BY <1>5
    <3> QED BY <3>1 DEF PortsOK
  <2>0. /\ ptpPorts'[q].number = ptpPorts[q].number /\ ptpPorts[q].number \in DOMAIN impls
        /\ \A r \in DOMAIN ptpPorts : ptpPorts'[q].number = ptpPorts'[r].number => q = r
    BY <1>5 DEF SocketsInv, PortsOK
  <2>1. CASE q = p
    <3>1. impls'[ptpPorts'[q].number] = both /\ ptpPorts'[q].interface = network
      BY <2>0, <2>1, <1>4, <1>5
    <3> QED BY <2>0, <3>1, <1>2, <1>4
  <2>2. CASE q # p
    <3>1. ptpPorts[q].number # ptpPorts[p].number
      BY <2>2 DEF SocketsInv, PortsOK
    <3>2. impls'[ptpPorts'[q].number] = impls[ptpPorts[q].number] /\ ptpPorts'[q].interface = ptpPorts[q].interface
      BY <2>0, <2>2, <3>1, <1>4, <1>5
    <3>3. \A k \in SocketKinds : Works(impls[ptpPorts[q].number][k], ptpPorts[q].interface)
      BY DEF SocketsInv, PortsOK
    <3> QED BY <2>0, <3>2, <3>3, <1>4
  <2> QED BY <2>1, <2>2
<1>7. ImplsOK'
  <2>1. ASSUME NEW n \in DOMAIN impls, \A q \in DOMAIN ptpPorts : ptpPorts[q].number # n
        PROVE  \A k \in SocketKinds : Gone(impls'[n][k])
    BY <2>1, <1>4 DEF SocketsInv, ImplsOK
  <2>2. \A q \in DOMAIN ptpPorts : ptpPorts'[q].number = ptpPorts[q].number
    BY <1>5
  <2>3. DOMAIN ptpPorts' = DOMAIN ptpPorts
    BY <1>5
  <2> QED BY <2>1, <2>2, <2>3, <1>4 DEF ImplsOK
<1> QED BY <1>1, <1>4, <1>6, <1>7 DEF SocketsInv

\* Removing a port stops its sockets.
LEMMA RemovePortStep ==
  ASSUME SocketsInv, RemovePort
  PROVE  SocketsInv'
<1>1. PICK p \in DOMAIN ptpPorts :
        /\ ~InRound
        /\ impls' = [impls EXCEPT ![ptpPorts[p].number] =
             [k \in SocketKinds |-> StopSocket(impls[ptpPorts[p].number][k])]]
        /\ ptpPorts' = [q \in DOMAIN ptpPorts \ {p} |-> ptpPorts[q]]
        /\ UNCHANGED <<datagrams, refusals, astray, late>>
  BY DEF RemovePort
<1> DEFINE both == [k \in SocketKinds |-> StopSocket(impls[ptpPorts[p].number][k])]
<1>2. ASSUME NEW k \in SocketKinds
      PROVE  /\ Gone(both[k])
             /\ impls[ptpPorts[p].number][k].failed \subseteq both[k].failed
             /\ NotOwn(impls[ptpPorts[p].number][k]) => NotOwn(both[k])
  <2>1. both[k] = StopSocket(impls[ptpPorts[p].number][k])
    OBVIOUS
  <2>2. /\ Works(impls[ptpPorts[p].number][k], ptpPorts[p].interface)
        /\ impls[ptpPorts[p].number][k].round = NoRound
    BY <1>1 DEF SocketsInv, PortsOK, InRound
  <2> HIDE DEF both
  <2> QED BY <2>1, <2>2, StopSocketGone
<1>3. DOMAIN both = SocketKinds /\ impls' = [impls EXCEPT ![ptpPorts[p].number] = both]
  BY <1>1
<1> HIDE DEF both
<1>4. /\ IsList(impls') /\ DOMAIN impls' = DOMAIN impls
      /\ impls'[ptpPorts[p].number] = both
      /\ \A n \in DOMAIN impls : n # ptpPorts[p].number => impls'[n] = impls[n]
      /\ \A n \in DOMAIN impls : DOMAIN impls'[n] = SocketKinds
      /\ SilenceOK'
  BY <1>2, <1>3, PortChanges
<1>5. /\ DOMAIN ptpPorts' = DOMAIN ptpPorts \ {p}
      /\ \A q \in DOMAIN ptpPorts' : ptpPorts'[q] = ptpPorts[q] /\ ptpPorts[q].number # ptpPorts[p].number
  BY <1>1 DEF SocketsInv, PortsOK
<1>6. PortsOK'
  BY <1>4, <1>5 DEF SocketsInv, PortsOK
<1>7. ImplsOK'
  BY <1>2, <1>4, <1>5 DEF SocketsInv, ImplsOK
<1> QED BY <1>1, <1>4, <1>6, <1>7 DEF SocketsInv

\* A datagram from the network.
LEMMA ArriveStep ==
  ASSUME SocketsInv, Arrive
  PROVE  SocketsInv'
<1>1. PICK kind \in SocketKinds, network \in Networks, empty \in BOOLEAN, toAll \in BOOLEAN :
        /\ datagrams' = datagrams + 1
        /\ impls' = WithDatagram(kind, network, [number |-> datagrams', own |-> FALSE, empty |-> empty], toAll)
        /\ UNCHANGED <<ptpPorts, refusals, astray, late>>
  BY DEF Arrive
<1> DEFINE d == [number |-> datagrams', own |-> FALSE, empty |-> empty]
<1>2. d \in Datagrams /\ ~d.own
  BY <1>1 DEF SocketsInv, Datagrams
<1>3. impls' = WithDatagram(kind, network, d, toAll)
  BY <1>1
<1> HIDE DEF d
<1>4. datagrams' \in Nat /\ ptpPorts' = ptpPorts /\ ~astray' /\ ~late'
  BY <1>1 DEF SocketsInv
<1> QED BY <1>2, <1>3, <1>4, DeliveredStep

\* A datagram that a port sends, which comes back where loopback could not be switched off.
LEMMA SendStep ==
  ASSUME SocketsInv, SendDatagram
  PROVE  SocketsInv'
<1>1. PICK p \in DOMAIN ptpPorts, network \in Networks :
        /\ ptpPorts[p].interface # NoNetwork
        /\ impls[ptpPorts[p].number]["event"].outbound \in {network, NoNetwork}
        /\ datagrams' = datagrams + 1
        /\ impls' = IF impls[ptpPorts[p].number]["event"].loopback
                      THEN WithDatagram("event", network, [number |-> datagrams + 1, own |-> TRUE, empty |-> FALSE], FALSE)
                      ELSE impls
        /\ astray' = (astray \/ (network # ptpPorts[p].interface
                                   /\ "outbound" \notin impls[ptpPorts[p].number]["event"].failed))
        /\ UNCHANGED <<ptpPorts, refusals, late>>
  BY DEF SendDatagram
<1>2. Works(impls[ptpPorts[p].number]["event"], ptpPorts[p].interface)
  BY DEF SocketsInv, PortsOK, SocketKinds
<1>3. ~astray' /\ datagrams' \in Nat
  <2>1. "outbound" \notin impls[ptpPorts[p].number]["event"].failed => network = ptpPorts[p].interface
    BY <1>1, <1>2 DEF Works
  <2>2. ~astray' <=> ~astray
    BY <1>1, <2>1
  <2> QED BY <1>1, <2>2 DEF SocketsInv
<1>4. CASE ~impls[ptpPorts[p].number]["event"].loopback
  BY <1>1, <1>3, <1>4 DEF SocketsInv, PortsOK, ImplsOK, SilenceOK, NobodyLoops
<1>5. CASE impls[ptpPorts[p].number]["event"].loopback
  <2> DEFINE d == [number |-> datagrams + 1, own |-> TRUE, empty |-> FALSE]
  <2>1. d \in Datagrams
    BY DEF SocketsInv, Datagrams
  <2>2. impls' = WithDatagram("event", network, d, FALSE)
    BY <1>1, <1>5
  <2>3. ~NobodyLoops
    BY <1>2, <1>5 DEF Works, SocketOK, NobodyLoops, SocketsInv, PortsOK
  <2> HIDE DEF d
  <2>4. "event" \in SocketKinds
    BY DEF SocketKinds
  <2>5. ptpPorts' = ptpPorts /\ ~late'
    BY <1>1 DEF SocketsInv
  <2> QED BY <1>3, <2>1, <2>2, <2>3, <2>4, <2>5, DeliveredStep
<1> QED BY <1>4, <1>5

\* The steps of a socket that reads.
LEMMA ReadingStep ==
  ASSUME SocketsInv, NEW n \in DOMAIN impls, NEW kind \in SocketKinds,
         Ready(n, kind) \/ WaitCompletes(n, kind) \/ ReceiveFrom(n, kind) \/ RoundEnds(n, kind)
  PROVE  SocketsInv'
<1> DEFINE s == impls[n][kind]
<1>1. SocketOK(s) /\ ~late
  BY AnySocket DEF SocketsInv
<1>2. CASE Ready(n, kind)
  <2>1. CASE s.wait = "reading" /\ s.queue # <<>> /\ Changes(n, kind, [s EXCEPT !.wait = "done"]) /\ late' = late
    <3>1. Keeps(s, [s EXCEPT !.wait = "done"])
      BY <1>1, <2>1, ReadingKeeps
    <3> QED BY <1>1, <2>1, <3>1, SocketChanges
  <2>2. CASE s.wait = "reading" /\ Changes(n, kind, [s EXCEPT !.wait = "error", !.failed = @ \cup {"read"}]) /\ late' = late
    <3>1. Keeps(s, [s EXCEPT !.wait = "error", !.failed = @ \cup {"read"}])
      BY <1>1, <2>2, ReadingKeeps
    <3> QED BY <1>1, <2>2, <3>1, SocketChanges
  <2> QED BY <1>2, <2>1, <2>2 DEF Ready
<1>3. CASE WaitCompletes(n, kind)
  <2> DEFINE t == [s EXCEPT !.wait = "none", !.round = IF s.wait = "done" /\ s.handler THEN 0 ELSE NoRound]
  <2>1. s.wait \in {"done", "aborted", "error"} /\ Changes(n, kind, t) /\ late' = late
    BY <1>3 DEF WaitCompletes
  <2>2. Keeps(s, t)
    BY <1>1, <2>1, ReadingKeeps
  <2> HIDE DEF t
  <2> QED BY <1>1, <2>1, <2>2, SocketChanges
<1>4. CASE ReceiveFrom(n, kind)
  <2>1. s.round \in 0..(RoundSize - 1) /\ s.round # NoRound
    BY <1>4, RoundAssumption DEF ReceiveFrom, NoRound
  <2>2. CASE Changes(n, kind, AsyncReceive(s)) /\ late' = late
    <3>1. Keeps(s, AsyncReceive(s))
      BY <1>1, <2>1, RoundKeeps
    <3> QED BY <1>1, <2>2, <3>1, SocketChanges
  <2>3. CASE /\ IF s.queue = <<>> THEN FALSE ELSE ~Head(s.queue).empty
             /\ Changes(n, kind, [s EXCEPT !.queue = Tail(@), !.got = Append(@, Head(s.queue)), !.round = @ + 1])
             /\ late' = (late \/ \A p \in DOMAIN ptpPorts : ptpPorts[p].number # n)
    <3> DEFINE t == [s EXCEPT !.queue = Tail(@), !.got = Append(@, Head(s.queue)), !.round = @ + 1]
    <3>1. ~late'
      BY <1>1, <2>1, <2>3, AnySocket
    <3>2. s.queue # <<>>
      BY <2>3
    <3>3. Keeps(s, t)
      BY <1>1, <2>1, <3>2, RoundKeeps
    <3>4. Changes(n, kind, t)
      BY <2>3
    <3> HIDE DEF t
    <3> QED BY <3>1, <3>3, <3>4, SocketChanges
  <2>4. CASE Changes(n, kind, [s EXCEPT !.round = NoRound, !.failed = @ \cup {"read"}]) /\ late' = late
    <3>1. Keeps(s, [s EXCEPT !.round = NoRound, !.failed = @ \cup {"read"}])
      BY <1>1, <2>1, RoundKeeps
    <3> QED BY <1>1, <2>4, <3>1, SocketChanges
  <2> QED BY <1>4, <2>2, <2>3, <2>4 DEF ReceiveFrom
<1>5. CASE RoundEnds(n, kind)
  <2>1. s.round # NoRound /\ Changes(n, kind, AsyncReceive(s)) /\ late' = late
    BY <1>5, RoundAssumption DEF RoundEnds, NoRound
  <2>2. Keeps(s, AsyncReceive(s))
    BY <1>1, <2>1, RoundKeeps
  <2> QED BY <1>1, <2>1, <2>2, SocketChanges
<1> QED BY <1>2, <1>3, <1>4, <1>5

\* However ports come, go and change their interfaces, while rounds are under way and
\* calls are refused, each port is served by its sockets and no other one is called.
THEOREM SocketsServe == SocketsSpec => []SocketsServeTheirPorts
<1>1. SocketsInit => SocketsInv
  BY SocketsStart
<1>2. SocketsInv /\ [SocketsNext]_socketVars => SocketsInv'
  <2> SUFFICES ASSUME SocketsInv, [SocketsNext]_socketVars
               PROVE  SocketsInv'
    OBVIOUS
  <2>1. CASE UNCHANGED socketVars
    BY <2>1 DEF socketVars, SocketsInv, PortsOK, ImplsOK, SilenceOK, NobodyLoops
  <2>2. CASE SocketsNext
    BY <2>2, AddPortStep, SetInterfaceStep, RemovePortStep, ArriveStep, SendStep, ReadingStep DEF SocketsNext
  <2> QED BY <2>1, <2>2
<1>3. SocketsInv => SocketsServeTheirPorts
  BY DEF SocketsInv, PortsOK, ImplsOK, SilenceOK, NobodyLoops, SocketsServeTheirPorts, Works, Gone, NotOwn, SocketKinds
<1> QED BY <1>1, <1>2, <1>3, PTL DEF SocketsSpec

-----------------------------------------------------------------------------
(***************************************************************************)
(* The HTTP server.  The invariant: what the server knows of its sessions, *)
(* and what is between each session and its client.                        *)
(***************************************************************************)

Waiting == {"none", "backlog", "accepted", "orphaned"}   \* without a session so far
Operations == {"reading", "writing", "written"}

\* The fields of a session; only one that the server owns is open for requests.
SessionOK(s) ==
  /\ DOMAIN s = {"stage", "owner", "op", "open", "keep", "status", "read"}
  /\ s.stage \in Waiting \cup {"session", "closed"}
  /\ s.owner \in BOOLEAN /\ s.open \in BOOLEAN /\ s.keep \in BOOLEAN
  /\ s.op \in Operations \cup {"none"} /\ s.status \in Nat /\ s.read \in Nat
  /\ s.stage = "session" => s.op # "none"
  /\ s.stage # "session" => s.op = "none"
  /\ s.owner => s.stage = "session" /\ s.open

\* The server lists the sessions it owns, and has none while it is down.
ServerOK(v) ==
  /\ DOMAIN v = {"server", "session"} /\ DOMAIN v.server = {"up", "accepting", "listed", "starts"}
  /\ v.server.up \in BOOLEAN /\ v.server.accepting \in BOOLEAN /\ v.server.listed \subseteq Connections
  /\ ~v.server.up => v.server.listed = {} /\ ~v.server.accepting
  /\ v.session = [c \in Connections |-> v.session[c]]
  /\ \A c \in Connections :
       /\ SessionOK(v.session[c])
       /\ v.session[c].owner <=> c \in v.server.listed
       /\ v.session[c].stage = "accepted" => v.server.up

\* The answers that a client has are to its first requests, and none but the last of
\* those was the last request of its connection.
AnswersOK(cl) ==
  /\ DOMAIN cl = {"sent", "got", "hungUp"}
  /\ cl.sent \in Seq(HttpRequests) /\ cl.got \in Seq(Nat) /\ Len(cl.got) <= Len(cl.sent)
  /\ \A i \in 1..Len(cl.got) : cl.got[i] = StatusOf(cl.sent[i].effect)
  /\ \A i \in 1..Len(cl.got) - 1 : KeepAlive(cl.sent[i])

\* What a session has read, is about to answer and has answered.
ReadingOK(s, cl) ==
  /\ s.read = Len(cl.got)
  /\ \A i \in 1..s.read : KeepAlive(cl.sent[i])
WritingOK(s, cl) ==
  /\ s.read = Len(cl.got) + 1 /\ s.read <= Len(cl.sent)
  /\ s.status = StatusOf(cl.sent[s.read].effect) /\ s.keep = KeepAlive(cl.sent[s.read])
  /\ \A i \in 1..s.read - 1 : KeepAlive(cl.sent[i])
WrittenOK(s, cl) ==
  /\ s.read = Len(cl.got) /\ s.read > 0 /\ s.keep = KeepAlive(cl.sent[s.read])
  /\ \A i \in 1..s.read - 1 : KeepAlive(cl.sent[i])

\* What is between a session and its client.
ExchangeOK(s, cl) ==
  /\ AnswersOK(cl)
  /\ s.stage \in Waiting => cl.got = <<>> /\ s.read = 0
  /\ s.op = "reading" => ReadingOK(s, cl)
  /\ s.op = "writing" => WritingOK(s, cl)
  /\ s.op = "written" => WrittenOK(s, cl)

\* The inductive invariant of the server.
ServerInv ==
  /\ ServerOK(ServerState)
  /\ client = [c \in Connections |-> client[c]]
  /\ \A c \in Connections : ExchangeOK(session[c], client[c])

-----------------------------------------------------------------------------
(* The functions of the server. *)

\* A connection without a session.
LEMMA StagesAreOK ==
  ASSUME NEW stage \in Waiting \cup {"closed"}
  PROVE  SessionOK(AtStage(stage)) /\ AtStage(stage).stage = stage /\ ~AtStage(stage).owner
         /\ AtStage(stage).op = "none" /\ AtStage(stage).read = 0
BY DEF SessionOK, AtStage, Waiting

\* A session begins by reading.
LEMMA NewSessionIsOK ==
  /\ SessionOK(NewSession) /\ NewSession.stage = "session" /\ NewSession.owner
  /\ NewSession.op = "reading" /\ NewSession.read = 0
BY DEF SessionOK, NewSession, AtStage, Waiting, Operations

\* What a server that stops does to a session.
Left(s, t) == t = s \/ t = Disown(s) \/ t = Abandon(s)

\* What stop does to a session leaves its client with the answers it has.
LEMMA LeftKeepsExchange ==
  ASSUME NEW s, SessionOK(s), NEW t, Left(s, t), NEW cl, ExchangeOK(s, cl)
  PROVE  ExchangeOK(t, cl)
<1>1. CASE t = Disown(s)
  BY <1>1 DEF Disown, SessionOK, ExchangeOK, ReadingOK, WritingOK, WrittenOK
<1>2. CASE t = Abandon(s) /\ s.stage \in {"backlog", "accepted"}
  <2>1. t \in {AtStage("closed"), AtStage("orphaned")}
    BY <1>2 DEF Abandon, Closed
  <2>. QED  BY <1>2, <2>1, StagesAreOK DEF ExchangeOK, Waiting
<1>. QED  BY <1>1, <1>2 DEF Left, Abandon

\* start takes over no session.
LEMMA StartServerKeeps ==
  ASSUME NEW v, ServerOK(v)
  PROVE  ServerOK(StartServer(v)) /\ StartServer(v).session = v.session
BY DEF StartServer, ServerOK

\* stop leaves no session with the server.
LEMMA StopServerKeeps ==
  ASSUME NEW v, ServerOK(v)
  PROVE  /\ ServerOK(StopServer(v))
         /\ \A c \in Connections : /\ Left(v.session[c], StopServer(v).session[c])
                                   /\ ~StopServer(v).session[c].owner
<1>. DEFINE t(c) == IF c \in v.server.listed THEN Disown(v.session[c]) ELSE Abandon(v.session[c])
            w == StopServer(v)
<1>1. ASSUME NEW c \in Connections
      PROVE  SessionOK(t(c)) /\ ~t(c).owner /\ t(c).stage # "accepted" /\ Left(v.session[c], t(c))
  <2>1. CASE c \in v.server.listed
    BY <2>1 DEF ServerOK, SessionOK, Disown, Left
  <2>2. CASE c \notin v.server.listed
    BY <2>2, StagesAreOK DEF ServerOK, Abandon, Closed, Left, Waiting
  <2>. QED  BY <2>1, <2>2
<1>2. DOMAIN w = {"server", "session"} /\ w.session = [c \in Connections |-> t(c)]
      /\ w.server = [v.server EXCEPT !.up = FALSE, !.accepting = FALSE, !.listed = {}]
  BY DEF StopServer
<1>3. DOMAIN w.server = {"up", "accepting", "listed", "starts"} /\ w.server.up = FALSE
      /\ w.server.accepting = FALSE /\ w.server.listed = {}
  BY <1>2 DEF ServerOK
<1>. HIDE DEF w, t
<1>4. \A c \in Connections : w.session[c] = t(c)
  BY <1>2
<1>5. ServerOK(w)
  BY <1>1, <1>2, <1>3, <1>4 DEF ServerOK
<1>. QED  BY <1>1, <1>4, <1>5 DEF w

\* A handler may stop or start the server; other sessions are left at most.
LEMMA HandledKeeps ==
  ASSUME NEW v, ServerOK(v), NEW effect
  PROVE  /\ ServerOK(Handled(v, effect))
         /\ \A c \in Connections : Left(v.session[c], Handled(v, effect).session[c])
BY StartServerKeeps, StopServerKeeps DEF Handled, Left

\* The server forgets a session that has ended.
LEMMA ReleaseKeeps ==
  ASSUME NEW v, ServerOK(v), NEW c \in Connections
  PROVE  /\ ServerOK(Release(v, c))
         /\ \A d \in Connections : Release(v, c).session[d] = IF d = c THEN Closed ELSE v.session[d]
BY StagesAreOK DEF Release, ServerOK, Closed

-----------------------------------------------------------------------------
(* The steps. *)

\* The server before it is started.
LEMMA ServerInvInit == ServerInit => ServerInv
<1>. SUFFICES ASSUME ServerInit PROVE ServerInv
  OBVIOUS
<1>. DEFINE cl == [sent |-> <<>>, got |-> <<>>, hungUp |-> FALSE]
<1>1. SessionOK(AtStage("none")) /\ AtStage("none").stage = "none" /\ ~AtStage("none").owner
      /\ AtStage("none").op = "none" /\ AtStage("none").read = 0
  BY StagesAreOK DEF Waiting
<1>2. ExchangeOK(AtStage("none"), cl)
  BY <1>1 DEF ExchangeOK, AnswersOK
<1>3. ServerOK(ServerState)
  BY <1>1 DEF ServerInit, ServerState, ServerOK
<1>. QED  BY <1>2, <1>3 DEF ServerInit, ServerInv

\* A connection without a session gets to another stage without one.
LEMMA StageSteps ==
  ASSUME ServerOK(ServerState), NEW c \in Connections, session[c].stage # "session",
         NEW stage \in Waiting, stage = "accepted" => server.up,
         session' = [session EXCEPT ![c] = AtStage(stage)],
         server' = server \/ server' = [server EXCEPT !.accepting = FALSE]
  PROVE  /\ ServerOK(ServerState') /\ session'[c] = AtStage(stage)
         /\ \A d \in Connections : d # c => session'[d] = session[d]
<1>. DEFINE t == AtStage(stage)
<1>1. SessionOK(t) /\ t.stage = stage /\ ~t.owner
  BY StagesAreOK
<1>2. session' = [session EXCEPT ![c] = t]
  OBVIOUS
<1>. HIDE DEF t
<1>3. session = [d \in Connections |-> session[d]]
  BY DEF ServerOK, ServerState
<1>4. session' = [d \in Connections |-> session'[d]] /\ session'[c] = t
      /\ \A d \in Connections : d # c => session'[d] = session[d]
  BY <1>2, <1>3
<1>5. DOMAIN server' = {"up", "accepting", "listed", "starts"} /\ server'.up = server.up
      /\ server'.listed = server.listed /\ server'.accepting \in {FALSE, server.accepting}
  BY DEF ServerOK, ServerState
<1>6. ~session[c].owner
  BY DEF ServerOK, ServerState, SessionOK
<1>7. \A d \in Connections : /\ SessionOK(session'[d])
                             /\ session'[d].owner <=> d \in server'.listed
                             /\ session'[d].stage = "accepted" => server'.up
  BY <1>1, <1>4, <1>5, <1>6 DEF ServerOK, ServerState
<1>8. ServerOK(ServerState')
  BY <1>4, <1>5, <1>7 DEF ServerOK, ServerState
<1>. QED  BY <1>4, <1>8 DEF t

\* A step of one connection, in which the server may stop with all the others.
LEMMA ConnectionSteps ==
  ASSUME ServerInv, NEW c \in Connections, ServerOK(ServerState'),
         \A d \in Connections : d # c => Left(session[d], session'[d]) /\ client'[d] = client[d],
         client' = [d \in Connections |-> client'[d]],
         ExchangeOK(session'[c], client'[c])
  PROVE  ServerInv'
<1>1. ASSUME NEW d \in Connections PROVE ExchangeOK(session'[d], client'[d])
  <2>1. CASE d # c
    <3>1. SessionOK(session[d]) /\ ExchangeOK(session[d], client[d])
      BY DEF ServerInv, ServerOK, ServerState
    <3>. QED  BY <2>1, <3>1, LeftKeepsExchange
  <2>. QED  BY <2>1
<1>. QED  BY <1>1 DEF ServerInv

\* A step that only the session of a connection takes part in.
LEMMA SessionSteps ==
  ASSUME ServerInv, NEW c \in Connections, UNCHANGED client, ServerOK(ServerState'),
         \A d \in Connections : d # c => Left(session[d], session'[d]),
         ExchangeOK(session'[c], client[c])
  PROVE  ServerInv'
BY ConnectionSteps DEF ServerInv

\* A closed session is at nothing.
LEMMA ClosedIsOK ==
  ASSUME NEW s, NEW cl, ExchangeOK(s, cl)
  PROVE  ExchangeOK(Closed, cl)
BY StagesAreOK DEF ExchangeOK, Closed, Waiting

\* The server takes over what one of its functions made of it.
LEMMA BecomesOK ==
  ASSUME NEW v, ServerOK(v), Become(v)
  PROVE  ServerOK(ServerState')
BY DEF Become, ServerState, ServerOK

\* A session ends.
LEMMA ReleaseSteps ==
  ASSUME ServerInv, NEW c \in Connections, Become(Release(ServerState, c)), UNCHANGED client
  PROVE  ServerInv'
<1>1. ServerOK(Release(ServerState, c))
      /\ \A d \in Connections : Release(ServerState, c).session[d] = IF d = c THEN Closed ELSE session[d]
  BY ReleaseKeeps DEF ServerInv, ServerState
<1>2. ServerOK(ServerState')
  BY <1>1, BecomesOK
<1>3. session' = Release(ServerState, c).session
  BY DEF Become
<1>4. ExchangeOK(Closed, client[c])
  BY ClosedIsOK DEF ServerInv
<1>. QED  BY <1>1, <1>2, <1>3, <1>4, SessionSteps DEF Left

\* A client connects.
LEMMA ConnectStep ==
  ASSUME ServerInv, NEW c \in Connections, Connect(c)
  PROVE  ServerInv'
<1>1. AtStage("backlog").stage = "backlog" /\ AtStage("backlog").op = "none" /\ AtStage("backlog").read = 0
  BY StagesAreOK DEF Waiting
<1>2. /\ ServerOK(ServerState') /\ session'[c] = AtStage("backlog")
      /\ \A d \in Connections : d # c => session'[d] = session[d]
  BY StageSteps DEF Connect, ServerInv, Waiting
<1>3. ExchangeOK(session'[c], client[c])
  BY <1>1, <1>2 DEF Connect, ServerInv, ExchangeOK, Waiting
<1>. QED  BY <1>2, <1>3, SessionSteps DEF Connect, Left

\* The acceptor takes a connection from the backlog.
LEMMA AcceptStep ==
  ASSUME ServerInv, NEW c \in Connections, Accept(c)
  PROVE  ServerInv'
<1>1. AtStage("accepted").stage = "accepted" /\ AtStage("accepted").op = "none" /\ AtStage("accepted").read = 0
  BY StagesAreOK DEF Waiting
<1>2. server' = [server EXCEPT !.accepting = FALSE]
      /\ session' = [session EXCEPT ![c] = AtStage("accepted")] /\ UNCHANGED client
  BY DEF Accept, Become, ServerState
<1>3. server.up
  BY DEF Accept, ServerInv, ServerOK, ServerState
<1>4. /\ ServerOK(ServerState') /\ session'[c] = AtStage("accepted")
      /\ \A d \in Connections : d # c => session'[d] = session[d]
  BY <1>2, <1>3, StageSteps DEF Accept, ServerInv, Waiting
<1>5. ExchangeOK(session'[c], client[c])
  BY <1>1, <1>4 DEF Accept, ServerInv, ExchangeOK, Waiting
<1>. QED  BY <1>2, <1>4, <1>5, SessionSteps DEF Left

\* The handler of accept makes a session unless the server has stopped.
LEMMA AcceptedStep ==
  ASSUME ServerInv, NEW c \in Connections, Accepted(c)
  PROVE  ServerInv'
<1>0. SessionOK(session[c]) /\ ExchangeOK(session[c], client[c]) /\ session[c].stage \in {"accepted", "orphaned"}
  BY DEF ServerInv, ServerOK, ServerState, Accepted
<1>1. CASE session[c].stage = "orphaned"
  <2>1. server' = server /\ session' = [session EXCEPT ![c] = Closed] /\ UNCHANGED client
    BY <1>1 DEF Accepted, Become, OnAccept, ServerState
  <2>2. SessionOK(Closed) /\ ~Closed.owner /\ Closed.stage # "accepted"
    BY StagesAreOK DEF Closed
  <2>3. ServerOK(ServerState')
    BY <1>1, <2>1, <2>2 DEF ServerInv, ServerOK, ServerState, SessionOK
  <2>4. ExchangeOK(Closed, client[c])
    BY <1>0, ClosedIsOK
  <2>. QED  BY <2>1, <2>3, <2>4, SessionSteps DEF Left, ServerInv, ServerOK, ServerState
<1>2. CASE session[c].stage = "accepted"
  <2>1. server' = [server EXCEPT !.listed = @ \cup {c}, !.accepting = TRUE]
        /\ session' = [session EXCEPT ![c] = NewSession] /\ UNCHANGED client
    BY <1>2 DEF Accepted, Become, OnAccept, ServerState
  <2>2. ServerOK(ServerState')
    BY <1>2, <2>1, NewSessionIsOK DEF ServerInv, ServerOK, ServerState
  <2>3. ExchangeOK(NewSession, client[c])
    BY <1>0, <1>2, NewSessionIsOK DEF ExchangeOK, ReadingOK, Waiting, AnswersOK
  <2>. QED  BY <2>1, <2>2, <2>3, SessionSteps DEF Left, ServerInv, ServerOK, ServerState
<1>. QED  BY <1>0, <1>1, <1>2

\* Requests are only added to: what has been answered stays so.
LEMMA RequestStep ==
  ASSUME ServerInv, NEW c \in Connections, NEW request \in HttpRequests, Send(c, request)
  PROVE  ServerInv'
<1>. DEFINE cl == client[c]
            more == [cl EXCEPT !.sent = Append(@, request)]
            s == session[c]
<1>1. ExchangeOK(s, cl) /\ AnswersOK(cl)
  BY DEF ServerInv, ExchangeOK
<1>2. /\ DOMAIN more = DOMAIN cl /\ more.got = cl.got /\ more.sent \in Seq(HttpRequests)
      /\ Len(more.sent) = Len(cl.sent) + 1
      /\ \A i \in 1..Len(cl.sent) : more.sent[i] = cl.sent[i]
  BY <1>1 DEF AnswersOK
<1>3. client' = [client EXCEPT ![c] = more] /\ UNCHANGED <<server, session>>
  BY DEF Send
<1>. HIDE DEF more, cl, s
<1>5. Len(cl.got) \in Nat /\ Len(cl.sent) \in Nat /\ Len(cl.got) <= Len(cl.sent)
  BY <1>1 DEF AnswersOK
<1>4. AnswersOK(more)
  <2>1. DOMAIN more = {"sent", "got", "hungUp"} /\ more.got \in Seq(Nat) /\ Len(more.got) <= Len(more.sent)
    BY <1>1, <1>2, <1>5 DEF AnswersOK
  <2>2. \A i \in 1..Len(more.got) : more.got[i] = StatusOf(more.sent[i].effect)
    BY <1>1, <1>2, <1>5 DEF AnswersOK
  <2>3. \A i \in 1..Len(more.got) - 1 : KeepAlive(more.sent[i])
    BY <1>1, <1>2, <1>5 DEF AnswersOK
  <2>. QED  BY <1>2, <2>1, <2>2, <2>3 DEF AnswersOK
<1>6. ReadingOK(s, cl) => ReadingOK(s, more)
  BY <1>2, <1>5 DEF ReadingOK
<1>7. WritingOK(s, cl) => WritingOK(s, more)
  BY <1>2, <1>5 DEF WritingOK
<1>8. WrittenOK(s, cl) => WrittenOK(s, more)
  BY <1>2, <1>5 DEF WrittenOK
<1>9. ExchangeOK(s, more)
  BY <1>1, <1>2, <1>4, <1>6, <1>7, <1>8 DEF ExchangeOK
<1>10. client'[c] = more /\ \A d \in Connections : d # c => client'[d] = client[d]
  BY <1>3 DEF ServerInv
<1>11. client' = [d \in Connections |-> client'[d]]
  BY <1>3 DEF ServerInv
<1>12. ServerOK(ServerState')
  BY <1>3 DEF ServerInv, ServerState
<1>. QED  BY <1>3, <1>9, <1>10, <1>11, <1>12, ConnectionSteps DEF Left, s

\* A client closes its end.
LEMMA HangUpStep ==
  ASSUME ServerInv, NEW c \in Connections, HangUp(c)
  PROVE  ServerInv'
<1>. DEFINE cl == client[c]
            gone == [cl EXCEPT !.hungUp = TRUE]
            s == session[c]
<1>1. ExchangeOK(s, cl)
  BY DEF ServerInv
<1>2. DOMAIN gone = DOMAIN cl /\ gone.got = cl.got /\ gone.sent = cl.sent
  BY <1>1 DEF ExchangeOK, AnswersOK
<1>3. client' = [client EXCEPT ![c] = gone] /\ UNCHANGED <<server, session>>
  BY DEF HangUp
<1>. HIDE DEF gone, cl, s
<1>4. ExchangeOK(s, gone)
  BY <1>1, <1>2 DEF ExchangeOK, AnswersOK, ReadingOK, WritingOK, WrittenOK
<1>5. client'[c] = gone /\ (\A d \in Connections : d # c => client'[d] = client[d])
      /\ client' = [d \in Connections |-> client'[d]] /\ ServerOK(ServerState')
  BY <1>3 DEF ServerInv, ServerState
<1>. QED  BY <1>3, <1>4, <1>5, ConnectionSteps DEF Left, s

\* A request is read, handled and answered, unless the handler of a request, this one
\* or another one, has stopped the server.
LEMMA TakeRequestStep ==
  ASSUME ServerInv, NEW c \in Connections, TakeRequest(c)
  PROVE  ServerInv'
<1>. DEFINE s == session[c]
            cl == client[c]
            request == cl.sent[s.read + 1]
            v == [ServerState EXCEPT !.session[c].read = @ + 1]
            w == Handled(v, request.effect)
            answering == [w.session[c] EXCEPT !.op = "writing", !.keep = KeepAlive(request),
                                              !.status = StatusOf(request.effect)]
<1>1. SessionOK(s) /\ ExchangeOK(s, cl) /\ s.op = "reading" /\ s.stage = "session" /\ s.read < Len(cl.sent)
  BY DEF ServerInv, ServerOK, ServerState, TakeRequest, Unread, SessionOK
<1>2. UNCHANGED client /\ Become(OnRead(ServerState, c, request))
  BY DEF TakeRequest
<1>3. CASE ~s.owner
  BY <1>2, <1>3, ReleaseSteps DEF OnRead, ServerState
<1>4. CASE s.owner
  <2>1. /\ v.server = server /\ DOMAIN v = {"server", "session"}
        /\ v.session = [session EXCEPT ![c] = [s EXCEPT !.read = @ + 1]]
    BY DEF ServerState
  <2>. HIDE DEF v
  <2>2. SessionOK([s EXCEPT !.read = @ + 1]) /\ [s EXCEPT !.read = @ + 1].owner = s.owner
        /\ [s EXCEPT !.read = @ + 1].stage = s.stage
    BY <1>1 DEF SessionOK
  <2>. DEFINE t == [s EXCEPT !.read = @ + 1]
  <2>3. ServerOK(v)
    <3>. HIDE DEF t
    <3>1. v.session = [session EXCEPT ![c] = t] /\ SessionOK(t) /\ t.owner = s.owner /\ t.stage = s.stage
      BY <2>1, <2>2 DEF t
    <3>2. /\ session = [d \in Connections |-> session[d]] /\ server.listed \subseteq Connections
          /\ \A d \in Connections : /\ SessionOK(session[d])
                                    /\ session[d].owner <=> d \in server.listed
                                    /\ session[d].stage = "accepted" => server.up
      BY DEF ServerInv, ServerOK, ServerState
    <3>3. v.session = [d \in Connections |-> v.session[d]]
          /\ \A d \in Connections : v.session[d] = IF d = c THEN t ELSE session[d]
      BY <3>1, <3>2
    <3>4. \A d \in Connections : /\ SessionOK(v.session[d])
                                 /\ v.session[d].owner <=> d \in server.listed
                                 /\ v.session[d].stage = "accepted" => server.up
      BY <3>1, <3>2, <3>3
    <3>. QED  BY <2>1, <3>3, <3>4 DEF ServerInv, ServerOK, ServerState
  <2>4. v.session[c] = t /\ \A d \in Connections : d # c => v.session[d] = session[d]
    BY <2>1 DEF ServerInv, ServerOK, ServerState
  <2>5. ServerOK(w) /\ \A d \in Connections : Left(v.session[d], w.session[d])
    BY <2>3, HandledKeeps
  <2>. HIDE DEF w
  <2>6. \A d \in Connections : d # c => Left(session[d], w.session[d])
    BY <2>4, <2>5
  <2>7. Become(SendResponse(w, c, request))
    BY <1>2, <1>4 DEF OnRead, ServerState, w, v
  <2>8. CASE ~w.session[c].owner
    <3>1. session' = Release(w, c).session /\ ServerOK(ServerState')
      BY <2>5, <2>7, <2>8, ReleaseKeeps, BecomesOK DEF SendResponse, Become
    <3>2. session'[c] = Closed /\ \A d \in Connections : d # c => Left(session[d], session'[d])
      BY <2>5, <2>6, <3>1, ReleaseKeeps
    <3>. QED  BY <1>1, <1>2, <3>1, <3>2, ClosedIsOK, SessionSteps
  <2>9. CASE w.session[c].owner
    <3>. HIDE DEF t
    <3>1. w.session[c] = t
      <4>1. SessionOK(t) /\ t.stage = "session"
        BY <1>1, <2>2 DEF t
      <4>. QED  BY <2>4, <2>5, <2>9, <4>1 DEF Left, Disown, Abandon, SessionOK
    <3>. HIDE DEF s, cl
    <3>2. /\ SessionOK(answering) /\ answering.stage = "session" /\ answering.owner /\ answering.op = "writing"
          /\ answering.read = s.read + 1 /\ answering.keep = KeepAlive(request)
          /\ answering.status = StatusOf(request.effect)
      <4>1. StatusOf(request.effect) \in Nat
        BY DEF StatusOf
      <4>2. cl.sent \in Seq(HttpRequests) /\ s.read \in Nat
        BY <1>1 DEF ExchangeOK, AnswersOK, SessionOK
      <4>3. request \in HttpRequests
        BY <1>1, <4>2
      <4>4. KeepAlive(request) \in BOOLEAN
        BY <4>3, RequestsAssumption DEF KeepAlive
      <4>5. SessionOK(t) /\ t.stage = "session" /\ t.read = s.read + 1 /\ t.owner
        BY <1>1, <2>2, <2>9, <3>1 DEF t, SessionOK
      <4>. QED  BY <3>1, <4>1, <4>4, <4>5 DEF SessionOK, Operations
    <3>3. w.session = [d \in Connections |-> w.session[d]] /\ DOMAIN w = {"server", "session"}
      BY <2>5 DEF ServerOK
    <3>4. session' = [w.session EXCEPT ![c] = answering] /\ server' = w.server
      BY <2>7, <2>9, <3>3 DEF SendResponse, Become
    <3>. HIDE DEF answering
    <3>5. session'[c] = answering /\ \A d \in Connections : d # c => session'[d] = w.session[d]
      BY <3>3, <3>4
    <3>6. ServerOK(ServerState')
      BY <2>5, <2>9, <3>2, <3>3, <3>4, <3>5 DEF ServerOK, ServerState
    <3>7. WritingOK(answering, cl)
      <4>1. ReadingOK(s, cl) /\ AnswersOK(cl)
        BY <1>1 DEF ExchangeOK
      <4>. QED  BY <1>1, <3>2, <4>1 DEF ReadingOK, WritingOK, AnswersOK
    <3>8. ExchangeOK(answering, cl)
      BY <1>1, <3>2, <3>7 DEF ExchangeOK, Waiting
    <3>. QED  BY <1>2, <2>6, <3>5, <3>6, <3>8, SessionSteps DEF cl
  <2>. QED  BY <2>8, <2>9
<1>. QED  BY <1>3, <1>4

\* The client has the answer.
LEMMA AnswerStep ==
  ASSUME ServerInv, NEW c \in Connections, Delivered(c)
  PROVE  ServerInv'
<1>. DEFINE s == session[c]
            cl == client[c]
            t == [s EXCEPT !.op = "written"]
            more == [cl EXCEPT !.got = Append(@, s.status)]
<1>1. SessionOK(s) /\ AnswersOK(cl) /\ WritingOK(s, cl) /\ s.op = "writing" /\ s.stage = "session"
  BY DEF ServerInv, ServerOK, ServerState, Delivered, ExchangeOK, SessionOK
<1>2. session' = [session EXCEPT ![c] = t] /\ client' = [client EXCEPT ![c] = more] /\ server' = server
  BY DEF Delivered
<1>3. /\ SessionOK(t) /\ t.stage = s.stage /\ t.owner = s.owner /\ t.op = "written"
      /\ t.read = s.read /\ t.keep = s.keep
  BY <1>1 DEF SessionOK, Operations
<1>4. /\ DOMAIN more = DOMAIN cl /\ more.sent = cl.sent /\ more.got \in Seq(Nat)
      /\ Len(more.got) = Len(cl.got) + 1 /\ more.got[Len(cl.got) + 1] = s.status
      /\ \A i \in 1..Len(cl.got) : more.got[i] = cl.got[i]
  BY <1>1 DEF AnswersOK, SessionOK
<1>. HIDE DEF t, more, s, cl
<1>5. Len(cl.got) \in Nat /\ Len(cl.sent) \in Nat /\ Len(more.got) <= Len(cl.sent) /\ s.read = Len(more.got)
  BY <1>1, <1>4 DEF AnswersOK, WritingOK
<1>6. AnswersOK(more)
  <2>1. \A i \in 1..Len(more.got) : more.got[i] = StatusOf(more.sent[i].effect)
    <3>1. more.got[Len(more.got)] = StatusOf(more.sent[Len(more.got)].effect)
      BY <1>1, <1>4, <1>5 DEF WritingOK
    <3>2. \A i \in 1..Len(cl.got) : more.got[i] = StatusOf(more.sent[i].effect)
      BY <1>1, <1>4 DEF AnswersOK
    <3>3. \A i \in 1..Len(more.got) : i = Len(more.got) \/ i \in 1..Len(cl.got)
      BY <1>4, <1>5
    <3>. QED  BY <3>1, <3>2, <3>3
  <2>2. \A i \in 1..Len(more.got) - 1 : KeepAlive(more.sent[i])
    BY <1>1, <1>4, <1>5 DEF WritingOK
  <2>. QED  BY <1>1, <1>4, <1>5, <2>1, <2>2 DEF AnswersOK
<1>7. WrittenOK(t, more)
  BY <1>1, <1>3, <1>4, <1>5 DEF WritingOK, WrittenOK
<1>8. ExchangeOK(t, more)
  BY <1>1, <1>3, <1>6, <1>7 DEF ExchangeOK, Waiting
<1>9. session = [d \in Connections |-> session[d]] /\ client = [d \in Connections |-> client[d]]
  BY DEF ServerInv, ServerOK, ServerState
<1>10. /\ session'[c] = t /\ client'[c] = more
       /\ session' = [d \in Connections |-> session'[d]] /\ client' = [d \in Connections |-> client'[d]]
       /\ \A d \in Connections : d # c => session'[d] = session[d] /\ client'[d] = client[d]
  BY <1>2, <1>9
<1>11. ServerOK(ServerState')
  BY <1>2, <1>3, <1>10 DEF ServerInv, ServerOK, ServerState, s
<1>. QED  BY <1>8, <1>10, <1>11, ConnectionSteps DEF Left

\* The session reads on if it keeps the connection alive.
LEMMA WrittenStep ==
  ASSUME ServerInv, NEW c \in Connections, Written(c)
  PROVE  ServerInv'
<1>. DEFINE s == session[c]
            t == [s EXCEPT !.op = "reading"]
<1>1. SessionOK(s) /\ ExchangeOK(s, client[c]) /\ s.op = "written" /\ s.stage = "session"
  BY DEF ServerInv, ServerOK, ServerState, Written, SessionOK
<1>2. CASE ~s.owner \/ ~s.keep
  BY <1>2, ReleaseSteps DEF Written, OnWritten, ServerState
<1>3. CASE s.owner /\ s.keep
  <2>1. session' = [session EXCEPT ![c] = t] /\ server' = server /\ UNCHANGED client
    BY <1>3 DEF Written, OnWritten, Become, ServerState
  <2>2. SessionOK(t) /\ t.stage = s.stage /\ t.owner = s.owner /\ t.op = "reading" /\ t.read = s.read
    BY <1>1 DEF SessionOK, Operations
  <2>. HIDE DEF t
  <2>3. session' = [d \in Connections |-> session'[d]] /\ session'[c] = t
        /\ \A d \in Connections : d # c => session'[d] = session[d]
    BY <2>1 DEF ServerInv, ServerOK, ServerState
  <2>4. ServerOK(ServerState')
    BY <2>1, <2>2, <2>3 DEF ServerInv, ServerOK, ServerState
  <2>5. ReadingOK(t, client[c])
    <3>1. s.read \in Nat /\ s.read = Len(client[c].got) /\ KeepAlive(client[c].sent[s.read])
          /\ \A i \in 1..s.read - 1 : KeepAlive(client[c].sent[i])
      BY <1>1, <1>3 DEF ExchangeOK, WrittenOK, SessionOK
    <3>2. \A i \in 1..s.read : KeepAlive(client[c].sent[i])
      BY <3>1
    <3>. QED  BY <2>2, <3>1, <3>2 DEF ReadingOK
  <2>6. ExchangeOK(t, client[c])
    BY <1>1, <2>2, <2>5 DEF ExchangeOK, Waiting
  <2>. QED  BY <2>1, <2>3, <2>4, <2>6, SessionSteps DEF Left
<1>. QED  BY <1>2, <1>3

\* The server as a whole starts and stops.
LEMMA ServingSteps ==
  ASSUME ServerInv, StartServing \/ StopServing \/ AcceptFails
  PROVE  ServerInv'
<1>1. ServerOK(ServerState') /\ (\A d \in Connections : Left(session[d], session'[d])) /\ UNCHANGED client
  <2>1. CASE StartServing
    BY <2>1, StartServerKeeps, BecomesOK DEF StartServing, Become, ServerInv, ServerState, Left
  <2>2. CASE StopServing
    BY <2>2, StopServerKeeps, BecomesOK DEF StopServing, Become, ServerInv, ServerState
  <2>3. CASE AcceptFails
    BY <2>3 DEF AcceptFails, ServerInv, ServerOK, ServerState, Left
  <2>. QED  BY <2>1, <2>2, <2>3
<1>2. \A d \in Connections : ExchangeOK(session'[d], client[d])
  BY <1>1, LeftKeepsExchange DEF ServerInv, ServerOK, ServerState
<1>. QED  BY <1>1, <1>2 DEF ServerInv

\* Every step of the server and of its clients.
LEMMA ServerInvStep == ServerInv /\ [ServerNext]_serverVars => ServerInv'
<1>. SUFFICES ASSUME ServerInv, [ServerNext]_serverVars PROVE ServerInv'
  OBVIOUS
<1>1. CASE StartServing \/ StopServing \/ AcceptFails
  BY <1>1, ServingSteps
<1>2. ASSUME NEW c \in Connections, Connect(c) \/ Accept(c) \/ Accepted(c) \/ HangUp(c) PROVE ServerInv'
  BY <1>2, ConnectStep, AcceptStep, AcceptedStep, HangUpStep
<1>3. ASSUME NEW c \in Connections, TakeRequest(c) \/ Delivered(c) \/ Written(c) PROVE ServerInv'
  BY <1>3, TakeRequestStep, AnswerStep, WrittenStep
<1>4. ASSUME NEW c \in Connections, ReadEnds(c) \/ Fails(c) PROVE ServerInv'
  BY <1>4, ReleaseSteps DEF ReadEnds, Fails
<1>5. ASSUME NEW c \in Connections, NEW request \in HttpRequests, Send(c, request) PROVE ServerInv'
  BY <1>5, RequestStep
<1>6. CASE UNCHANGED serverVars
  BY <1>6 DEF serverVars, ServerInv, ServerState
<1>. QED  BY <1>1, <1>2, <1>3, <1>4, <1>5, <1>6 DEF ServerNext

\* However connections, restarts and handlers that restart the server interleave, the
\* list of the sessions is current and every client gets the answers to its requests.
THEOREM ServerServes == ServerSpec => []ServerServesItsClients
<1>1. ServerInv => ListIsCurrent
  BY DEF ServerInv, ServerOK, ServerState, SessionOK, ListIsCurrent, Served
<1>2. ServerInv => ClientsGetTheirAnswers
  <2>. SUFFICES ASSUME ServerInv, NEW c \in Connections
                PROVE  /\ AnswersOK(client[c])
                       /\ session[c].stage = "session" => session[c].read - Len(client[c].got) \in 0..1
    BY DEF ClientsGetTheirAnswers, AnswersOK
  <2>1. SessionOK(session[c]) /\ ExchangeOK(session[c], client[c]) /\ AnswersOK(client[c])
    BY DEF ServerInv, ServerOK, ServerState, ExchangeOK
  <2>2. Len(client[c].got) \in Nat
    BY <2>1 DEF AnswersOK
  <2>. QED  BY <2>1, <2>2 DEF SessionOK, ExchangeOK, ReadingOK, WritingOK, WrittenOK, Operations
<1>3. ServerSpec => []ServerInv
  BY ServerInvInit, ServerInvStep, PTL DEF ServerSpec
<1>. QED  BY <1>1, <1>2, <1>3, PTL DEF ServerServesItsClients

-----------------------------------------------------------------------------
(***************************************************************************)
(* The arithmetic of PTP times.                                            *)
(***************************************************************************)

\* Products keep the order of their factors.
LEMMA ProductGrows ==
  ASSUME NEW a \in Int, NEW b \in Int, NEW n \in Nat, a <= b
  PROVE  a * n <= b * n
  OBVIOUS

\* They may be taken apart.
LEMMA Distributes ==
  ASSUME NEW a \in Int, NEW b \in Int, NEW n \in Int
  PROVE  /\ a * n \in Int /\ (a + b) * n = a * n + b * n /\ (a - b) * n = a * n - b * n
         /\ (-a) * n = -(a * n)
  OBVIOUS

\* Quotient and remainder make up the number.
LEMMA Divides ==
  ASSUME NEW a \in Int, NEW n \in Nat \ {0}
  PROVE  /\ a \div n \in Int /\ a % n \in 0..(n - 1)
         /\ a = ((a \div n) * n) + (a % n)
         /\ a >= 0 => a \div n >= 0
  OBVIOUS

\* Division that rounds to zero leaves a rest of the sign of the number.
LEMMA Truncates ==
  ASSUME NEW a \in Int, NEW b \in Int \ {0}
  PROVE  /\ Quotient(a, b) \in Int /\ Remainder(a, b) \in Int
         /\ a = Quotient(a, b) * b + Remainder(a, b)
         /\ a >= 0 => Remainder(a, b) >= 0
         /\ a <= 0 => Remainder(a, b) <= 0
         /\ -Magnitude(b) < Remainder(a, b) /\ Remainder(a, b) < Magnitude(b)
<1>. DEFINE p == IF a >= 0 THEN a ELSE -a
            n == IF b > 0 THEN b ELSE -b
            q == p \div n
            r == p % n
<1>1. p \in Nat /\ n \in Nat \ {0}
  OBVIOUS
<1>. HIDE DEF p, n
<1>2. q \in Int /\ r \in 0..(n - 1) /\ p = q * n + r
  BY <1>1, Divides
<1>3. Quotient(a, b) = IF (a >= 0) = (b > 0) THEN q ELSE -q
  BY DEF Quotient, p, n
<1>. HIDE DEF q, r
<1>4. q * n \in Int /\ q * (-n) = -(q * n) /\ (-q) * n = -(q * n) /\ (-q) * (-n) = q * n
  BY <1>1, <1>2
<1>5. Quotient(a, b) * b = IF a >= 0 THEN q * n ELSE -(q * n)
  BY <1>2, <1>3, <1>4 DEF n
<1>6. Remainder(a, b) = IF a >= 0 THEN r ELSE -r
  BY <1>1, <1>2, <1>4, <1>5 DEF Remainder, p
<1>7. Quotient(a, b) \in Int
  BY <1>2, <1>3
<1>8. Magnitude(b) = n
  BY DEF Magnitude, n
<1>9. a = (IF a >= 0 THEN q * n ELSE -(q * n)) + (IF a >= 0 THEN r ELSE -r)
  BY <1>2, <1>4 DEF p
<1>. QED  BY <1>1, <1>2, <1>5, <1>6, <1>7, <1>8, <1>9 DEF p

\* A normalised interval is worth what it is made of.
IsInterval(i) ==
  DOMAIN i = {"seconds", "fractions"} /\ i.seconds \in Int /\ i.fractions \in 0..(SecondFractions - 1)

LEMMA SecondIsPositive == SecondFractions \in Nat \ {0}
<1>1. 1 * FractionScale <= Second * FractionScale
  BY TimeAssumption, ProductGrows
<1>. QED  BY <1>1, TimeAssumption DEF SecondFractions

LEMMA Normalizes ==
  ASSUME NEW s \in Int, NEW f \in Int
  PROVE  IsInterval(Interval(s, f)) /\ Fractions(Interval(s, f)) = s * SecondFractions + f
<1>. DEFINE n == SecondFractions
            carry == Quotient(f, n)
            rest == Remainder(f, n)
            borrow == Magnitude(carry) + (IF rest # 0 THEN 1 ELSE 0)
            i == Interval(s, f)
<1>1. n \in Nat \ {0}
  BY SecondIsPositive
<1>2. /\ carry \in Int /\ rest \in Int /\ f = carry * n + rest
      /\ f >= 0 => rest >= 0
      /\ f <= 0 => rest <= 0
      /\ -n < rest /\ rest < n
  BY <1>1, Truncates DEF Magnitude
<1>3. i = IF f >= n THEN [seconds |-> s + carry, fractions |-> f - carry * n]
          ELSE IF f < 0 THEN [seconds |-> s - borrow, fractions |-> f + borrow * n]
          ELSE [seconds |-> s, fractions |-> f]
  BY DEF Interval
<1>. HIDE DEF n, carry, rest
<1>4. CASE f >= n
  <2>1. (s + carry) * n = s * n + carry * n /\ s * n \in Int /\ carry * n \in Int
    BY <1>1, <1>2, Distributes
  <2>. QED  BY <1>1, <1>2, <1>3, <1>4, <2>1 DEF IsInterval, Fractions, n
<1>5. CASE f < 0
  <2>1. carry <= 0
    <3>. SUFFICES ASSUME carry >= 1 PROVE FALSE
      BY <1>2
    <3>1. 1 * n <= carry * n /\ carry * n \in Int
      BY <1>1, <1>2, ProductGrows, Distributes
    <3>. QED  BY <1>1, <1>2, <1>5, <3>1
  <2>2. borrow = -carry + (IF rest # 0 THEN 1 ELSE 0)
    BY <1>2, <2>1 DEF Magnitude
  <2>3. borrow \in Int /\ borrow * n = -(carry * n) + (IF rest # 0 THEN n ELSE 0)
    <3>1. (-carry + 1) * n = -(carry * n) + n /\ (-carry) * n = -(carry * n) /\ -carry + 0 = -carry
      BY <1>1, <1>2
    <3>. QED  BY <1>1, <1>2, <2>2, <3>1
  <2>. HIDE DEF borrow
  <2>4. (s - borrow) * n = s * n - borrow * n /\ s * n \in Int /\ carry * n \in Int
    BY <1>1, <1>2, <2>3, Distributes
  <2>. QED  BY <1>1, <1>2, <1>3, <1>5, <2>3, <2>4 DEF IsInterval, Fractions, n
<1>6. CASE f >= 0 /\ f < n
  <2>1. s * n \in Int
    BY <1>1
  <2>. QED  BY <1>1, <1>3, <1>6, <2>1 DEF IsInterval, Fractions, n
<1>. QED  BY <1>1, <1>4, <1>5, <1>6

\* A timestamp is a number of nanoseconds.
IsTime(ts) == DOMAIN ts = {"seconds", "nanos"} /\ ts.seconds \in Nat /\ ts.nanos \in 0..(Second - 1)

LEMMA TimeOfNanos ==
  ASSUME NEW n \in Nat
  PROVE  IsTime(FromNanos(n)) /\ Nanos(FromNanos(n)) = n
<1>. DEFINE q == n \div Second
            r == n % Second
<1>1. q \in Int /\ q >= 0 /\ r \in 0..(Second - 1) /\ n = q * Second + r
  <2>1. Second \in Nat \ {0} /\ n \in Int /\ n >= 0
    BY TimeAssumption
  <2>. QED  BY <2>1, Divides
<1>2. FromNanos(n) = [seconds |-> q, nanos |-> r]
  BY DEF FromNanos
<1>. HIDE DEF q, r
<1>. QED  BY <1>1, <1>2 DEF IsTime, Nanos

LEMMA NanosAreNat ==
  ASSUME NEW ts, IsTime(ts)
  PROVE  Nanos(ts) \in Nat /\ ts.seconds * Second \in Nat
<1>1. 0 * Second <= ts.seconds * Second /\ ts.seconds * Second \in Int /\ 0 * Second = 0
  BY TimeAssumption, ProductGrows DEF IsTime
<1>. QED  BY <1>1, TimeAssumption DEF IsTime, Nanos

\* Seconds decide which time is earlier, and then nanoseconds.
LEMMA EarlierIsLess ==
  ASSUME NEW a, NEW b, IsTime(a), IsTime(b)
  PROVE  IsEarlier(a, b) <=> Nanos(a) < Nanos(b)
<1>. DEFINE x == a.seconds
            y == b.seconds
<1>1. /\ x \in Nat /\ y \in Nat /\ a.nanos \in 0..(Second - 1) /\ b.nanos \in 0..(Second - 1)
      /\ Second \in Nat \ {0}
  BY TimeAssumption DEF IsTime
<1>2. IsEarlier(a, b) <=> x < y \/ (x = y /\ a.nanos < b.nanos)
  BY DEF IsEarlier
<1>3. Nanos(a) = x * Second + a.nanos /\ Nanos(b) = y * Second + b.nanos
  BY DEF Nanos
<1>. HIDE DEF x, y
<1>4. x * Second \in Int /\ y * Second \in Int
  BY <1>1, Distributes
<1>5. CASE x < y
  <2>1. (x + 1) * Second <= y * Second /\ (x + 1) * Second = x * Second + 1 * Second
    BY <1>1, <1>5, ProductGrows, Distributes
  <2>. QED  BY <1>1, <1>2, <1>3, <1>4, <1>5, <2>1
<1>6. CASE y < x
  <2>1. (y + 1) * Second <= x * Second /\ (y + 1) * Second = y * Second + 1 * Second
    BY <1>1, <1>6, ProductGrows, Distributes
  <2>. QED  BY <1>1, <1>2, <1>3, <1>4, <1>6, <2>1
<1>7. CASE x = y
  BY <1>1, <1>2, <1>3, <1>4, <1>7
<1>. QED  BY <1>1, <1>5, <1>6, <1>7

LEMMA Carries ==
  ASSUME NEW s \in Nat, NEW k \in Nat, k < 2 * Second
  PROVE  IsTime(Carried(s, k)) /\ Nanos(Carried(s, k)) = s * Second + k
<1>1. (s + 1) * Second = s * Second + Second /\ s * Second \in Int
  BY TimeAssumption
<1>. QED  BY <1>1, TimeAssumption DEF Carried, IsTime, Nanos

LEMMA WholeNanos ==
  ASSUME NEW i, IsInterval(i)
  PROVE  i.fractions \div FractionScale \in 0..(Second - 1)
<1>. DEFINE f == i.fractions
            q == f \div FractionScale
            r == f % FractionScale
<1>1. f \in Nat /\ f < Second * FractionScale
  BY SecondIsPositive DEF IsInterval, SecondFractions
<1>. HIDE DEF f
<1>2. q \in Int /\ q >= 0 /\ r \in 0..(FractionScale - 1) /\ f = q * FractionScale + r
  <2>1. FractionScale \in Nat \ {0} /\ f \in Int /\ f >= 0
    BY <1>1, TimeAssumption
  <2>. QED  BY <2>1, Divides
<1>. HIDE DEF q, r
<1>3. q >= Second => Second * FractionScale <= q * FractionScale
  BY <1>2, TimeAssumption, ProductGrows
<1>4. q * FractionScale \in Int /\ Second * FractionScale \in Int
  BY <1>2, TimeAssumption
<1>. QED  BY <1>1, <1>2, <1>3, <1>4, TimeAssumption DEF q, f

\* Time does not go below zero.
NotBelowZero(n) == IF n >= 0 THEN n ELSE 0

LEMMA IntervalIsAdded ==
  ASSUME NEW ts, NEW i, IsTime(ts), IsInterval(i)
  PROVE  /\ IsTime(AddInterval(ts, i)) /\ TotalNanos(i) \in Int
         /\ Nanos(AddInterval(ts, i)) = NotBelowZero(Nanos(ts) + TotalNanos(i))
<1>. DEFINE w == i.fractions \div FractionScale
            s == ts.seconds
            d == i.seconds
            k == ts.nanos + w
            c == Carried(s, k)
            sum1 == AddInterval(ts, i)
<1>1. w \in 0..(Second - 1) /\ s \in Nat /\ d \in Int /\ ts.nanos \in 0..(Second - 1) /\ Second \in Nat \ {0}
  BY WholeNanos, TimeAssumption DEF IsTime, IsInterval
<1>2. TotalNanos(i) = d * Second + w /\ Nanos(ts) = s * Second + ts.nanos
  BY DEF TotalNanos, Nanos
<1>3. sum1 = IF d >= 0 THEN Carried(s + d, k)
             ELSE IF -d > c.seconds THEN NoTimestamp ELSE [c EXCEPT !.seconds = @ + d]
  BY DEF AddInterval
<1>. HIDE DEF w, s, d, sum1
<1>4. s * Second \in Int /\ d * Second \in Int /\ (s + d) * Second = s * Second + d * Second
  BY <1>1, Distributes
<1>5. k \in Nat /\ k < 2 * Second
  BY <1>1
<1>6. Nanos(ts) + TotalNanos(i) = (s + d) * Second + k
  BY <1>1, <1>2, <1>4
<1>. HIDE DEF k
<1>7. IsTime(c) /\ Nanos(c) = s * Second + k
  BY <1>1, <1>5, Carries
<1>. HIDE DEF c
<1>8. CASE d >= 0
  <2>1. s + d \in Nat /\ 0 * Second <= (s + d) * Second /\ 0 * Second = 0 /\ (s + d) * Second \in Int
    BY <1>1, <1>4, <1>8, ProductGrows
  <2>. QED  BY <1>1, <1>2, <1>3, <1>4, <1>5, <1>6, <1>8, <2>1, Carries DEF NotBelowZero, sum1
<1>9. CASE d < 0
  <2>1. c.seconds \in Nat /\ c.nanos \in 0..(Second - 1) /\ c.seconds * Second \in Int
        /\ s * Second + k = c.seconds * Second + c.nanos
    BY <1>1, <1>7 DEF IsTime, Nanos
  <2>2. (c.seconds + d) * Second = c.seconds * Second + d * Second
    BY <1>1, <2>1, Distributes
  <2>3. Nanos(ts) + TotalNanos(i) = (c.seconds + d) * Second + c.nanos
    BY <1>4, <1>5, <1>6, <2>1, <2>2
  <2>4. CASE -d > c.seconds
    <3>1. (c.seconds + d) * Second <= (-1) * Second /\ (-1) * Second = -Second
      BY <1>1, <2>1, <2>4, ProductGrows
    <3>2. (c.seconds + d) * Second \in Int
      BY <1>1, <1>4, <2>1, <2>2
    <3>3. NotBelowZero(Nanos(ts) + TotalNanos(i)) = 0
      BY <1>1, <2>1, <2>3, <3>1, <3>2 DEF NotBelowZero
    <3>4. IsTime(NoTimestamp) /\ Nanos(NoTimestamp) = 0
      BY <1>1 DEF IsTime, Nanos, NoTimestamp
    <3>. QED  BY <1>1, <1>2, <1>3, <1>4, <1>9, <2>1, <2>4, <3>3, <3>4 DEF sum1
  <2>5. CASE ~(-d > c.seconds)
    <3>1. c.seconds + d \in Nat /\ 0 * Second <= (c.seconds + d) * Second /\ 0 * Second = 0
      BY <1>1, <2>1, <2>5, ProductGrows
    <3>2. sum1 = [c EXCEPT !.seconds = @ + d]
      BY <1>1, <1>3, <1>9, <2>1, <2>5
    <3>3. IsTime(sum1) /\ sum1.seconds = c.seconds + d /\ sum1.nanos = c.nanos
      BY <1>7, <3>1, <3>2 DEF IsTime
    <3>4. Nanos(sum1) = (c.seconds + d) * Second + c.nanos
      BY <3>3 DEF Nanos
    <3>. QED  BY <1>1, <1>2, <1>4, <2>1, <2>2, <2>3, <3>1, <3>3, <3>4 DEF NotBelowZero, sum1
  <2>. QED  BY <2>4, <2>5
<1>. QED  BY <1>1, <1>8, <1>9

LEMMA NanosAreAdded ==
  ASSUME NEW ts, IsTime(ts), NEW n \in Int
  PROVE  IsTime(AddNanos(ts, n)) /\ Nanos(AddNanos(ts, n)) = NotBelowZero(Nanos(ts) + n)
<1>. DEFINE q == Quotient(n, Second)
            r == Remainder(n, Second)
            seconds == Magnitude(q)
            nanos == Magnitude(r)
            s == ts.seconds
            borrow == IF nanos > ts.nanos THEN 1 ELSE 0
            t == AddNanos(ts, n)
<1>1. /\ q \in Int /\ r \in Int /\ n = q * Second + r
      /\ n >= 0 => r >= 0
      /\ n <= 0 => r <= 0
      /\ -Second < r /\ r < Second /\ Second \in Nat \ {0}
  BY TimeAssumption, Truncates DEF Magnitude
<1>2. s \in Nat /\ ts.nanos \in 0..(Second - 1) /\ Nanos(ts) = s * Second + ts.nanos
  BY DEF IsTime, Nanos
<1>3. t = IF n >= 0 THEN Carried(s + seconds, ts.nanos + nanos)
          ELSE IF borrow > s \/ seconds > s - borrow THEN NoTimestamp
          ELSE [seconds |-> s - borrow - seconds, nanos |-> ts.nanos + borrow * Second - nanos]
  BY DEF AddNanos
<1>. HIDE DEF q, r, s, t
<1>4. /\ n >= 0 => q >= 0
      /\ n < 0 => q <= 0
  <2>1. q >= 1 => 1 * Second <= q * Second /\ q * Second \in Int
    BY <1>1, ProductGrows
  <2>2. q <= -1 => q * Second <= (-1) * Second /\ q * Second \in Int /\ (-1) * Second = -Second
    BY <1>1, ProductGrows
  <2>. QED  BY <1>1, <2>1, <2>2
<1>5. CASE n >= 0
  <2>1. seconds = q /\ nanos = r
    BY <1>1, <1>4, <1>5 DEF Magnitude
  <2>2. (s + q) * Second = s * Second + q * Second /\ s * Second \in Int /\ q * Second \in Int
    BY <1>1, <1>2, Distributes
  <2>3. s + q \in Nat /\ ts.nanos + r \in Nat /\ ts.nanos + r < 2 * Second
    BY <1>1, <1>2, <1>4, <1>5
  <2>4. IsTime(t) /\ Nanos(t) = (s + q) * Second + (ts.nanos + r)
    BY <1>3, <1>5, <2>1, <2>3, Carries
  <2>5. Nanos(ts) \in Nat
    BY NanosAreNat
  <2>. QED  BY <1>1, <1>2, <1>5, <2>2, <2>4, <2>5 DEF NotBelowZero, t
<1>6. CASE n < 0
  <2>1. seconds = -q /\ nanos = -r
    BY <1>1, <1>4, <1>6 DEF Magnitude
  <2>2. borrow \in {0, 1} /\ borrow * Second = (IF borrow = 1 THEN Second ELSE 0)
    BY <1>1
  <2>3. (borrow = 1) <=> (-r > ts.nanos)
    BY <2>1
  <2>. HIDE DEF borrow, seconds, nanos
  <2>. DEFINE k == s - borrow + q
              v == ts.nanos + borrow * Second + r
  <2>4. k \in Int /\ v \in 0..(Second - 1)
    BY <1>1, <1>2, <1>6, <2>2, <2>3
  <2>5. Nanos(ts) + n = k * Second + v /\ k * Second \in Int
    <3>1. (s - borrow) * Second = s * Second - borrow * Second
      BY <1>1, <1>2, <2>2, Distributes
    <3>2. k * Second = (s - borrow) * Second + q * Second
      BY <1>1, <1>2, <2>2, Distributes
    <3>3. s * Second \in Int /\ borrow * Second \in Int /\ q * Second \in Int
      BY <1>1, <1>2, <2>2
    <3>. QED  BY <1>1, <1>2, <3>1, <3>2, <3>3
  <2>6. t = IF k < 0 THEN NoTimestamp ELSE [seconds |-> k, nanos |-> v]
    BY <1>1, <1>2, <1>3, <1>4, <1>6, <2>1, <2>2
  <2>. HIDE DEF k, v
  <2>7. CASE k < 0
    <3>1. k * Second <= (-1) * Second /\ (-1) * Second = -Second
      BY <1>1, <2>4, <2>7, ProductGrows
    <3>2. IsTime(NoTimestamp) /\ Nanos(NoTimestamp) = 0
      BY <1>1 DEF IsTime, Nanos, NoTimestamp
    <3>. QED  BY <1>1, <2>4, <2>5, <2>6, <2>7, <3>1, <3>2 DEF NotBelowZero, t
  <2>8. CASE k >= 0
    <3>1. 0 * Second <= k * Second /\ 0 * Second = 0
      BY <1>1, <2>4, <2>8, ProductGrows
    <3>2. IsTime(t) /\ Nanos(t) = k * Second + v
      BY <2>4, <2>6, <2>8 DEF IsTime, Nanos
    <3>. QED  BY <1>1, <2>4, <2>5, <3>1, <3>2 DEF NotBelowZero, t
  <2>. QED  BY <2>4, <2>7, <2>8
<1>. QED  BY <1>1, <1>5, <1>6

\* Factors cancel.
LEMMA Cancels ==
  ASSUME NEW a \in Int, NEW b \in Int, NEW n \in Nat \ {0}
  PROVE  /\ a * n < b * n => a < b
         /\ a * n <= b * n => a <= b
<1>1. a >= b => b * n <= a * n
  BY ProductGrows
<1>2. a >= b + 1 => (b + 1) * n <= a * n
  BY ProductGrows
<1>3. (b + 1) * n = b * n + 1 * n /\ a * n \in Int /\ b * n \in Int
  BY Distributes
<1>. QED  BY <1>1, <1>2, <1>3

LEMMA Associates ==
  ASSUME NEW a \in Int, NEW b \in Int, NEW c \in Int
  PROVE  a * (b * c) = (a * b) * c /\ (a * b) * c = (a * c) * b /\ a * b \in Int
  OBVIOUS

\* Intervals are added and subtracted like the fractions they are worth.
LEMMA IntervalsAdd ==
  ASSUME NEW a, NEW b, IsInterval(a), IsInterval(b)
  PROVE  /\ IsInterval(Plus(a, b)) /\ Fractions(Plus(a, b)) = Fractions(a) + Fractions(b)
         /\ IsInterval(Minus(a, b)) /\ Fractions(Minus(a, b)) = Fractions(a) - Fractions(b)
<1>. DEFINE s == a.seconds
            d == b.seconds
            e == a.fractions
            f == b.fractions
            n == SecondFractions
<1>1. s \in Int /\ d \in Int /\ e \in Int /\ f \in Int /\ n \in Int
  BY SecondIsPositive DEF IsInterval
<1>2. Fractions(a) = s * n + e /\ Fractions(b) = d * n + f
  BY DEF Fractions
<1>3. Plus(a, b) = Interval(s + d, e + f) /\ Minus(a, b) = Interval(s - d, e - f)
  BY DEF Plus, Minus
<1>. HIDE DEF s, d, e, f
<1>4. (s + d) * n = s * n + d * n /\ (s - d) * n = s * n - d * n /\ s * n \in Int /\ d * n \in Int
  BY <1>1, Distributes
<1>5. IsInterval(Plus(a, b)) /\ Fractions(Plus(a, b)) = (s + d) * n + (e + f)
  BY <1>1, <1>3, Normalizes
<1>6. IsInterval(Minus(a, b)) /\ Fractions(Minus(a, b)) = (s - d) * n + (e - f)
  BY <1>1, <1>3, Normalizes
<1>. QED  BY <1>1, <1>2, <1>4, <1>5, <1>6

LEMMA FractionsAreInt ==
  ASSUME NEW i, IsInterval(i)
  PROVE  Fractions(i) \in Int
BY SecondIsPositive DEF IsInterval, Fractions

\* The interval from zero to a time, and between two times.
LEMMA TimesDiffer ==
  ASSUME NEW a, NEW b, IsTime(a), IsTime(b)
  PROVE  IsInterval(Difference(a, b)) /\ Fractions(Difference(a, b)) = (Nanos(a) - Nanos(b)) * FractionScale
<1>1. ASSUME NEW ts, IsTime(ts)
      PROVE  IsInterval(ToInterval(ts)) /\ Fractions(ToInterval(ts)) = Nanos(ts) * FractionScale
  <2>. DEFINE s == ts.seconds
              k == ts.nanos
  <2>1. s \in Int /\ k \in Int /\ Second \in Int /\ FractionScale \in Int
    BY <1>1, TimeAssumption DEF IsTime
  <2>2. ToInterval(ts) = Interval(s, k * FractionScale) /\ Nanos(ts) = s * Second + k
    BY DEF ToInterval, Nanos
  <2>. HIDE DEF s, k
  <2>3. k * FractionScale \in Int /\ s * Second \in Int
    BY <2>1, Distributes
  <2>4. IsInterval(ToInterval(ts)) /\ Fractions(ToInterval(ts)) = s * SecondFractions + k * FractionScale
    BY <2>1, <2>2, <2>3, Normalizes
  <2>5. s * SecondFractions = (s * Second) * FractionScale
    BY <2>1, Associates DEF SecondFractions
  <2>6. (s * Second + k) * FractionScale = (s * Second) * FractionScale + k * FractionScale
    BY <2>1, <2>3, Distributes
  <2>. QED  BY <2>2, <2>4, <2>5, <2>6
<1>2. Nanos(a) \in Int /\ Nanos(b) \in Int /\ FractionScale \in Int
  BY NanosAreNat, TimeAssumption
<1>3. (Nanos(a) - Nanos(b)) * FractionScale = Nanos(a) * FractionScale - Nanos(b) * FractionScale
  BY <1>2, Distributes
<1>. QED  BY <1>1, <1>3, IntervalsAdd DEF Difference

\* A number that fits is what an int64_t holds of it.
LEMMA WrapsWhatDoesNotFit ==
  ASSUME NEW n \in Int
  PROVE  Int64(n) \in Int /\ (Fits(n) => Int64(n) = n)
<1>. DEFINE m == 2 * (WireLimit + 1)
            a == n + WireLimit + 1
<1>1. WireLimit \in Nat /\ m \in Nat \ {0} /\ a \in Int
  BY TimeAssumption
<1>2. Int64(n) = (a % m) - WireLimit - 1
  BY DEF Int64
<1>3. Fits(n) => 0 <= a /\ a < m
  BY <1>1 DEF Fits
<1>4. a = n + WireLimit + 1
  OBVIOUS
<1>. HIDE DEF a, m
<1>5. a % m \in Int /\ (0 <= a /\ a < m => a % m = a)
  BY <1>1
<1>. QED  BY <1>1, <1>2, <1>3, <1>4, <1>5

\* The fraction of an interval is a number, and what is left is whole nanoseconds.
LEMMA FractionIsInt ==
  ASSUME NEW i, IsInterval(i)
  PROVE  Fraction(i) \in Int /\ i.fractions \in Int /\ i.seconds \in Int
<1>1. FractionScale \in Nat \ {0} /\ i.fractions \in Int /\ i.seconds \in Int
  BY TimeAssumption, SecondIsPositive DEF IsInterval
<1>. QED  BY <1>1, Divides DEF Fraction

\* A factor is exact, but for the fraction, which keeps its sign.
LEMMA ProductIsExact ==
  ASSUME NEW i, IsInterval(i), NEW k \in Int \ {0}
  PROVE  /\ IsInterval(Multiplied(i, k))
         /\ Fits(i.seconds * k) /\ Fits(FractionsTimes(i, k)) =>
              Fractions(Multiplied(i, k)) =
                Fractions(i) * k + (IF k < 0 THEN 2 * Fraction(i) * Magnitude(k) ELSE 0)
<1>. DEFINE s == i.seconds
            f == i.fractions
            n == SecondFractions
            rest == Fraction(i)
            m == Magnitude(k)
            parts == FractionsTimes(i, k)
<1>1. s \in Int /\ f \in Int /\ n \in Int /\ rest \in Int /\ Fractions(i) = s * n + f
  BY SecondIsPositive, FractionIsInt DEF Fractions
<1>2. m \in Int /\ (k < 0 => m = -k) /\ (k >= 0 => m = k)
  BY DEF Magnitude
<1>3. parts = (f - rest) * k + rest * m /\ Multiplied(i, k) = Interval(Int64(s * k), Int64(parts))
  BY DEF Multiplied, FractionsTimes
<1>. HIDE DEF s, f, n, rest, m, parts
<1>4. (f - rest) * k = f * k - rest * k /\ s * k \in Int /\ f * k \in Int /\ rest * k \in Int
  BY <1>1, Distributes
<1>5. rest * m \in Int /\ rest * (-k) = -(rest * k)
  BY <1>1, <1>2
<1>6. parts \in Int /\ parts = f * k + (IF k < 0 THEN 2 * (rest * m) ELSE 0)
  <2>1. CASE k < 0
    BY <1>2, <1>3, <1>4, <1>5, <2>1
  <2>2. CASE k >= 0
    <3>1. rest * m = rest * k
      BY <1>2, <2>2
    <3>. QED  BY <1>3, <1>4, <2>2, <3>1
  <2>. QED  BY <2>1, <2>2
<1>7. /\ Int64(s * k) \in Int /\ (Fits(s * k) => Int64(s * k) = s * k)
      /\ Int64(parts) \in Int /\ (Fits(parts) => Int64(parts) = parts)
  BY <1>4, <1>6, WrapsWhatDoesNotFit
<1>8. /\ IsInterval(Multiplied(i, k))
      /\ Fractions(Multiplied(i, k)) = Int64(s * k) * n + Int64(parts)
  BY <1>3, <1>7, Normalizes DEF n
<1>9. (s * k) * n = (s * n) * k /\ s * n \in Int
  BY <1>1, Associates
<1>10. (s * n + f) * k = (s * n) * k + f * k
  BY <1>1, <1>9, Distributes
<1>11. ASSUME Fits(s * k), Fits(parts)
       PROVE  Fractions(Multiplied(i, k)) = Fractions(i) * k + (IF k < 0 THEN 2 * (rest * m) ELSE 0)
  <2>1. Fractions(Multiplied(i, k)) = (s * k) * n + parts
    BY <1>7, <1>8, <1>11
  <2>2. (s * k) * n \in Int /\ (s * n) * k \in Int
    BY <1>4, <1>1, <1>9
  <2>. QED  BY <1>1, <1>4, <1>5, <1>6, <1>9, <1>10, <2>1, <2>2
<1>12. 2 * rest * m = 2 * (rest * m)
  BY <1>1, <1>2
<1>. QED  BY <1>8, <1>11, <1>12 DEF s, rest, m, parts

\* A quotient misses at most one fraction.
LEMMA QuotientMisses ==
  ASSUME NEW i, IsInterval(i), NEW k \in Int \ {0}
  PROVE  /\ IsInterval(Divided(i, k)) /\ Quotient(Fractions(i), k) \in Int
         /\ Fits(FractionsToDivide(i, k)) =>
              /\ Quotient(Fractions(i), k) - 1 <= Fractions(Divided(i, k))
              /\ Fractions(Divided(i, k)) <= Quotient(Fractions(i), k) + 1
<1>. DEFINE s == i.seconds
            f == i.fractions
            n == SecondFractions
            q == Quotient(s, k)
            r == Remainder(s, k)
            x == f + r * n
            p == Quotient(x, k)
            z == Remainder(x, k)
            all == Quotient(Fractions(i), k)
            rest == Remainder(Fractions(i), k)
            have == q * n + p
            m == Magnitude(k)
<1>1. s \in Int /\ f \in Int /\ n \in Int /\ Fractions(i) = s * n + f /\ Fractions(i) \in Int
  BY SecondIsPositive, FractionsAreInt DEF IsInterval, Fractions
<1>. HIDE DEF s, f, n
<1>2. q \in Int /\ r \in Int /\ s = q * k + r
  BY <1>1, Truncates
<1>. HIDE DEF q, r
<1>3. x \in Int /\ x = FractionsToDivide(i, k) /\ x = f + (r * n)
  BY <1>1, <1>2 DEF FractionsToDivide, x, r, s, f, n
<1>. HIDE DEF x
<1>16. IsInterval(Divided(i, k)) /\ Int64(x) \in Int /\ (Fits(x) => Int64(x) = x)
  <2>1. Int64(x) \in Int /\ (Fits(x) => Int64(x) = x)
    BY <1>3, WrapsWhatDoesNotFit
  <2>2. Quotient(Int64(x), k) \in Int
    BY <2>1, Truncates
  <2>3. Divided(i, k) = Interval(q, Quotient(Int64(x), k))
    BY <1>3 DEF Divided, q, s
  <2>. QED  BY <1>2, <2>1, <2>2, <2>3, Normalizes
<1>4. p \in Int /\ z \in Int /\ x = p * k + z /\ -m < z /\ z < m
  <2>. HIDE DEF x
  <2>. QED  BY <1>3, Truncates
<1>5. all \in Int /\ rest \in Int /\ Fractions(i) = all * k + rest /\ -m < rest /\ rest < m
  BY <1>1, Truncates
<1>17. SUFFICES ASSUME Fits(x) PROVE all - 1 <= Fractions(Divided(i, k)) /\ Fractions(Divided(i, k)) <= all + 1
  BY <1>3, <1>5, <1>16 DEF all
<1>6. Divided(i, k) = Interval(q, p)
  BY <1>3, <1>16, <1>17 DEF Divided, q, p, s
<1>. HIDE DEF p, z, all, rest
<1>7. IsInterval(Divided(i, k)) /\ Fractions(Divided(i, k)) = have
  BY <1>2, <1>4, <1>6, Normalizes DEF n
<1>8. Fractions(i) = have * k + z
  <2>1. (q * k + r) * n = (q * k) * n + r * n /\ q * k \in Int /\ r * n \in Int /\ (q * k) * n \in Int
    BY <1>1, <1>2, Distributes
  <2>2. (q * k) * n = (q * n) * k /\ q * n \in Int
    BY <1>1, <1>2, Associates
  <2>3. have * k = (q * n) * k + p * k /\ p * k \in Int
    BY <1>4, <2>2, Distributes
  <2>. QED  BY <1>1, <1>2, <1>3, <1>4, <2>1, <2>2, <2>3
<1>9. have \in Int
  BY <1>1, <1>2, <1>4
<1>. HIDE DEF have
<1>10. (all - have) * k = z - rest /\ (all - have) * k = all * k - have * k
  <2>1. (all - have) * k = all * k - have * k /\ all * k \in Int /\ have * k \in Int
    BY <1>5, <1>9, Distributes
  <2>. QED  BY <1>4, <1>5, <1>8, <2>1
<1>11. m \in Nat \ {0} /\ (m = k \/ m = -k)
  BY DEF Magnitude
<1>. DEFINE d == all - have
<1>12. d \in Int
  BY <1>5, <1>9
<1>13. d * m = z - rest \/ d * m = rest - z
  <2>1. d * (-k) = -(d * k) /\ d * k = z - rest
    BY <1>10, <1>12
  <2>. QED  BY <1>4, <1>5, <1>11, <2>1
<1>14. (-2) * m < d * m /\ d * m < 2 * m
  BY <1>4, <1>5, <1>11, <1>13
<1>. HIDE DEF d
<1>15. -2 < d /\ d < 2
  BY <1>11, <1>12, <1>14, Cancels
<1>. QED  BY <1>5, <1>7, <1>9, <1>12, <1>15 DEF all, d

\* A product of checked integers is refused where it does not fit.
LEMMA ProductIsChecked ==
  ASSUME NEW w \in Nat, NEW a \in Int, NEW n \in Nat \ {0}
  PROVE  SafeProduct(-w - 1, w, a, n) = IF a * n > w THEN Bad("overflow")
                                        ELSE IF a * n < -w - 1 THEN Bad("underflow") ELSE Good(a * n)
<1>. DEFINE most == Quotient(w, n)
            least == Quotient(-w - 1, n)
            r == Remainder(w, n)
            z == Remainder(-w - 1, n)
<1>1. most \in Int /\ r \in Int /\ w = most * n + r /\ r >= 0 /\ r < n
  BY Truncates DEF Magnitude
<1>2. least \in Int /\ z \in Int /\ -w - 1 = least * n + z /\ z <= 0 /\ -n < z
  BY Truncates DEF Magnitude
<1>3. SafeProduct(-w - 1, w, a, n) =
        IF a = 0 THEN Good(0)
        ELSE IF a > 0 /\ a > most THEN Bad("overflow")
        ELSE IF a < 0 /\ a < least THEN Bad("underflow") ELSE Good(a * n)
  BY DEF SafeProduct
<1>. HIDE DEF most, least, r, z
<1>4. a * n \in Int /\ most * n \in Int /\ least * n \in Int
  BY <1>1, <1>2
<1>5. /\ a = 0 => a * n = 0
      /\ a > 0 => a * n > 0
      /\ a < 0 => a * n < 0
  BY <1>4, ProductGrows, Cancels
<1>6. a > most <=> a * n > w
  <2>1. a > most => (most + 1) * n <= a * n /\ (most + 1) * n = most * n + n
    BY <1>1, ProductGrows
  <2>2. a <= most => a * n <= most * n
    BY <1>1, ProductGrows
  <2>. QED  BY <1>1, <1>4, <2>1, <2>2
<1>7. a < least <=> a * n < -w - 1
  <2>1. a < least => a * n <= (least - 1) * n /\ (least - 1) * n = least * n - n
    BY <1>2, ProductGrows
  <2>2. a >= least => least * n <= a * n
    BY <1>2, ProductGrows
  <2>. QED  BY <1>2, <1>4, <2>1, <2>2
<1>8. CASE a = 0
  BY <1>3, <1>5, <1>8
<1>9. CASE a > 0
  BY <1>3, <1>4, <1>5, <1>6, <1>9
<1>10. CASE a < 0
  BY <1>3, <1>4, <1>5, <1>7, <1>10
<1>. QED  BY <1>8, <1>9, <1>10

\* The wire format of an interval is its fractions, or a limit.
LEMMA WireLimits ==
  ASSUME NEW i, IsInterval(i)
  PROVE  ToWireFormat(i) = LET whole == i.seconds * SecondFractions
                           IN  IF whole < -WireLimit - 1 THEN -WireLimit - 1
                               ELSE IF Fractions(i) > WireLimit THEN WireLimit ELSE Fractions(i)
<1>. DEFINE s == i.seconds
            f == i.fractions
            n == SecondFractions
            w == WireLimit
            whole == s * n
            part == s * Second
            Times(a, k) == AfterError(a, SafeProduct(-w - 1, w, a.value, k))
            one == Times(Good(s), Second)
            two == Times(one, FractionScale)
            sum3 == AfterError(two, SafeSum(-w - 1, w, two.value, f))
<1>1. /\ s \in Int /\ f \in Nat /\ n \in Int /\ w \in Nat
      /\ Second \in Nat \ {0} /\ FractionScale \in Nat \ {0} /\ Fractions(i) = whole + f
  BY SecondIsPositive, TimeAssumption DEF IsInterval, Fractions
<1>2. ToWireFormat(i) = CASE sum3.error = "overflow" -> w
                          [] sum3.error = "underflow" -> -w - 1
                          [] OTHER -> sum3.value
  BY DEF ToWireFormat
<1>3. part \in Int /\ whole = part * FractionScale /\ whole \in Int
  BY <1>1, Associates DEF SecondFractions
<1>4. one = IF part > w THEN Bad("overflow") ELSE IF part < -w - 1 THEN Bad("underflow") ELSE Good(part)
  BY <1>1, ProductIsChecked DEF AfterError, Good
<1>5. /\ part > 0 => whole >= part
      /\ part < 0 => whole <= part
  <2>1. part > 0 => 1 * part <= FractionScale * part /\ FractionScale * part = part * FractionScale
    BY <1>1, <1>3, ProductGrows
  <2>2. part < 0 => 1 * (-part) <= FractionScale * (-part) /\ FractionScale * (-part) = -(part * FractionScale)
    BY <1>1, <1>3, ProductGrows
  <2>. QED  BY <1>1, <1>3, <2>1, <2>2
<1>. HIDE DEF one, s, f, n, w, whole, part
<1>6. two = IF whole > w THEN Bad("overflow") ELSE IF whole < -w - 1 THEN Bad("underflow") ELSE Good(whole)
  <2>1. CASE part > w
    BY <1>1, <1>3, <1>4, <1>5, <2>1 DEF AfterError, Bad
  <2>2. CASE part < -w - 1
    BY <1>1, <1>3, <1>4, <1>5, <2>2 DEF AfterError, Bad
  <2>3. CASE ~(part > w) /\ ~(part < -w - 1)
    <3>1. one = Good(part) /\ one.value = part /\ one.error = "none"
      BY <1>4, <2>3 DEF Good
    <3>2. two = SafeProduct(-w - 1, w, part, FractionScale)
      BY <3>1 DEF AfterError
    <3>. QED  BY <1>1, <1>3, <3>2, ProductIsChecked
  <2>. QED  BY <2>1, <2>2, <2>3
<1>. HIDE DEF two
<1>7. CASE whole > w
  <2>1. sum3.error = "overflow"
    BY <1>6, <1>7 DEF AfterError, Bad
  <2>. QED  BY <1>1, <1>2, <1>3, <1>7, <2>1 DEF w, whole, s, n
<1>8. CASE whole < -w - 1
  <2>1. sum3.error = "underflow"
    BY <1>1, <1>3, <1>6, <1>8 DEF AfterError, Bad
  <2>. QED  BY <1>2, <1>8, <2>1 DEF w, whole, s, n
<1>9. CASE ~(whole > w) /\ ~(whole < -w - 1)
  <2>1. two.error = "none" /\ two.value = whole
    BY <1>6, <1>9 DEF Good
  <2>2. sum3 = IF f > 0 /\ whole > w - f THEN Bad("overflow") ELSE Good(whole + f)
    BY <1>1, <1>3, <2>1 DEF AfterError, SafeSum
  <2>3. (f > 0 /\ whole > w - f) <=> Fractions(i) > w
    BY <1>1, <1>3, <1>9
  <2>. HIDE DEF sum3
  <2>4. CASE Fractions(i) > w
    BY <1>2, <1>9, <2>2, <2>3, <2>4 DEF Bad, w, whole, s, n
  <2>5. CASE ~(Fractions(i) > w)
    <3>1. sum3.error = "none" /\ sum3.value = Fractions(i)
      BY <1>1, <2>2, <2>3, <2>5 DEF Good
    <3>. QED  BY <1>2, <1>9, <2>5, <3>1 DEF w, whole, s, n
  <2>. QED  BY <2>4, <2>5
<1>. QED  BY <1>7, <1>8, <1>9

\* Reading it gives an interval of that many fractions.
LEMMA WireIsRead ==
  ASSUME NEW v \in Int
  PROVE  IsInterval(FromWireFormat(v)) /\ Fractions(FromWireFormat(v)) = v
<1>. DEFINE nanos == v \div FractionScale
            r == v % FractionScale
            s == Quotient(nanos, Second)
            rest == (nanos - s * Second) * FractionScale + r
<1>1. Second \in Nat \ {0} /\ FractionScale \in Nat \ {0}
  BY TimeAssumption
<1>2. nanos \in Int /\ r \in Int /\ v = nanos * FractionScale + r
  BY <1>1, Divides
<1>3. FromWireFormat(v) = Interval(s, rest)
  BY DEF FromWireFormat
<1>. HIDE DEF nanos, r
<1>4. s \in Int
  BY <1>1, <1>2, Truncates
<1>. HIDE DEF s
<1>5. s * Second \in Int /\ (s * Second) * FractionScale \in Int /\ nanos * FractionScale \in Int
  BY <1>1, <1>2, <1>4
<1>6. (nanos - s * Second) * FractionScale = nanos * FractionScale - (s * Second) * FractionScale
  BY <1>1, <1>2, <1>5, Distributes
<1>7. rest = nanos * FractionScale - (s * Second) * FractionScale + r
  BY <1>6
<1>. HIDE DEF rest
<1>8. rest \in Int
  BY <1>2, <1>5, <1>7
<1>9. IsInterval(FromWireFormat(v)) /\ Fractions(FromWireFormat(v)) = s * SecondFractions + rest
  BY <1>3, <1>4, <1>8, Normalizes
<1>10. s * SecondFractions = (s * Second) * FractionScale
  BY <1>1, <1>4, Associates DEF SecondFractions
<1>. QED  BY <1>2, <1>5, <1>7, <1>9, <1>10

\* An RTP timestamp is the last sample that has begun.
LEMMA SampleHasBegun ==
  ASSUME NEW ts, IsTime(ts), NEW rate \in Nat \ {0}
  PROVE  /\ ToRtp(ts, rate) \in Nat
         /\ ToRtp(ts, rate) * Second <= Nanos(ts) * rate
         /\ Nanos(ts) * rate < ToRtp(ts, rate) * Second + Second
<1>. DEFINE s == ts.seconds
            k == ts.nanos
            all == k * rate
            q == all \div Second
            r == all % Second
            samples == ToRtp(ts, rate)
<1>1. s \in Nat /\ k \in Nat /\ Second \in Nat \ {0}
  BY TimeAssumption DEF IsTime
<1>2. Nanos(ts) = s * Second + k
  BY DEF Nanos
<1>. HIDE DEF s, k
<1>3. s * rate \in Int /\ s * rate >= 0 /\ all \in Int /\ all >= 0
  BY <1>1, ProductGrows
<1>. HIDE DEF all
<1>4. q \in Int /\ q >= 0 /\ r \in 0..(Second - 1) /\ all = q * Second + r
  BY <1>1, <1>3, Divides
<1>5. samples = s * rate + q
  BY DEF ToRtp, s, k, all
<1>. HIDE DEF q, r, samples
<1>6. samples * Second = (s * rate) * Second + q * Second
  BY <1>1, <1>3, <1>4, <1>5, Distributes
<1>7. Nanos(ts) * rate = (s * Second) * rate + all
  BY <1>1, <1>2, Distributes DEF all
<1>8. (s * rate) * Second = (s * Second) * rate /\ (s * Second) * rate \in Int /\ q * Second \in Int
  BY <1>1, <1>4, Associates
<1>. QED  BY <1>1, <1>3, <1>4, <1>5, <1>6, <1>7, <1>8 DEF samples

\* By way of samples a time loses less than a sample, and at most a nanosecond.
LEMMA TimeOfSample ==
  ASSUME NEW ts, IsTime(ts), NEW rate \in Nat \ {0}, NEW t, t = FromRtp(ToRtp(ts, rate), rate)
  PROVE  IsTime(t) /\ Nanos(ts) - Second \div rate - 1 <= Nanos(t) /\ Nanos(t) <= Nanos(ts)
<1>. DEFINE x == ToRtp(ts, rate) * Second
            y == x \div rate
            z == x % rate
            d == Second \div rate
            e == Second % rate
            n == Nanos(ts)
<1>1. Second \in Nat \ {0} /\ n \in Nat /\ x \in Int /\ x >= 0 /\ x <= n * rate /\ n * rate < x + Second
  <2>1. ToRtp(ts, rate) \in Nat /\ Second \in Nat \ {0}
    BY SampleHasBegun, TimeAssumption
  <2>2. 0 * Second <= x /\ x \in Int /\ 0 * Second = 0
    BY <2>1, ProductGrows
  <2>. QED  BY <2>1, <2>2, SampleHasBegun, NanosAreNat
<1>2. FromRtp(ToRtp(ts, rate), rate) = FromNanos(y)
  BY DEF FromRtp
<1>. HIDE DEF x, n
<1>3. y \in Int /\ y >= 0 /\ z \in 0..(rate - 1) /\ x = y * rate + z
  BY <1>1, Divides
<1>4. d \in Int /\ d >= 0 /\ e \in 0..(rate - 1) /\ Second = d * rate + e
  <2>1. Second \in Int /\ Second >= 0
    BY <1>1
  <2>. QED  BY <2>1, Divides
<1>. HIDE DEF y, z, d, e
<1>5. y * rate \in Int /\ d * rate \in Int /\ n * rate \in Int
  BY <1>1, <1>3, <1>4
<1>6. y <= n
  BY <1>1, <1>3, <1>5, Cancels
<1>7. n < y + d + 2
  <2>1. (y + d + 2) * rate = (y + d) * rate + 2 * rate /\ (y + d) * rate = y * rate + d * rate
    BY <1>3, <1>4, Distributes
  <2>2. n * rate < (y + d + 2) * rate
    BY <1>1, <1>3, <1>4, <1>5, <2>1
  <2>. QED  BY <1>1, <1>3, <1>4, <2>2, Cancels
<1>8. IsTime(t) /\ Nanos(t) = y
  BY <1>2, <1>3, TimeOfNanos
<1>. QED  BY <1>1, <1>3, <1>4, <1>6, <1>7, <1>8 DEF n, d

\* The upper half of the time now and the lower half of the timestamp.
LEMMA UpperHalfOfNow ==
  ASSUME NEW ts, NEW present, IsTime(ts), IsTime(present), NEW rate \in Nat \ {0},
         ToRtp(present, rate) \div RtpModulus = ToRtp(ts, rate) \div RtpModulus
  PROVE  FromRtp32(present, ToRtp32(ts, rate), rate) = FromRtp(ToRtp(ts, rate), rate)
<1>. DEFINE a == ToRtp(present, rate)
            b == ToRtp(ts, rate)
            q == a \div RtpModulus
            k == b \div RtpModulus
            r == a % RtpModulus
            m == b % RtpModulus
<1>1. a \in Int /\ b \in Int /\ RtpModulus \in Nat \ {0}
  BY SampleHasBegun, TimeAssumption
<1>2. FromRtp32(present, ToRtp32(ts, rate), rate) = FromRtp(a - r + m, rate)
  BY DEF FromRtp32, ToRtp32
<1>3. q = k
  OBVIOUS
<1>. HIDE DEF a, b
<1>4. q \in Int /\ r \in Int /\ a = q * RtpModulus + r /\ m \in Int /\ b = k * RtpModulus + m
  <2>1. q \in Int /\ r \in 0..(RtpModulus - 1) /\ a = q * RtpModulus + r
    BY <1>1, Divides
  <2>2. k \in Int /\ m \in 0..(RtpModulus - 1) /\ b = k * RtpModulus + m
    BY <1>1, Divides
  <2>. HIDE DEF q, k, r, m
  <2>. QED  BY <1>1, <2>1, <2>2
<1>. HIDE DEF q, k, r, m
<1>5. q * RtpModulus \in Int
  BY <1>1, <1>4
<1>6. a - r + m = b
  BY <1>3, <1>4, <1>5
<1>. QED  BY <1>2, <1>6 DEF a, b

LEMMA LeastIs ==
  ASSUME NEW n \in Int
  PROVE  Least(n) = NotBelowZero(n)
<1>1. NotBelowZero(n) \in {0, n} /\ \A y \in {0, n} : NotBelowZero(n) >= y
  BY DEF NotBelowZero
<1>2. \A x \in {0, n} : (\A y \in {0, n} : x >= y) => x = NotBelowZero(n)
  BY DEF NotBelowZero
<1>. QED  BY <1>1, <1>2 DEF Least, Max

LEMMA LimitedIs ==
  ASSUME NEW n \in Int
  PROVE  Limited(n) = IF n > WireLimit THEN WireLimit ELSE IF n < -WireLimit - 1 THEN -WireLimit - 1 ELSE n
<1>. DEFINE least == IF n > WireLimit THEN WireLimit ELSE n
            most == IF least < -WireLimit - 1 THEN -WireLimit - 1 ELSE least
            S == {WireLimit, n}
            T == {-WireLimit - 1, least}
<1>0. WireLimit \in Nat
  BY TimeAssumption
<1>1. Min(S) = least
  <2>1. least \in S /\ \A y \in S : least <= y
    BY <1>0
  <2>2. \A x \in S : (\A y \in S : x <= y) => x = least
    BY <1>0
  <2>. QED  BY <2>1, <2>2 DEF Min
<1>2. Max(T) = most
  <2>1. most \in T /\ \A y \in T : most >= y
    BY <1>0
  <2>2. \A x \in T : (\A y \in T : x >= y) => x = most
    BY <1>0
  <2>. QED  BY <2>1, <2>2 DEF Max
<1>3. Limited(n) = most
  BY <1>1, <1>2 DEF Limited
<1>. QED  BY <1>0, <1>3

\* The result of an application that computes is between what it is due to be.
SumInv ==
  /\ DOMAIN sum = {"time", "interval", "low", "high", "is", "steps"}
  /\ IsTime(sum.time) /\ IsInterval(sum.interval)
  /\ sum.low \in Int /\ sum.high \in Int /\ sum.is \in Int /\ sum.low <= sum.is /\ sum.is <= sum.high

LEMMA SumInit == EndpointsInit => SumInv
<1>. SUFFICES ASSUME EndpointsInit PROVE SumInv
  OBVIOUS
<1>1. IsTime(NoTimestamp)
  BY TimeAssumption DEF IsTime, NoTimestamp
<1>2. IsInterval(Interval(0, 0))
  BY Normalizes
<1>3. sum = [time |-> NoTimestamp, interval |-> Interval(0, 0), low |-> 0, high |-> 0, is |-> 0, steps |-> 0]
  BY DEF EndpointsInit, StartOfSum
<1>. QED  BY <1>1, <1>2, <1>3 DEF SumInv

LEMMA TimeIsNew ==
  ASSUME SumInv, NEW ts, NEW low \in Int, NEW high \in Int, NewTime(ts, low, high),
         IsTime(ts), low <= Nanos(ts), Nanos(ts) <= high
  PROVE  SumInv'
<1>. DEFINE is == Nanos(ts)
<1>1. is \in Int
  BY NanosAreNat
<1>2. sum' = [sum EXCEPT !.time = ts, !.low = low, !.high = high, !.is = is, !.steps = @ + 1]
  BY DEF NewTime
<1>3. low <= is /\ is <= high
  OBVIOUS
<1>. HIDE DEF is
<1>4. /\ DOMAIN sum' = {"time", "interval", "low", "high", "is", "steps"}
      /\ sum'.time = ts /\ sum'.interval = sum.interval /\ sum'.low = low /\ sum'.high = high /\ sum'.is = is
  BY <1>2 DEF SumInv
<1>. QED  BY <1>1, <1>3, <1>4 DEF SumInv

LEMMA IntervalIsNew ==
  ASSUME SumInv, NEW i, NEW low \in Int, NEW high \in Int, NewInterval(i, low, high),
         IsInterval(i), low <= Fractions(i), Fractions(i) <= high
  PROVE  SumInv'
<1>. DEFINE is == Fractions(i)
<1>1. is \in Int
  BY FractionsAreInt
<1>2. sum' = [sum EXCEPT !.interval = i, !.low = low, !.high = high, !.is = is, !.steps = @ + 1]
  BY DEF NewInterval
<1>3. low <= is /\ is <= high
  OBVIOUS
<1>. HIDE DEF is
<1>4. /\ DOMAIN sum' = {"time", "interval", "low", "high", "is", "steps"}
      /\ sum'.interval = i /\ sum'.time = sum.time /\ sum'.low = low /\ sum'.high = high /\ sum'.is = is
  BY <1>2 DEF SumInv
<1>. QED  BY <1>1, <1>3, <1>4 DEF SumInv

LEMMA SumStep == SumInv /\ [EndpointsNext]_<<endpoint, sum, vars, membershipVars, socketVars>> => SumInv'
<1>. SUFFICES ASSUME SumInv, [EndpointsNext]_<<endpoint, sum, vars, membershipVars, socketVars>> PROVE SumInv'
  OBVIOUS
<1>. DEFINE ts == sum.time
            i == sum.interval
<1>1. IsTime(ts) /\ IsInterval(i) /\ Nanos(ts) \in Int /\ Fractions(i) \in Int
  BY NanosAreNat, FractionsAreInt DEF SumInv
<1>. HIDE DEF ts, i
<1>2. CASE UNCHANGED sum
  BY <1>2 DEF SumInv
<1>3. CASE AddsToTime
  <2>1. CASE LET due == Least(Nanos(sum.time) + TotalNanos(sum.interval))
             IN  NewTime(AddInterval(sum.time, sum.interval), due, due)
    <3>. DEFINE due == Least(Nanos(ts) + TotalNanos(i))
                t == AddInterval(ts, i)
    <3>1. IsTime(t) /\ TotalNanos(i) \in Int /\ Nanos(t) = NotBelowZero(Nanos(ts) + TotalNanos(i))
      BY <1>1, IntervalIsAdded
    <3>2. due = Nanos(t) /\ due \in Int
      BY <1>1, <3>1, LeastIs, NanosAreNat
    <3>3. NewTime(t, due, due)
      BY <2>1 DEF ts, i
    <3>. HIDE DEF due, t
    <3>. QED  BY <3>1, <3>2, <3>3, TimeIsNew
  <2>2. ASSUME NEW n \in {sign * k : sign \in {1, -1}, k \in TimesUsed},
               LET due == Least(Nanos(sum.time) + n) IN NewTime(AddNanos(sum.time, n), due, due)
        PROVE  SumInv'
    <3>. DEFINE due == Least(Nanos(ts) + n)
                t == AddNanos(ts, n)
    <3>1. n \in Int
      BY <2>2, OperandAssumption
    <3>2. IsTime(t) /\ Nanos(t) = NotBelowZero(Nanos(ts) + n)
      BY <1>1, <3>1, NanosAreAdded
    <3>3. due = Nanos(t) /\ due \in Int
      BY <1>1, <3>1, <3>2, LeastIs, NanosAreNat
    <3>4. NewTime(t, due, due)
      BY <2>2 DEF ts
    <3>. HIDE DEF due, t
    <3>. QED  BY <3>2, <3>3, <3>4, TimeIsNew
  <2>. QED  BY <1>3, <2>1, <2>2 DEF AddsToTime
<1>4. CASE ThroughRtp
  <2>1. PICK n \in TimesUsed :
          /\ ToRtp(FromNanos(n), Rate) \div RtpModulus = ToRtp(ts, Rate) \div RtpModulus
          /\ NewTime(FromRtp32(FromNanos(n), ToRtp32(ts, Rate), Rate), Nanos(ts) - Second \div Rate - 1, Nanos(ts))
    BY <1>4 DEF ThroughRtp, ts
  <2>. DEFINE present == FromNanos(n)
              t == FromRtp32(present, ToRtp32(ts, Rate), Rate)
              low == Nanos(ts) - Second \div Rate - 1
  <2>2. Rate \in Nat \ {0} /\ IsTime(present)
    BY OperandAssumption, TimeOfNanos
  <2>3. t = FromRtp(ToRtp(ts, Rate), Rate)
    BY <1>1, <2>1, <2>2, UpperHalfOfNow
  <2>. HIDE DEF t, present
  <2>4. IsTime(t) /\ low <= Nanos(t) /\ Nanos(t) <= Nanos(ts)
    BY <1>1, <2>2, <2>3, TimeOfSample
  <2>5. low \in Int
    BY <1>1, <2>2, TimeAssumption
  <2>6. NewTime(t, low, Nanos(ts))
    BY <2>1 DEF t, present
  <2>. HIDE DEF low
  <2>. QED  BY <1>1, <2>4, <2>5, <2>6, TimeIsNew
<1>5. CASE Calculates
  <2>1. ASSUME NEW n \in TimesUsed,
               LET due == (Nanos(sum.time) - n) * FractionScale
               IN  NewInterval(Difference(sum.time, FromNanos(n)), due, due)
        PROVE  SumInv'
    <3>. DEFINE due == (Nanos(ts) - n) * FractionScale
                d == Difference(ts, FromNanos(n))
    <3>1. IsTime(FromNanos(n)) /\ Nanos(FromNanos(n)) = n
      BY OperandAssumption, TimeOfNanos
    <3>2. IsInterval(d) /\ Fractions(d) = due
      BY <1>1, <3>1, TimesDiffer
    <3>3. NewInterval(d, due, due)
      BY <2>1 DEF ts
    <3>. HIDE DEF d, due
    <3>. QED  BY <3>2, <3>3, FractionsAreInt, IntervalIsNew
  <2>2. ASSUME NEW n \in IntervalsUsed, NEW d,
               \/ d = Plus(i, Interval(0, n)) /\ NewInterval(d, Fractions(i) + n, Fractions(i) + n)
               \/ d = Minus(i, Interval(0, n)) /\ NewInterval(d, Fractions(i) - n, Fractions(i) - n)
        PROVE  SumInv'
    <3>1. n \in Int /\ IsInterval(Interval(0, n)) /\ Fractions(Interval(0, n)) = n
      <4>1. n \in Int /\ 0 * SecondFractions = 0
        BY OperandAssumption, SecondIsPositive
      <4>. QED  BY <4>1, Normalizes
    <3>2. IsInterval(d)
      BY <1>1, <2>2, <3>1, IntervalsAdd
    <3>3. CASE d = Plus(i, Interval(0, n)) /\ NewInterval(d, Fractions(i) + n, Fractions(i) + n)
      <4>1. Fractions(d) = Fractions(i) + n
        BY <1>1, <3>1, <3>3, IntervalsAdd
      <4>. QED  BY <1>1, <3>1, <3>2, <3>3, <4>1, IntervalIsNew
    <3>4. CASE d = Minus(i, Interval(0, n)) /\ NewInterval(d, Fractions(i) - n, Fractions(i) - n)
      <4>1. Fractions(d) = Fractions(i) - n
        BY <1>1, <3>1, <3>4, IntervalsAdd
      <4>. QED  BY <1>1, <3>1, <3>2, <3>4, <4>1, IntervalIsNew
    <3>. QED  BY <2>2, <3>3, <3>4
  <2>3. ASSUME NEW k \in Factors, MultipliesBy(k)
        PROVE  SumInv'
    <3>. DEFINE misplaced == IF k < 0 THEN 2 * Fraction(i) * Magnitude(k) ELSE 0
                d == Multiplied(i, k)
                fits == Fits(i.seconds * k) /\ Fits(FractionsTimes(i, k))
                due == IF fits THEN Fractions(i) * k + misplaced ELSE Fractions(d)
    <3>1. k \in Int \ {0}
      BY OperandAssumption
    <3>2. IsInterval(d) /\ (fits => Fractions(d) = Fractions(i) * k + misplaced)
      BY <1>1, <3>1, ProductIsExact
    <3>3. NewInterval(d, due, due)
      BY <2>3 DEF MultipliesBy, i
    <3>4. due = Fractions(d)
      BY <3>2
    <3>. HIDE DEF d, due
    <3>. QED  BY <3>2, <3>3, <3>4, FractionsAreInt, IntervalIsNew
  <2>4. ASSUME NEW k \in Factors, DividesBy(k)
        PROVE  SumInv'
    <3>. DEFINE fits == Fits(FractionsToDivide(i, k))
                q == Quotient(Fractions(i), k)
                d == Divided(i, k)
                due == IF fits THEN q ELSE Fractions(d)
    <3>1. k \in Int \ {0}
      BY OperandAssumption
    <3>2. q \in Int /\ IsInterval(d) /\ (fits => q - 1 <= Fractions(d) /\ Fractions(d) <= q + 1)
      BY <1>1, <3>1, QuotientMisses
    <3>3. NewInterval(d, due - 1, due + 1)
      BY <2>4 DEF DividesBy, i
    <3>4. Fractions(d) \in Int
      BY <3>2, FractionsAreInt
    <3>. HIDE DEF q, d, fits
    <3>5. due - 1 \in Int /\ due + 1 \in Int /\ due - 1 <= Fractions(d) /\ Fractions(d) <= due + 1
      BY <3>2, <3>4
    <3>. HIDE DEF due
    <3>. QED  BY <3>2, <3>3, <3>5, IntervalIsNew
  <2>. QED  BY <1>5, <2>1, <2>2, <2>3, <2>4 DEF Calculates, ts, i
<1>6. CASE ThroughWire
  <2>. DEFINE whole == i.seconds * SecondFractions
              v == ToWireFormat(i)
              low == IF whole < -WireLimit - 1 THEN -WireLimit - 1 ELSE Limited(Fractions(i))
              d == FromWireFormat(v)
  <2>1. NewInterval(d, low, low)
    BY <1>6 DEF ThroughWire, i
  <2>2. whole \in Int /\ Fractions(i) = whole + i.fractions /\ i.fractions >= 0 /\ i.fractions \in Int /\ WireLimit \in Nat
    BY <1>1, SecondIsPositive, TimeAssumption DEF IsInterval, Fractions
  <2>3. v = IF whole < -WireLimit - 1 THEN -WireLimit - 1 ELSE IF Fractions(i) > WireLimit THEN WireLimit ELSE Fractions(i)
    BY <1>1, WireLimits
  <2>4. v = low /\ v \in Int
    BY <1>1, <2>2, <2>3, LimitedIs
  <2>. HIDE DEF whole, v, low
  <2>5. IsInterval(d) /\ Fractions(d) = v
    BY <2>4, WireIsRead
  <2>. HIDE DEF d
  <2>. QED  BY <2>1, <2>4, <2>5, IntervalIsNew
<1>. QED  BY <1>2, <1>3, <1>4, <1>5, <1>6 DEF EndpointsNext, Computes

\* Whatever is computed with times, one operation after the other, has its parts in
\* their ranges and is what integers would give, also below zero, across seconds and at
\* the limits of the wire format.  (ptp_timestamp.hpp, ptp_time_interval.hpp)
THEOREM TimesStayExact == EndpointsSpec => []TimesAreExact
<1>1. SumInv => TimesAreExact
  <2>. SUFFICES ASSUME SumInv PROVE TimesAreExact
    OBVIOUS
  <2>1. ASSUME NEW n \in TimesUsed PROVE IsEarlier(sum.time, FromNanos(n)) <=> Nanos(sum.time) < n
    BY OperandAssumption, TimeOfNanos, EarlierIsLess DEF SumInv
  <2>. QED  BY <2>1 DEF SumInv, TimesAreExact, IsTime, IsInterval
<1>2. EndpointsSpec => []SumInv
  BY SumInit, SumStep, PTL DEF EndpointsSpec
<1>. QED  BY <1>1, <1>2, PTL
=============================================================================
