---------------------------- MODULE PartsProofs ----------------------------
(***************************************************************************)
(* Parts that meet nowhere.  Sockets are members of the groups that the    *)
(* readers of the audio receiver listen to and of no others, whatever      *)
(* readers come, go and move.  compare orders the data sets of foreign     *)
(* masters strictly and totally as long as masters agree on the quality of *)
(* a grandmaster, and so the scan finds the best one in whatever order it  *)
(* visits them.  Browsing for services ends with what is advertised, and   *)
(* the subscribers of the RAVENNA browser know it.  Applications know what *)
(* there is of a node that they subscribed to.                             *)
(***************************************************************************)
EXTENDS PtpDataSet, RtpMembership, DnsSd, NodeSubscribers, FiniteSetTheorems, TLAPS

-----------------------------------------------------------------------------
(***************************************************************************)
(* Induction, without an operator as a parameter: a set that holds zero,   *)
(* and with every number the next one, holds them all.                     *)
(***************************************************************************)
NumbersBelow == {p \in Nat \X Nat : p[1] < p[2]}

LEMMA BelowIsWellFounded == IsWellFoundedOn(NumbersBelow, Nat)
<1>1. OpToRel(<, Nat) = NumbersBelow BY DEF OpToRel, NumbersBelow
<1>. QED BY NatLessThanWellFounded, <1>1, Zenon

\* Some numbers have a least one.
LEMMA Smallest ==
  ASSUME NEW S, S \subseteq Nat, S # {}
  PROVE  \E n \in S : \A m \in S : n <= m
<1>1. PICK n \in S : \A m \in S : <<m, n>> \notin NumbersBelow
  BY BelowIsWellFounded, WFMin, Zenon
<1>2. n \in Nat /\ \A m \in S : m \in Nat /\ ~(m < n) BY <1>1 DEF NumbersBelow
<1>. QED BY <1>2

LEMMA Induction ==
  ASSUME NEW S, 0 \in S, \A n \in Nat : n \in S => n + 1 \in S
  PROVE  Nat \subseteq S
<1>. DEFINE T == {n \in Nat : n \notin S}
<1>1. SUFFICES ASSUME T # {} PROVE FALSE
  OBVIOUS
<1>2. PICK n \in T : \A m \in T : n <= m
  <2>1. T \subseteq Nat OBVIOUS
  <2>. HIDE DEF T
  <2>. QED BY <1>1, <2>1, Smallest
<1>3. n \in Nat /\ n # 0 /\ n \notin S OBVIOUS
<1>4. n - 1 \in Nat /\ (n - 1) + 1 = n BY <1>3
<1>5. n - 1 \notin S BY <1>3, <1>4
<1>. QED BY <1>2, <1>4, <1>5

\* The least of some numbers.
LEMMA MinOfSome ==
  ASSUME NEW S, S \subseteq Nat, S # {}
  PROVE  Min(S) \in S /\ \A n \in S : Min(S) <= n
BY Smallest DEF Min

-----------------------------------------------------------------------------
(***************************************************************************)
(* The sockets and groups of the audio receiver.  The invariant speaks of  *)
(* a record of the state, as the helpers of the operations do, and of the  *)
(* streams for which it holds already, as a new reader is served stream by *)
(* stream.                                                                 *)
(***************************************************************************)
StreamsOfAll == (1..Slots) \X (1..2)
StreamAt(w, p) == w.readers[p[1]].streams[p[2]]

StreamShape(stream) ==
  DOMAIN stream = {"session", "interface"} /\ stream.session \in Sessions \cup {NoSession}
ReaderShape(reader) ==
  /\ DOMAIN reader = {"id", "streams"} /\ DOMAIN reader.streams = 1..2
  /\ StreamShape(reader.streams[1]) /\ StreamShape(reader.streams[2])
MembershipShape(m) ==
  m = [socket |-> m.socket, group |-> m.group, interface |-> m.interface] /\ m.socket \in 1..SocketSlots
WorldShape(w) ==
  /\ DOMAIN w = {"readers", "sockets", "joined", "crashed"}
  /\ DOMAIN w.readers = 1..Slots /\ \A r \in 1..Slots : ReaderShape(w.readers[r])
  /\ DOMAIN w.sockets = 1..SocketSlots
  /\ \A m \in w.joined : MembershipShape(m)

\* No two sockets have one port.
PortsDiffer(w) ==
  \A s, t \in 1..SocketSlots : w.sockets[s] = w.sockets[t] /\ w.sockets[s] # NoPort => s = t

\* Only open sockets are members.
MembersAreOpen(w) == \A m \in w.joined : w.sockets[m.socket] # NoPort

\* A stream listens to what a socket is a member of.
Listens(w, stream, m) ==
  /\ stream.session # NoSession /\ stream.session.multicast /\ stream.interface # NoInterface
  /\ stream.session.group = m.group /\ stream.session.port = w.sockets[m.socket]
  /\ stream.interface = m.interface
AllListenedTo(w, keys) ==
  \A m \in w.joined : KeyOf(w, m) \notin keys => \E p \in StreamsOfAll : Listens(w, StreamAt(w, p), m)

SocketsAreUsed(w) == \A s \in 1..SocketSlots : w.sockets[s] # NoPort => IsUsed(w, w.sockets[s])

HasSocket(w, stream) ==
  stream.session # NoSession => \E s \in 1..SocketSlots : w.sockets[s] = stream.session.port
HasJoined(w, keys, stream) ==
  IsMulticast(stream) /\ HasInterface(stream) /\ Key(stream.session, stream.interface) \notin keys =>
    \E s \in 1..SocketSlots :
      w.sockets[s] = stream.session.port /\ Membership(s, stream.session, stream.interface) \in w.joined
Served(w, keys, served) == \A p \in served : HasSocket(w, StreamAt(w, p)) /\ HasJoined(w, keys, StreamAt(w, p))

\* What failed says how much of it holds, and the keys of which groups nothing is said.
NeverServed(failed) == failed \cap {"join", "open", "lock socket"} # {}
SoundBut(w, failed, keys, served) ==
  /\ WorldShape(w) /\ PortsDiffer(w) /\ MembersAreOpen(w)
  /\ "leave" \notin failed => AllListenedTo(w, keys)
  /\ ~NeverServed(failed) => Served(w, keys, served)
Sound(w, failed, keys, served) ==
  SoundBut(w, failed, keys, served) /\ ("lock socket" \notin failed => SocketsAreUsed(w))

\* A free reader has no streams.
FreeHaveNone(w) ==
  \A r \in 1..Slots : w.readers[r].id = NoId =>
    w.readers[r].streams[1].session = NoSession /\ w.readers[r].streams[2].session = NoSession

MembershipInv == Sound(World, faults, doubled, StreamsOfAll) /\ FreeHaveNone(World)

(***************************************************************************)
(* Counting                                                                *)
(***************************************************************************)
LEMMA StreamsAreFinite == IsFiniteSet(StreamsOfAll) /\ Cardinality(StreamsOfAll) = 2 * Slots
<1>1. Slots \in Nat BY SlotsAssumption
<1>2. IsFiniteSet(1..Slots) /\ Cardinality(1..Slots) = Slots BY <1>1, FS_Interval
<1>3. IsFiniteSet(1..2) /\ Cardinality(1..2) = 2
  <2>1. ASSUME NEW n \in Nat PROVE IsFiniteSet(1..n) /\ Cardinality(1..n) = n
    BY FS_Interval
  <2>. QED BY <2>1, Zenon
<1>4. IsFiniteSet((1..Slots) \X (1..2)) /\ Cardinality((1..Slots) \X (1..2)) = Slots * 2
  <2>. DEFINE A == 1..Slots
              B == 1..2
  <2>1. IsFiniteSet(A) /\ Cardinality(A) = Slots BY <1>2
  <2>2. IsFiniteSet(B) /\ Cardinality(B) = 2 BY <1>3
  <2>. HIDE DEF A, B
  <2>3. IsFiniteSet(A \X B) /\ Cardinality(A \X B) = Cardinality(A) * Cardinality(B)
    BY <2>1, <2>2, FS_Product, Zenon
  <2>. QED BY <2>1, <2>2, <2>3 DEF A, B
<1>. QED BY <1>1, <1>4 DEF StreamsOfAll

\* The count of a group that a stream is in is one just when no other stream is in it.
LEMMA CountedOnce ==
  ASSUME NEW w, NEW session, NEW interface, NEW p \in StreamsOfAll, InGroup(StreamAt(w, p), session, interface)
  PROVE  GroupCount(w, session, interface) = 1 <=>
           \A q \in StreamsOfAll : (InGroup(StreamAt(w, q), session, interface) => q = p)
<1>. DEFINE Group == {q \in StreamsOfAll : InGroup(StreamAt(w, q), session, interface)}
<1>1. GroupCount(w, session, interface) = Cardinality(Group)
  BY DEF GroupCount, StreamsOfAll, StreamAt
<1>2. IsFiniteSet(Group) BY StreamsAreFinite, FS_Subset
<1>3. Cardinality(Group) = 1 <=> \E x : Group = {x} BY <1>2, FS_Singleton
<1>4. p \in Group OBVIOUS
<1>5. (\E x : Group = {x}) <=> Group = {p} BY <1>4
<1>. QED BY <1>1, <1>3, <1>4, <1>5

\* It is none just when no stream is in it.
LEMMA CountedNever ==
  ASSUME NEW w, NEW session, NEW interface
  PROVE  GroupCount(w, session, interface) = 0 <=>
           \A q \in StreamsOfAll : ~InGroup(StreamAt(w, q), session, interface)
<1>. DEFINE Group == {q \in StreamsOfAll : InGroup(StreamAt(w, q), session, interface)}
<1>1. GroupCount(w, session, interface) = Cardinality(Group)
  BY DEF GroupCount, StreamsOfAll, StreamAt
<1>2. IsFiniteSet(Group) BY StreamsAreFinite, FS_Subset
<1>3. Cardinality(Group) = 0 <=> Group = {} BY <1>2, FS_EmptySet
<1>. QED BY <1>1, <1>3

\* As long as every open socket is used, there is one for a stream whose port has none.
LEMMA RoomForASocket ==
  ASSUME NEW w, WorldShape(w), PortsDiffer(w), SocketsAreUsed(w),
         NEW p \in StreamsOfAll, StreamAt(w, p).session # NoSession,
         \A s \in 1..SocketSlots : w.sockets[s] # StreamAt(w, p).session.port
  PROVE  \E s \in 1..SocketSlots : w.sockets[s] = NoPort
<1>1. SUFFICES ASSUME \A s \in 1..SocketSlots : w.sockets[s] # NoPort PROVE FALSE
  OBVIOUS
<1>. DEFINE Uses(s, q) == StreamAt(w, q).session # NoSession /\ StreamAt(w, q).session.port = w.sockets[s]
            user == [s \in 1..SocketSlots |-> CHOOSE q \in StreamsOfAll : Uses(s, q)]
<1>2. ASSUME NEW s \in 1..SocketSlots
      PROVE  user[s] \in StreamsOfAll /\ Uses(s, user[s])
  <2>1. \E r \in 1..Slots, i \in 1..2 :
          w.readers[r].streams[i].session # NoSession /\ w.readers[r].streams[i].session.port = w.sockets[s]
    BY <1>1 DEF SocketsAreUsed, IsUsed
  <2>2. PICK r \in 1..Slots, i \in 1..2 :
          w.readers[r].streams[i].session # NoSession /\ w.readers[r].streams[i].session.port = w.sockets[s]
    BY <2>1
  <2>3. <<r, i>> \in StreamsOfAll /\ Uses(s, <<r, i>>) BY <2>2 DEF StreamsOfAll, StreamAt
  <2>. HIDE DEF Uses
  <2>. QED BY <2>3
<1>3. user \in [1..SocketSlots -> StreamsOfAll \ {p}]
  BY <1>2
<1>4. Slots \in Nat \ {0} /\ SocketSlots = 2 * Slots BY SlotsAssumption DEF SocketSlots
<1>5. IsFiniteSet(1..SocketSlots) /\ Cardinality(1..SocketSlots) = SocketSlots
  <2>1. SocketSlots \in Int /\ ~(1 > SocketSlots) /\ SocketSlots - 1 + 1 = SocketSlots BY <1>4
  <2>2. IsFiniteSet(1..SocketSlots)
        /\ Cardinality(1..SocketSlots) = IF 1 > SocketSlots THEN 0 ELSE SocketSlots - 1 + 1
    BY <2>1, FS_Interval
  <2>. QED BY <2>1, <2>2
<1>6. IsFiniteSet(StreamsOfAll \ {p}) /\ Cardinality(StreamsOfAll \ {p}) = 2 * Slots - 1
  BY StreamsAreFinite, FS_RemoveElement
<1>7. Cardinality(StreamsOfAll \ {p}) < Cardinality(1..SocketSlots) BY <1>4, <1>5, <1>6
<1>8. PICK s, t \in 1..SocketSlots : s # t /\ user[s] = user[t]
  <2>. DEFINE S == 1..SocketSlots
              T == StreamsOfAll \ {p}
  <2>1. IsFiniteSet(S) /\ IsFiniteSet(T) /\ Cardinality(T) < Cardinality(S) /\ user \in [S -> T]
    BY <1>3, <1>5, <1>6, <1>7
  <2>2. \E s, t \in S : s # t /\ user[s] = user[t]
    <3>. HIDE DEF user, S, T
    <3>. QED BY <2>1, FS_PigeonHole, Zenon
  <2>. QED BY <2>2
<1>9. w.sockets[s] = w.sockets[t]
  <2>1. Uses(s, user[s]) /\ Uses(t, user[t]) BY <1>2
  <2>. QED BY <2>1, <1>8
<1>. QED BY <1>1, <1>8, <1>9 DEF PortsDiffer

(***************************************************************************)
(* The helpers of the operations                                           *)
(***************************************************************************)
\* At most a closed socket gets the port, and one has it unless there is none.
Opens(w, o, port, fault) ==
  /\ WorldShape(o) /\ PortsDiffer(o)
  /\ o.readers = w.readers /\ o.joined = w.joined
  /\ \A s \in 1..SocketSlots : o.sockets[s] = w.sockets[s] \/ (w.sockets[s] = NoPort /\ o.sockets[s] = port)
  /\ fault \notin {"open", "lock socket"} /\ (\E s \in 1..SocketSlots : w.sockets[s] = NoPort) =>
       \E s \in 1..SocketSlots : o.sockets[s] = port

LEMMA Opening ==
  ASSUME NEW w, NEW port, NEW fault, WorldShape(w), PortsDiffer(w), port # NoPort,
         NEW o, o = OpenSocket(w, port, fault)
  PROVE  Opens(w, o, port, fault)
<1>. DEFINE free == {s \in 1..SocketSlots : w.sockets[s] = NoPort}
            n == Min(free)
            opened == [w EXCEPT !.sockets[n] = port]
<1>1. CASE WithPort(w, port) # {} \/ free = {} \/ fault \in {"open", "lock socket"}
  <2>1. o = w BY <1>1 DEF OpenSocket
  <2>2. WithPort(w, port) # {} => \E s \in 1..SocketSlots : o.sockets[s] = port BY <2>1 DEF WithPort
  <2>3. free = {} => ~\E s \in 1..SocketSlots : w.sockets[s] = NoPort OBVIOUS
  <2>. HIDE DEF free
  <2>. QED BY <1>1, <2>1, <2>2, <2>3 DEF Opens
<1>2. CASE ~(WithPort(w, port) # {} \/ free = {} \/ fault \in {"open", "lock socket"})
  <2>1. o = opened BY <1>2 DEF OpenSocket
  <2>2. n \in 1..SocketSlots /\ w.sockets[n] = NoPort
    <3>1. SocketSlots \in Nat BY SlotsAssumption DEF SocketSlots
    <3>2. free \subseteq Nat BY <3>1
    <3>3. n \in free
      <4>. HIDE DEF free
      <4>1. free # {} BY <1>2
      <4>. QED BY <3>2, <4>1, MinOfSome
    <3>. QED BY <3>3
  <2>. HIDE DEF n
  <2>3. DOMAIN opened = DOMAIN w /\ opened.readers = w.readers /\ opened.joined = w.joined
        /\ opened.sockets = [w.sockets EXCEPT ![n] = port]
    BY DEF WorldShape
  <2>4. DOMAIN w.sockets = 1..SocketSlots BY DEF WorldShape
  <2>5. DOMAIN opened.sockets = 1..SocketSlots
        /\ \A s \in 1..SocketSlots : opened.sockets[s] = IF s = n THEN port ELSE w.sockets[s]
    BY <2>2, <2>3, <2>4
  <2>. HIDE DEF opened
  <2>6. WorldShape(o) BY <2>1, <2>3, <2>5 DEF WorldShape
  <2>7. PortsDiffer(o)
    <3>1. \A s \in 1..SocketSlots : w.sockets[s] # port BY <1>2 DEF WithPort
    <3>. QED BY <2>1, <2>2, <2>5, <3>1 DEF PortsDiffer
  <2>. QED BY <2>1, <2>2, <2>3, <2>5, <2>6, <2>7 DEF Opens
<1>. QED BY <1>1, <1>2

\* No other stream wants what has been left for stream p, and what it listens to
\* and has not been left is wanted by another one.
Leaves(w, v, p, fault) ==
  /\ WorldShape(v) /\ v.readers = w.readers /\ v.sockets = w.sockets /\ v.crashed = w.crashed
  /\ v.joined \subseteq w.joined
  /\ \A m \in w.joined \ v.joined :
       Listens(w, StreamAt(w, p), m)
       /\ \A q \in StreamsOfAll : (InGroup(StreamAt(w, q), StreamAt(w, p).session, m.interface) => q = p)
  /\ fault # "leave" => \A m \in v.joined : Listens(w, StreamAt(w, p), m) =>
       \E q \in StreamsOfAll : q # p /\ InGroup(StreamAt(w, q), StreamAt(w, p).session, m.interface)

LEMMA Leaving ==
  ASSUME NEW w, NEW fault, WorldShape(w), NEW p \in StreamsOfAll, NEW stream, stream = StreamAt(w, p),
         NEW v, v = LeaveStream(w, stream, fault)
  PROVE  Leaves(w, v, p, fault)
<1>. DEFINE members == {Membership(s, stream.session, stream.interface) : s \in WithPort(w, stream.session.port)}
            gone == [w EXCEPT !.joined = @ \ members]
            last == GroupCount(w, stream.session, stream.interface) = 1
<1>1. CASE ~(IsMulticast(stream) /\ HasInterface(stream))
  <2>1. v = w BY <1>1 DEF LeaveStream
  <2>2. \A m : ~Listens(w, stream, m) BY <1>1 DEF Listens, IsMulticast, HasInterface
  <2>. QED BY <2>1, <2>2 DEF Leaves
<1>2. CASE IsMulticast(stream) /\ HasInterface(stream)
  <2>1. InGroup(stream, stream.session, stream.interface) BY <1>2 DEF InGroup, IsMulticast
  <2>2. last <=> \A q \in StreamsOfAll : (InGroup(StreamAt(w, q), stream.session, stream.interface) => q = p)
    BY <2>1, CountedOnce
  <2>3. v = LeaveIfLast(w, stream, fault) BY <1>2 DEF LeaveStream
  <2>4. CASE ~last \/ fault = "leave"
    <3>1. v = w BY <2>3, <2>4 DEF LeaveIfLast
    <3>2. ~last => \E q \in StreamsOfAll : q # p /\ InGroup(StreamAt(w, q), stream.session, stream.interface)
      BY <2>2
    <3>3. \A m : Listens(w, stream, m) => m.interface = stream.interface BY DEF Listens
    <3>. HIDE DEF last
    <3>. QED BY <2>4, <3>1, <3>2, <3>3 DEF Leaves
  <2>5. CASE last /\ fault # "leave"
    <3>1. v = gone BY <2>3, <2>5 DEF LeaveIfLast
    <3>2. DOMAIN gone = DOMAIN w /\ gone.readers = w.readers /\ gone.sockets = w.sockets /\ gone.crashed = w.crashed
          /\ gone.joined = w.joined \ members
      BY DEF WorldShape
    <3>3. \A m \in w.joined \cap members : Listens(w, stream, m) /\ m.interface = stream.interface
      BY <1>2 DEF Listens, Membership, WithPort, IsMulticast, HasInterface
    <3>4. \A m \in w.joined : Listens(w, stream, m) => m \in members
      <4>1. SUFFICES ASSUME NEW m \in w.joined, Listens(w, stream, m) PROVE m \in members
        OBVIOUS
      <4>2. m.socket \in WithPort(w, stream.session.port) BY <4>1 DEF Listens, WithPort, WorldShape, MembershipShape
      <4>3. m = Membership(m.socket, stream.session, stream.interface)
        BY <4>1 DEF Listens, Membership, WorldShape, MembershipShape
      <4>. QED BY <4>2, <4>3
    <3>. HIDE DEF gone, members, last
    <3>5. WorldShape(v) BY <3>1, <3>2 DEF WorldShape
    <3>. QED BY <2>2, <2>5, <3>1, <3>2, <3>3, <3>4, <3>5 DEF Leaves
  <2>. QED BY <2>4, <2>5
<1>. QED BY <1>1, <1>2

LEMMA StreamHasShape ==
  ASSUME NEW w, WorldShape(w), NEW p \in StreamsOfAll
  PROVE  /\ StreamShape(StreamAt(w, p))
         /\ StreamAt(w, p).session # NoSession =>
              StreamAt(w, p).session \in Sessions /\ StreamAt(w, p).session.port # NoPort
<1>1. PICK r \in 1..Slots, i \in 1..2 : p = <<r, i>> BY DEF StreamsOfAll
<1>2. i = 1 \/ i = 2 OBVIOUS
<1>3. ReaderShape(w.readers[r]) BY DEF WorldShape
<1>4. StreamShape(w.readers[r].streams[i]) BY <1>2, <1>3 DEF ReaderShape
<1>5. StreamShape(StreamAt(w, p)) BY <1>1, <1>4 DEF StreamAt
<1>. QED BY <1>5, SessionsAssumption DEF StreamShape

\* A stream that is in a group listens to the members of that group.
LEMMA GroupIsHeard ==
  ASSUME NEW w, WorldShape(w), NEW m, NEW p \in StreamsOfAll, NEW q \in StreamsOfAll,
         Listens(w, StreamAt(w, p), m), InGroup(StreamAt(w, q), StreamAt(w, p).session, m.interface)
  PROVE  Listens(w, StreamAt(w, q), m)
<1>1. StreamAt(w, p).session \in Sessions /\ StreamAt(w, q).session \in Sessions
  BY StreamHasShape DEF Listens, InGroup
<1>2. StreamAt(w, q).session.multicast
  BY <1>1, SessionsAssumption DEF Listens, InGroup
<1>. QED BY <1>1, <1>2 DEF Listens, InGroup

\* Two streams of a group have joined it if one of them has.
LEMMA GroupIsJoined ==
  ASSUME NEW w, NEW v, WorldShape(w), NEW p \in StreamsOfAll, NEW q \in StreamsOfAll,
         IsMulticast(StreamAt(w, p)), NEW interface, interface # NoInterface,
         InGroup(StreamAt(w, q), StreamAt(w, p).session, interface),
         NEW keys, Key(StreamAt(w, p).session, interface) \notin keys, HasJoined(v, keys, StreamAt(w, q))
  PROVE  \E s \in 1..SocketSlots :
           v.sockets[s] = StreamAt(w, p).session.port /\ Membership(s, StreamAt(w, p).session, interface) \in v.joined
<1>1. StreamAt(w, p).session \in Sessions /\ StreamAt(w, q).session \in Sessions
  BY StreamHasShape DEF IsMulticast, InGroup
<1>2. IsMulticast(StreamAt(w, q)) /\ HasInterface(StreamAt(w, q))
  BY <1>1, SessionsAssumption DEF IsMulticast, InGroup, HasInterface
<1>5. Key(StreamAt(w, q).session, StreamAt(w, q).interface) \notin keys BY DEF Key, InGroup
<1>3. PICK s \in 1..SocketSlots :
        /\ v.sockets[s] = StreamAt(w, q).session.port
        /\ Membership(s, StreamAt(w, q).session, StreamAt(w, q).interface) \in v.joined
  BY <1>2, <1>5 DEF HasJoined
<1>4. Membership(s, StreamAt(w, q).session, StreamAt(w, q).interface) = Membership(s, StreamAt(w, p).session, interface)
  BY DEF Membership, InGroup
<1>. QED BY <1>3, <1>4 DEF InGroup

\* What another stream has joined has not been left.
LEMMA OthersStayJoined ==
  ASSUME NEW w, NEW v, NEW fault, NEW p \in StreamsOfAll, NEW q \in StreamsOfAll, q # p, Leaves(w, v, p, fault),
         NEW keys, HasJoined(w, keys, StreamAt(w, q))
  PROVE  HasJoined(v, keys, StreamAt(w, q))
<1>. DEFINE other == StreamAt(w, q)
<1>1. SUFFICES ASSUME IsMulticast(other), HasInterface(other), Key(other.session, other.interface) \notin keys
               PROVE  HasJoined(v, keys, other)
  BY DEF HasJoined
<1>2. PICK s \in 1..SocketSlots :
        w.sockets[s] = other.session.port /\ Membership(s, other.session, other.interface) \in w.joined
  BY <1>1 DEF HasJoined
<1>. DEFINE m == Membership(s, other.session, other.interface)
<1>3. m.socket = s /\ m.group = other.session.group /\ m.interface = other.interface BY DEF Membership
<1>4. m \in v.joined
  <2>1. SUFFICES ASSUME m \notin v.joined PROVE FALSE OBVIOUS
  <2>2. Listens(w, StreamAt(w, p), m) /\ (InGroup(other, StreamAt(w, p).session, m.interface) => q = p)
    BY <1>2, <2>1 DEF Leaves
  <2>3. InGroup(other, StreamAt(w, p).session, m.interface)
    BY <1>1, <1>2, <1>3, <2>2 DEF InGroup, Listens, IsMulticast
  <2>. QED BY <2>2, <2>3
<1>5. v.sockets = w.sockets BY DEF Leaves
<1>. QED BY <1>2, <1>4, <1>5 DEF HasJoined

\* When other streams are in the group of a stream, one of them is served.
OthersServed(w, p, keys, served) ==
  LET stream == StreamAt(w, p)
      IsWith(q) == q # p /\ InGroup(StreamAt(w, q), stream.session, stream.interface)
  IN  IsMulticast(stream) /\ HasInterface(stream) /\ Key(stream.session, stream.interface) \notin keys =>
        ((\E q \in StreamsOfAll : IsWith(q)) => \E q \in served : IsWith(q))

SameReaders(w, v) == v.readers = w.readers

LEMMA SettingUp ==
  ASSUME NEW w, NEW keys, NEW failed, NEW fault, fault \in failed \cup {"none"},
         NEW served, served \subseteq StreamsOfAll, Sound(w, failed, keys, served),
         NEW p \in StreamsOfAll, OthersServed(w, p, keys, served),
         NEW stream, stream = StreamAt(w, p), NEW v, v = SetUpStream(w, stream, fault)
  PROVE  Sound(v, failed, keys, served \cup {p}) /\ SameReaders(w, v)
<1>1. CASE stream.session = NoSession
  <2>1. v = w BY <1>1 DEF SetUpStream
  <2>2. HasSocket(w, stream) /\ HasJoined(w, keys, stream) BY <1>1 DEF HasSocket, HasJoined, IsMulticast
  <2>. QED BY <2>1, <2>2 DEF Sound, SoundBut, Served, SameReaders
<1>2. CASE stream.session # NoSession
  <2>. DEFINE number == stream.session.port
              o == OpenSocket(w, number, fault)
              socket == WithPort(o, number)
              n == Min(socket)
              member == Membership(n, stream.session, stream.interface)
              once == GroupCount(o, stream.session, stream.interface) = 1
              joins == socket # {} /\ IsMulticast(stream) /\ HasInterface(stream) /\ once
              more == [o EXCEPT !.joined = @ \cup {member}]
  <2>1. stream.session \in Sessions /\ number # NoPort BY <1>2, StreamHasShape DEF Sound, SoundBut
  <2>2. WorldShape(w) /\ PortsDiffer(w) /\ MembersAreOpen(w) BY DEF Sound, SoundBut
  <2>3. /\ WorldShape(o) /\ PortsDiffer(o)
        /\ o.readers = w.readers /\ o.joined = w.joined
        /\ \A s \in 1..SocketSlots : o.sockets[s] = w.sockets[s] \/ (w.sockets[s] = NoPort /\ o.sockets[s] = number)
        /\ fault \notin {"open", "lock socket"} /\ (\E s \in 1..SocketSlots : w.sockets[s] = NoPort) =>
             \E s \in 1..SocketSlots : o.sockets[s] = number
    <3>1. o = OpenSocket(w, number, fault) OBVIOUS
    <3>. HIDE DEF number, o
    <3>2. Opens(w, o, number, fault) BY <2>1, <2>2, <3>1, Opening
    <3>. QED BY <3>2 DEF Opens
  <2>4. socket # {} => n \in 1..SocketSlots /\ o.sockets[n] = number
    <3>1. SocketSlots \in Nat BY SlotsAssumption DEF SocketSlots
    <3>2. socket \subseteq Nat BY <3>1 DEF WithPort
    <3>3. socket # {} => n \in socket
      <4>. HIDE DEF socket
      <4>. QED BY <3>2, MinOfSome
    <3>. QED BY <3>3 DEF WithPort
  <2>5. \A q \in StreamsOfAll : StreamAt(o, q) = StreamAt(w, q) BY <2>3 DEF StreamAt
  <2>6. v = IF joins /\ fault # "join" THEN more ELSE o
    BY <1>2 DEF SetUpStream, JoinOn
  <2>7. DOMAIN more = DOMAIN o /\ more.readers = o.readers /\ more.sockets = o.sockets
        /\ more.joined = o.joined \cup {member}
    BY <2>3 DEF WorldShape
  <2>8. DOMAIN v = DOMAIN o /\ v.readers = w.readers /\ v.sockets = o.sockets
        /\ v.joined = w.joined \cup (IF joins /\ fault # "join" THEN {member} ELSE {})
    <3>. HIDE DEF more, o, joins, member
    <3>. QED BY <2>3, <2>6, <2>7
  <2>9. joins => MembershipShape(member) /\ member.socket = n /\ member.group = stream.session.group
                 /\ member.interface = stream.interface /\ n \in 1..SocketSlots /\ o.sockets[n] = number
    <3>. HIDE DEF n
    <3>. QED BY <2>4 DEF MembershipShape, Membership
  <2>. HIDE DEF o, socket, n, member, once, joins, more, number
  <2>10. WorldShape(v) BY <2>3, <2>8, <2>9 DEF WorldShape
  <2>11. PortsDiffer(v) BY <2>3, <2>8 DEF PortsDiffer
  <2>12. MembersAreOpen(v)
    <3>1. \A m \in w.joined : m.socket \in 1..SocketSlots /\ w.sockets[m.socket] # NoPort
      BY <2>2 DEF MembersAreOpen, WorldShape, MembershipShape
    <3>2. \A m \in w.joined : v.sockets[m.socket] # NoPort BY <2>3, <2>8, <3>1
    <3>3. joins => v.sockets[member.socket] # NoPort BY <2>1, <2>8, <2>9
    <3>. QED BY <2>8, <3>2, <3>3 DEF MembersAreOpen
  <2>13. \A q \in StreamsOfAll : StreamAt(v, q) = StreamAt(w, q) BY <2>8 DEF StreamAt
  <2>14. ASSUME "leave" \notin failed PROVE AllListenedTo(v, keys)
    <3>1. \A m \in w.joined : v.sockets[m.socket] = w.sockets[m.socket]
      BY <2>2, <2>3, <2>8 DEF MembersAreOpen, WorldShape, MembershipShape
    <3>2. \A m \in w.joined : KeyOf(v, m) \notin keys => \E q \in StreamsOfAll : Listens(v, StreamAt(v, q), m)
      <4>1. SUFFICES ASSUME NEW m \in w.joined, KeyOf(v, m) \notin keys
                     PROVE  \E q \in StreamsOfAll : Listens(v, StreamAt(v, q), m)
        OBVIOUS
      <4>4. KeyOf(w, m) \notin keys BY <3>1, <4>1 DEF KeyOf
      <4>2. PICK q \in StreamsOfAll : Listens(w, StreamAt(w, q), m)
        BY <2>14, <4>4 DEF Sound, SoundBut, AllListenedTo
      <4>3. Listens(v, StreamAt(w, q), m) BY <3>1, <4>2 DEF Listens
      <4>. QED BY <2>13, <4>3
    <3>3. joins => Listens(v, StreamAt(v, p), member)
      BY <1>2, <2>8, <2>9, <2>13 DEF joins, Listens, IsMulticast, HasInterface, number
    <3>. QED BY <2>8, <3>2, <3>3 DEF AllListenedTo
  <2>15. ASSUME ~NeverServed(failed) PROVE Served(v, keys, served \cup {p})
    <3>1. ASSUME NEW q \in served PROVE HasSocket(v, StreamAt(v, q)) /\ HasJoined(v, keys, StreamAt(v, q))
      <4>1. q \in StreamsOfAll /\ StreamAt(v, q) = StreamAt(w, q) BY <3>1, <2>13
      <4>2. HasSocket(w, StreamAt(w, q)) /\ HasJoined(w, keys, StreamAt(w, q))
        BY <2>15, <3>1 DEF Sound, SoundBut, Served
      <4>3. StreamAt(w, q).session # NoSession => StreamAt(w, q).session.port # NoPort
        BY <2>2, <4>1, StreamHasShape
      <4>4. \A s \in 1..SocketSlots : w.sockets[s] # NoPort => v.sockets[s] = w.sockets[s] BY <2>3, <2>8
      <4>5. w.joined \subseteq v.joined BY <2>8
      <4>6. HasSocket(v, StreamAt(w, q)) BY <4>2, <4>3, <4>4 DEF HasSocket
      <4>7. HasJoined(v, keys, StreamAt(w, q)) BY <4>2, <4>3, <4>4, <4>5 DEF HasJoined, IsMulticast
      <4>. QED BY <4>1, <4>6, <4>7
    <3>2. fault \notin {"join", "open", "lock socket"} /\ "lock socket" \notin failed
      BY <2>15 DEF NeverServed
    <3>3. \E s \in 1..SocketSlots : o.sockets[s] = number
      <4>1. CASE \E s \in 1..SocketSlots : w.sockets[s] = number BY <4>1, <2>1, <2>3
      <4>2. CASE \A s \in 1..SocketSlots : w.sockets[s] # number
        <5>1. SocketsAreUsed(w) BY <3>2 DEF Sound
        <5>2. \E s \in 1..SocketSlots : w.sockets[s] = NoPort
          BY <1>2, <2>2, <4>2, <5>1, RoomForASocket DEF number
        <5>. QED BY <2>3, <3>2, <5>2
      <4>. QED BY <4>1, <4>2
    <3>4. HasSocket(v, stream) BY <2>8, <3>3 DEF HasSocket, number
    <3>5. HasJoined(v, keys, stream)
      <4>1. SUFFICES ASSUME IsMulticast(stream), HasInterface(stream), Key(stream.session, stream.interface) \notin keys
                     PROVE  \E s \in 1..SocketSlots :
                              /\ v.sockets[s] = stream.session.port
                              /\ Membership(s, stream.session, stream.interface) \in v.joined
        BY DEF HasJoined
      <4>2. socket # {} BY <3>3 DEF socket, WithPort
      <4>3. CASE once
        <5>1. joins BY <4>1, <4>2, <4>3 DEF joins
        <5>2. member \in v.joined BY <2>8, <3>2, <5>1
        <5>. QED BY <2>8, <2>9, <5>1, <5>2 DEF member, number
      <4>4. CASE ~once
        <5>1. InGroup(StreamAt(o, p), stream.session, stream.interface)
          BY <2>5, <4>1 DEF InGroup, IsMulticast
        <5>2. PICK q \in StreamsOfAll : q # p /\ InGroup(StreamAt(o, q), stream.session, stream.interface)
          BY <4>4, <5>1, CountedOnce DEF once
        <5>3. InGroup(StreamAt(w, q), stream.session, stream.interface) BY <2>5, <5>2
        <5>4. PICK k \in served : k # p /\ InGroup(StreamAt(w, k), stream.session, stream.interface)
          BY <4>1, <5>2, <5>3 DEF OthersServed
        <5>5. HasJoined(v, keys, StreamAt(w, k)) BY <3>1, <5>4, <2>13
        <5>. QED BY <2>2, <4>1, <5>4, <5>5, GroupIsJoined DEF HasInterface
      <4>. QED BY <4>3, <4>4
    <3>. QED BY <2>13, <3>1, <3>4, <3>5 DEF Served
  <2>16. ASSUME "lock socket" \notin failed PROVE SocketsAreUsed(v)
    <3>1. \A any : IsUsed(v, any) <=> IsUsed(w, any) BY <2>8 DEF IsUsed
    <3>2. IsUsed(w, number) BY <1>2 DEF IsUsed, number, StreamAt, StreamsOfAll
    <3>3. SocketsAreUsed(w) BY <2>16 DEF Sound
    <3>. QED BY <2>3, <2>8, <3>1, <3>2, <3>3 DEF SocketsAreUsed
  <2>. QED BY <2>8, <2>10, <2>11, <2>12, <2>14, <2>15, <2>16 DEF Sound, SoundBut, SameReaders
<1>. QED BY <1>1, <1>2

\* Readers that are others in one stream only.
Replaces(all, other, r, i, stream) ==
  /\ DOMAIN other = 1..Slots
  /\ \A q \in 1..Slots : ReaderShape(other[q]) /\ other[q].id = all[q].id
  /\ \A q \in 1..Slots, j \in 1..2 :
       other[q].streams[j] = IF q = r /\ j = i THEN stream ELSE all[q].streams[j]

LEMMA Replacing ==
  ASSUME NEW all, DOMAIN all = 1..Slots, \A q \in 1..Slots : ReaderShape(all[q]),
         NEW r \in 1..Slots, NEW i \in 1..2, NEW stream, StreamShape(stream),
         NEW other, other = [all EXCEPT ![r].streams[i] = stream]
  PROVE  Replaces(all, other, r, i, stream)
<1>1. DOMAIN other = 1..Slots /\ \A q \in 1..Slots : q # r => other[q] = all[q] OBVIOUS
<1>2. other[r] = [all[r] EXCEPT !.streams[i] = stream] OBVIOUS
<1>3. DOMAIN all[r] = {"id", "streams"} BY DEF ReaderShape
<1>4. /\ DOMAIN other[r] = {"id", "streams"} /\ other[r].id = all[r].id
      /\ other[r].streams = [all[r].streams EXCEPT ![i] = stream]
  BY <1>2, <1>3
<1>5. DOMAIN all[r].streams = 1..2 BY DEF ReaderShape
<1>6. /\ DOMAIN other[r].streams = 1..2
      /\ \A j \in 1..2 : other[r].streams[j] = IF j = i THEN stream ELSE all[r].streams[j]
  BY <1>4, <1>5
<1>7. ReaderShape(other[r]) BY <1>4, <1>6 DEF ReaderShape
<1>. QED BY <1>1, <1>4, <1>6, <1>7 DEF Replaces

\* Readers that receive what they did, one stream of them on another interface.
Moves(w, v, r, i, interface) ==
  /\ \A q \in 1..Slots : v.readers[q].id = w.readers[q].id
  /\ \A q \in 1..Slots, j \in 1..2 :
       /\ v.readers[q].streams[j].session = w.readers[q].streams[j].session
       /\ v.readers[q].streams[j].interface =
            IF q = r /\ j = i THEN interface ELSE w.readers[q].streams[j].interface

\* One stream of set_interfaces.
LEMMA Rejoining ==
  ASSUME NEW w, NEW keys, NEW failed, NEW fault, fault \in failed \cup {"none"}, Sound(w, failed, keys, StreamsOfAll),
         NEW r \in 1..Slots, NEW i \in 1..2, NEW interface, NEW v, v = Rejoin(w, r, i, interface, fault)
  PROVE  Sound(v, failed, keys, StreamsOfAll) /\ Moves(w, v, r, i, interface)
<1>. DEFINE stream == w.readers[r].streams[i]
            p == <<r, i>>
<1>1. p \in StreamsOfAll /\ stream = StreamAt(w, p) BY DEF StreamsOfAll, StreamAt
<1>2. WorldShape(w) /\ PortsDiffer(w) /\ MembersAreOpen(w) BY DEF Sound, SoundBut
<1>3. CASE stream.interface = interface
  <2>1. v = w BY <1>3 DEF Rejoin
  <2>. QED BY <1>3, <2>1 DEF Moves
<1>4. CASE stream.interface # interface
  <2>. DEFINE session == stream.session
              left == LeaveStream(w, stream, fault)
              without == [left EXCEPT !.readers[r].streams[i].interface = NoInterface]
              moved == [stream EXCEPT !.interface = interface]
              socket == IF IsMulticast(stream) THEN WithPort(w, session.port) ELSE {}
              n == Min(socket)
              member == Membership(n, session, interface)
              alone == IsMulticast(stream) /\ interface # NoInterface /\ GroupCount(without, session, interface) = 0
              joins == IF alone /\ socket # {} THEN JoinOn(without, n, moved, fault) ELSE without
              crash == alone /\ socket = {}
  <2>1. v = [joins EXCEPT !.readers[r].streams[i] = moved, !.crashed = @ \/ crash]
    BY <1>4 DEF Rejoin
  <2>2. Leaves(w, left, p, fault) BY <1>1, <1>2, Leaving
  <2>3. StreamShape(stream) /\ (session # NoSession => session \in Sessions /\ session.port # NoPort)
    BY <1>1, <1>2, StreamHasShape
  <2>4. StreamShape(moved) /\ moved.session = session /\ moved.interface = interface BY <2>3 DEF StreamShape
  <2>. HIDE DEF left, moved
  <2>5. WorldShape(left) /\ left.readers = w.readers BY <2>2 DEF Leaves
  <2>6. /\ DOMAIN without = DOMAIN left /\ without.sockets = left.sockets /\ without.joined = left.joined
        /\ without.readers = [w.readers EXCEPT ![r].streams[i] = [stream EXCEPT !.interface = NoInterface]]
    BY <2>5 DEF WorldShape
  <2>. DEFINE bare == [stream EXCEPT !.interface = NoInterface]
  <2>7. StreamShape(bare) /\ bare.interface = NoInterface BY <2>3 DEF StreamShape
  <2>. HIDE DEF bare, without, stream
  <2>8. DOMAIN w.readers = 1..Slots /\ \A q \in 1..Slots : ReaderShape(w.readers[q]) BY <1>2 DEF WorldShape
  <2>9. without.readers = [w.readers EXCEPT ![r].streams[i] = bare] BY <2>6 DEF bare, stream
  <2>10. Replaces(w.readers, without.readers, r, i, bare) BY <2>7, <2>8, <2>9, Replacing
  <2>11. alone => /\ IsMulticast(stream) /\ interface # NoInterface
                  /\ \A q \in StreamsOfAll : q # p => ~InGroup(StreamAt(w, q), session, interface)
    <3>1. \A q \in StreamsOfAll : q # p => StreamAt(without, q) = StreamAt(w, q)
      BY <2>10 DEF Replaces, StreamsOfAll, StreamAt
    <3>2. alone => \A q \in StreamsOfAll : ~InGroup(StreamAt(without, q), session, interface)
      BY CountedNever
    <3>. QED BY <3>1, <3>2
  <2>12. IsMulticast(stream) /\ interface # NoInterface /\ ~alone =>
           \E q \in StreamsOfAll : q # p /\ InGroup(StreamAt(w, q), session, interface)
    <3>1. StreamAt(without, p) = bare BY <2>10 DEF Replaces, StreamAt
    <3>2. \A q \in StreamsOfAll : q # p => StreamAt(without, q) = StreamAt(w, q)
      BY <2>10 DEF Replaces, StreamsOfAll, StreamAt
    <3>3. IsMulticast(stream) /\ interface # NoInterface /\ ~alone =>
            \E q \in StreamsOfAll : InGroup(StreamAt(without, q), session, interface)
      BY CountedNever
    <3>4. interface # NoInterface => ~InGroup(StreamAt(without, p), session, interface)
      BY <2>7, <3>1 DEF InGroup
    <3>. QED BY <3>2, <3>3, <3>4
  <2>13. socket # {} => IsMulticast(stream) /\ n \in 1..SocketSlots /\ w.sockets[n] = session.port
    <3>1. SocketSlots \in Nat BY SlotsAssumption DEF SocketSlots
    <3>2. socket \subseteq Nat BY <3>1 DEF WithPort
    <3>3. socket # {} => n \in socket
      <4>. HIDE DEF socket
      <4>. QED BY <3>2, MinOfSome
    <3>. QED BY <3>3 DEF WithPort
  <2>14. IsMulticast(stream) /\ socket = {} => \A s \in 1..SocketSlots : w.sockets[s] # session.port
    BY DEF WithPort
  <2>15. member.socket = n /\ member.group = session.group /\ member.interface = interface
         /\ (socket # {} => MembershipShape(member))
    <3>. HIDE DEF n
    <3>. QED BY <2>13 DEF Membership, MembershipShape
  <2>. DEFINE joining == alone /\ socket # {} /\ fault # "join"
              more == [without EXCEPT !.joined = @ \cup {member}]
  <2>16. joins = IF joining THEN more ELSE without
    <3>1. Membership(n, moved.session, moved.interface) = member BY <2>4
    <3>. HIDE DEF alone, socket, n, member
    <3>. QED BY <3>1 DEF JoinOn
  <2>17. DOMAIN more = DOMAIN without /\ more.readers = without.readers /\ more.sockets = without.sockets
         /\ more.joined = without.joined \cup {member}
    <3>. HIDE DEF member
    <3>. QED BY <2>5, <2>6 DEF WorldShape
  <2>18. DOMAIN without = {"readers", "sockets", "joined", "crashed"} /\ without.sockets = w.sockets
         /\ without.joined = left.joined
    BY <2>2, <2>5, <2>6 DEF WorldShape, Leaves
  <2>. HIDE DEF alone, socket, n, member, more, joining, joins, crash
  <2>19. /\ DOMAIN joins = {"readers", "sockets", "joined", "crashed"} /\ joins.readers = without.readers
         /\ joins.sockets = w.sockets /\ joins.joined = left.joined \cup (IF joining THEN {member} ELSE {})
    BY <2>16, <2>17, <2>18
  <2>20. /\ DOMAIN v = DOMAIN joins /\ v.sockets = joins.sockets /\ v.joined = joins.joined
         /\ v.readers = [without.readers EXCEPT ![r].streams[i] = moved]
    BY <2>1, <2>19
  <2>21. Replaces(without.readers, v.readers, r, i, moved)
    <3>1. DOMAIN without.readers = 1..Slots /\ \A q \in 1..Slots : ReaderShape(without.readers[q])
      BY <2>10 DEF Replaces
    <3>. QED BY <2>4, <2>20, <3>1, Replacing
  <2>22. \A q \in 1..Slots : v.readers[q].id = w.readers[q].id BY <2>10, <2>21 DEF Replaces
  <2>23. \A q \in 1..Slots, j \in 1..2 :
           v.readers[q].streams[j] = IF q = r /\ j = i THEN moved ELSE w.readers[q].streams[j]
    BY <2>10, <2>21 DEF Replaces
  <2>24. \A q \in 1..Slots, j \in 1..2 :
           /\ v.readers[q].streams[j].session = w.readers[q].streams[j].session
           /\ v.readers[q].streams[j].interface =
                IF q = r /\ j = i THEN interface ELSE w.readers[q].streams[j].interface
    BY <2>4, <2>23 DEF stream
  <2>25. StreamAt(v, p) = moved /\ \A q \in StreamsOfAll : q # p => StreamAt(v, q) = StreamAt(w, q)
    BY <2>23 DEF StreamsOfAll, StreamAt
  <2>26. v.sockets = w.sockets /\ v.joined = left.joined \cup (IF joining THEN {member} ELSE {})
         /\ left.joined \subseteq w.joined
    BY <2>2, <2>19, <2>20 DEF Leaves
  <2>27. joining => /\ alone /\ socket # {} /\ MembershipShape(member) /\ w.sockets[member.socket] = session.port
                    /\ member.socket \in 1..SocketSlots
    BY <2>13, <2>15 DEF joining
  <2>28. WorldShape(v)
    BY <1>2, <2>19, <2>20, <2>21, <2>26, <2>27 DEF WorldShape, Replaces
  <2>29. PortsDiffer(v) BY <1>2, <2>26 DEF PortsDiffer
  <2>30. MembersAreOpen(v)
    <3>1. joining => w.sockets[member.socket] # NoPort BY <2>3, <2>11, <2>27 DEF IsMulticast
    <3>. QED BY <1>2, <2>26, <3>1 DEF MembersAreOpen
  <2>31. ASSUME "leave" \notin failed PROVE AllListenedTo(v, keys)
    <3>1. ASSUME NEW m \in left.joined, KeyOf(v, m) \notin keys PROVE \E q \in StreamsOfAll : Listens(v, StreamAt(v, q), m)
      <4>1. m \in w.joined /\ KeyOf(w, m) \notin keys BY <2>26, <3>1 DEF KeyOf
      <4>2. PICK q \in StreamsOfAll : Listens(w, StreamAt(w, q), m)
        BY <2>31, <4>1 DEF Sound, SoundBut, AllListenedTo
      <4>3. \E k \in StreamsOfAll : k # p /\ Listens(w, StreamAt(w, k), m)
        <5>1. CASE q # p BY <4>2, <5>1
        <5>2. CASE q = p
          <6>1. fault # "leave" BY <2>31
          <6>2. PICK k \in StreamsOfAll : k # p /\ InGroup(StreamAt(w, k), StreamAt(w, p).session, m.interface)
            BY <2>2, <4>2, <5>2, <6>1 DEF Leaves
          <6>. QED BY <1>1, <1>2, <4>2, <5>2, <6>2, GroupIsHeard
        <5>. QED BY <5>1, <5>2
      <4>4. PICK k \in StreamsOfAll : k # p /\ Listens(w, StreamAt(w, k), m) BY <4>3
      <4>. QED BY <2>25, <2>26, <4>4 DEF Listens
    <3>2. joining => Listens(v, StreamAt(v, p), member)
      BY <2>4, <2>11, <2>15, <2>25, <2>26, <2>27 DEF Listens, IsMulticast
    <3>. QED BY <1>1, <2>26, <3>1, <3>2 DEF AllListenedTo
  <2>32. ASSUME ~NeverServed(failed) PROVE Served(v, keys, StreamsOfAll)
    <3>1. \A q \in StreamsOfAll : HasSocket(w, StreamAt(w, q)) /\ HasJoined(w, keys, StreamAt(w, q))
      BY <2>32 DEF Sound, SoundBut, Served
    <3>2. fault # "join" BY <2>32 DEF NeverServed
    <3>3. ASSUME NEW q \in StreamsOfAll, q # p PROVE HasSocket(v, StreamAt(v, q)) /\ HasJoined(v, keys, StreamAt(v, q))
      <4>1. StreamAt(v, q) = StreamAt(w, q) BY <2>25, <3>3
      <4>2. HasSocket(v, StreamAt(w, q)) BY <2>26, <3>1 DEF HasSocket
      <4>3. HasJoined(left, keys, StreamAt(w, q)) BY <1>1, <2>2, <3>1, <3>3, OthersStayJoined
      <4>4. v.sockets = left.sockets /\ left.joined \subseteq v.joined BY <2>2, <2>26 DEF Leaves
      <4>5. HasJoined(v, keys, StreamAt(w, q)) BY <4>3, <4>4 DEF HasJoined
      <4>. QED BY <4>1, <4>2, <4>5
    <3>4. HasSocket(v, moved)
      BY <1>1, <2>4, <2>26, <3>1 DEF HasSocket
    <3>5. HasJoined(v, keys, moved)
      <4>1. SUFFICES ASSUME IsMulticast(stream), interface # NoInterface, Key(session, interface) \notin keys
                     PROVE  \E s \in 1..SocketSlots :
                              v.sockets[s] = session.port /\ Membership(s, session, interface) \in v.joined
        BY <2>4 DEF HasJoined, IsMulticast, HasInterface
      <4>2. CASE alone
        <5>1. socket # {}
          <6>1. \E s \in 1..SocketSlots : w.sockets[s] = session.port
            BY <1>1, <3>1, <4>1 DEF HasSocket, IsMulticast
          <6>. QED BY <2>14, <4>1, <6>1
        <5>2. joining BY <3>2, <4>2, <5>1 DEF joining
        <5>. QED BY <2>13, <2>26, <5>1, <5>2 DEF member
      <4>3. CASE ~alone
        <5>1. PICK q \in StreamsOfAll : q # p /\ InGroup(StreamAt(w, q), session, interface)
          BY <2>12, <4>1, <4>3
        <5>2. HasJoined(v, keys, StreamAt(w, q)) BY <2>25, <3>3, <5>1
        <5>. QED BY <1>1, <1>2, <4>1, <5>1, <5>2, GroupIsJoined
      <4>. QED BY <4>2, <4>3
    <3>. QED BY <2>25, <3>3, <3>4, <3>5 DEF Served
  <2>33. ASSUME "lock socket" \notin failed PROVE SocketsAreUsed(v)
    <3>. DEFINE SessionOf(x, q, j) == x.readers[q].streams[j].session
    <3>1. ASSUME NEW any PROVE IsUsed(v, any) <=> IsUsed(w, any)
      <4>1. \A q \in 1..Slots, j \in 1..2 : SessionOf(v, q, j) = SessionOf(w, q, j) BY <2>24
      <4>2. \A x : IsUsed(x, any) <=>
              \E q \in 1..Slots, j \in 1..2 : SessionOf(x, q, j) # NoSession /\ SessionOf(x, q, j).port = any
        BY DEF IsUsed
      <4>. HIDE DEF SessionOf
      <4>. QED BY <4>1, <4>2
    <3>2. SocketsAreUsed(w) BY <2>33 DEF Sound
    <3>. QED BY <2>26, <3>1, <3>2 DEF SocketsAreUsed
  <2>34. Sound(v, failed, keys, StreamsOfAll)
    BY <2>28, <2>29, <2>30, <2>31, <2>32, <2>33 DEF Sound, SoundBut
  <2>. QED BY <2>22, <2>24, <2>34 DEF Moves
<1>. QED BY <1>3, <1>4

\* close_unused_sockets
LEMMA Closing ==
  ASSUME NEW w, NEW keys, NEW failed, NEW fault, fault \in failed \cup {"none"}, SoundBut(w, failed, keys, StreamsOfAll),
         NEW v, v = CloseUnused(w, fault)
  PROVE  Sound(v, failed, keys, StreamsOfAll) /\ SameReaders(w, v)
<1>. DEFINE unused == {s \in 1..SocketSlots : w.sockets[s] # NoPort /\ ~IsUsed(w, w.sockets[s])}
            after == [s \in 1..SocketSlots |-> IF s \in unused THEN NoPort ELSE w.sockets[s]]
            rest == {m \in w.joined : m.socket \notin unused}
<1>1. CASE fault = "lock socket"
  <2>1. v = w BY <1>1 DEF CloseUnused
  <2>. QED BY <1>1, <2>1 DEF Sound, SameReaders
<1>2. CASE fault # "lock socket"
  <2>1. v = [w EXCEPT !.sockets = after, !.joined = rest]
    BY <1>2 DEF CloseUnused
  <2>2. WorldShape(w) /\ PortsDiffer(w) /\ MembersAreOpen(w) BY DEF SoundBut
  <2>3. DOMAIN v = DOMAIN w /\ v.readers = w.readers /\ v.sockets = after /\ v.joined = rest
    <3>. HIDE DEF after, rest
    <3>. QED BY <2>1, <2>2 DEF WorldShape
  <2>4. ASSUME NEW any PROVE IsUsed(v, any) <=> IsUsed(w, any)
    <3>1. v.readers = w.readers BY <2>3
    <3>. HIDE DEF after, rest, unused
    <3>. QED BY <3>1 DEF IsUsed
  <2>5. \A s \in 1..SocketSlots : v.sockets[s] = IF s \in unused THEN NoPort ELSE w.sockets[s] BY <2>3
  <2>6. \A s \in 1..SocketSlots : s \in unused <=> w.sockets[s] # NoPort /\ ~IsUsed(w, w.sockets[s]) OBVIOUS
  <2>7. \A q \in StreamsOfAll : StreamAt(v, q) = StreamAt(w, q) BY <2>3 DEF StreamAt
  <2>8. DOMAIN v.sockets = 1..SocketSlots BY <2>3
  <2>9. v.joined \subseteq w.joined /\ \A m \in w.joined : m \in v.joined <=> m.socket \notin unused BY <2>3
  <2>. HIDE DEF after, rest, unused
  <2>10. WorldShape(v) BY <2>2, <2>3, <2>8, <2>9 DEF WorldShape
  <2>11. PortsDiffer(v) BY <2>2, <2>5 DEF PortsDiffer
  <2>12. \A m \in v.joined : m \in w.joined /\ m.socket \in 1..SocketSlots /\ v.sockets[m.socket] = w.sockets[m.socket]
    BY <2>2, <2>5, <2>9 DEF WorldShape, MembershipShape
  <2>13. MembersAreOpen(v) BY <2>2, <2>12 DEF MembersAreOpen
  <2>14. ASSUME "leave" \notin failed PROVE AllListenedTo(v, keys)
    <3>1. SUFFICES ASSUME NEW m \in v.joined, KeyOf(v, m) \notin keys
                   PROVE  \E q \in StreamsOfAll : Listens(v, StreamAt(v, q), m)
      BY DEF AllListenedTo
    <3>4. KeyOf(w, m) \notin keys BY <2>12, <3>1 DEF KeyOf
    <3>2. PICK q \in StreamsOfAll : Listens(w, StreamAt(w, q), m)
      BY <2>12, <2>14, <3>4 DEF SoundBut, AllListenedTo
    <3>3. Listens(v, StreamAt(w, q), m) BY <2>12, <3>2 DEF Listens
    <3>. QED BY <2>7, <3>3
  <2>15. ASSUME ~NeverServed(failed) PROVE Served(v, keys, StreamsOfAll)
    <3>1. SUFFICES ASSUME NEW q \in StreamsOfAll PROVE HasSocket(v, StreamAt(w, q)) /\ HasJoined(v, keys, StreamAt(w, q))
      BY <2>7 DEF Served
    <3>2. HasSocket(w, StreamAt(w, q)) /\ HasJoined(w, keys, StreamAt(w, q)) BY <2>15 DEF SoundBut, Served
    <3>3. StreamAt(w, q).session # NoSession => IsUsed(w, StreamAt(w, q).session.port)
      <4>1. PICK r \in 1..Slots, i \in 1..2 : q = <<r, i>> BY DEF StreamsOfAll
      <4>. QED BY <4>1 DEF IsUsed, StreamAt
    <3>4. \A s \in 1..SocketSlots : IsUsed(w, w.sockets[s]) => s \notin unused /\ v.sockets[s] = w.sockets[s]
      BY <2>5, <2>6
    <3>5. HasSocket(v, StreamAt(w, q)) BY <3>2, <3>3, <3>4 DEF HasSocket
    <3>6. \A s, session, interface : Membership(s, session, interface).socket = s
      BY DEF Membership
    <3>7. HasJoined(v, keys, StreamAt(w, q))
      <4>1. SUFFICES ASSUME IsMulticast(StreamAt(w, q)), HasInterface(StreamAt(w, q)),
                            Key(StreamAt(w, q).session, StreamAt(w, q).interface) \notin keys
                     PROVE  HasJoined(v, keys, StreamAt(w, q))
        BY DEF HasJoined
      <4>2. PICK s \in 1..SocketSlots :
              /\ w.sockets[s] = StreamAt(w, q).session.port
              /\ Membership(s, StreamAt(w, q).session, StreamAt(w, q).interface) \in w.joined
        BY <3>2, <4>1 DEF HasJoined
      <4>3. s \notin unused /\ v.sockets[s] = w.sockets[s] BY <3>3, <3>4, <4>1, <4>2 DEF IsMulticast
      <4>4. Membership(s, StreamAt(w, q).session, StreamAt(w, q).interface) \in v.joined
        BY <2>9, <3>6, <4>2, <4>3
      <4>. QED BY <4>2, <4>3, <4>4 DEF HasJoined
    <3>. QED BY <3>5, <3>7
  <2>16. SocketsAreUsed(v) BY <2>4, <2>5, <2>6 DEF SocketsAreUsed
  <2>. QED BY <2>3, <2>10, <2>11, <2>13, <2>14, <2>15, <2>16 DEF Sound, SoundBut, SameReaders
<1>. QED BY <1>1, <1>2

\* More may have failed by then.
LEMMA SoundLater ==
  ASSUME NEW w, NEW failed, NEW later, failed \subseteq later, NEW keys, NEW more, keys \subseteq more,
         NEW served, Sound(w, failed, keys, served)
  PROVE  Sound(w, later, more, served)
BY DEF Sound, SoundBut, NeverServed, AllListenedTo, Served, HasJoined

\* What holds of a record of the state holds of the state.
LEMMA SoundState ==
  ASSUME NEW w, NEW v, DOMAIN v = DOMAIN w, v.readers = w.readers, v.sockets = w.sockets, v.joined = w.joined,
         NEW failed, NEW keys, NEW served, Sound(w, failed, keys, served)
  PROVE  Sound(v, failed, keys, served)
<1>1. WorldShape(v) BY DEF Sound, SoundBut, WorldShape
<1>2. PortsDiffer(v) /\ MembersAreOpen(v) BY DEF Sound, SoundBut, PortsDiffer, MembersAreOpen
<1>3. ASSUME "leave" \notin failed PROVE AllListenedTo(v, keys)
  <2>1. AllListenedTo(w, keys) BY <1>3 DEF Sound, SoundBut
  <2>2. ASSUME NEW m, NEW q, Listens(w, StreamAt(w, q), m) PROVE Listens(v, StreamAt(v, q), m)
    BY <2>2 DEF Listens, StreamAt
  <2>3. \A m : KeyOf(v, m) = KeyOf(w, m) BY DEF KeyOf
  <2>. QED BY <2>1, <2>2, <2>3 DEF AllListenedTo
<1>4. ~NeverServed(failed) => Served(v, keys, served)
  BY DEF Sound, SoundBut, Served, HasSocket, HasJoined, StreamAt
<1>5. "lock socket" \notin failed => SocketsAreUsed(v) BY DEF Sound, SocketsAreUsed, IsUsed
<1>. QED BY <1>1, <1>2, <1>3, <1>4, <1>5 DEF Sound, SoundBut

(***************************************************************************)
(* The operations                                                          *)
(***************************************************************************)
LEMMA WorldFields ==
  /\ DOMAIN World = {"readers", "sockets", "joined", "crashed"}
  /\ World.readers = readers /\ World.sockets = sockets /\ World.joined = joined
BY DEF World

LEMMA WorldFieldsNext ==
  /\ DOMAIN World' = {"readers", "sockets", "joined", "crashed"}
  /\ World'.readers = readers' /\ World'.sockets = sockets' /\ World'.joined = joined'
BY DEF World

\* What holds of the next state as a record holds in the next state.
LEMMA SoundNext == Sound(World', faults', doubled', StreamsOfAll) => Sound(World, faults, doubled, StreamsOfAll)'
BY DEF Sound, SoundBut, WorldShape, ReaderShape, StreamShape, MembershipShape, PortsDiffer, MembersAreOpen,
       AllListenedTo, Listens, Served, HasSocket, HasJoined, IsMulticast, HasInterface, SocketsAreUsed, IsUsed,
       StreamAt, Membership, NeverServed, StreamsOfAll, SocketSlots, Key, KeyOf

\* Of a group that nobody is in and nobody wants nothing can be wrong.
LEMMA OfTheUsed ==
  ASSUME NEW w, NEW failed, NEW keys, Sound(w, failed, keys, StreamsOfAll)
  PROVE  Sound(w, failed, StillUsed(w, keys), StreamsOfAll)
<1>. DEFINE used == StillUsed(w, keys)
<1>1. \A m \in w.joined : KeyOf(w, m) \in keys => KeyOf(w, m) \in used BY DEF StillUsed
<1>2. \A p \in StreamsOfAll :
        LET stream == StreamAt(w, p)
            key == Key(stream.session, stream.interface)
        IN  IsMulticast(stream) /\ key \in keys => key \in used
  BY DEF StillUsed, StreamsOfAll, StreamAt
<1>. HIDE DEF used
<1>3. AllListenedTo(w, keys) => AllListenedTo(w, used) BY <1>1 DEF AllListenedTo
<1>4. Served(w, keys, StreamsOfAll) => Served(w, used, StreamsOfAll) BY <1>2 DEF Served, HasJoined
<1>. QED BY <1>3, <1>4 DEF Sound, SoundBut, used

\* How an operation ends.
LEMMA Ending ==
  ASSUME NEW w, NEW fault, NEW twice, Becomes(w, fault, twice), Sound(w, faults', doubled \cup twice, StreamsOfAll)
  PROVE  Sound(World, faults, doubled, StreamsOfAll)' /\ World'.readers = w.readers
<1>1. readers' = w.readers /\ sockets' = w.sockets /\ joined' = w.joined /\ doubled' = StillUsed(w, doubled \cup twice)
  BY DEF Becomes
<1>2. DOMAIN World' = DOMAIN w BY WorldFieldsNext DEF Sound, SoundBut, WorldShape
<1>3. Sound(w, faults', doubled', StreamsOfAll) BY <1>1, OfTheUsed
<1>4. Sound(World', faults', doubled', StreamsOfAll) BY <1>1, <1>2, <1>3, WorldFieldsNext, SoundState
<1>5. Sound(World, faults, doubled, StreamsOfAll)' BY <1>4, SoundNext
<1>. QED BY <1>1, <1>5, WorldFieldsNext

LEMMA FaultsGrow ==
  ASSUME NEW w, NEW fault, NEW twice, Becomes(w, fault, twice)
  PROVE  faults \subseteq faults' /\ fault \in faults' \cup {"none"}
BY DEF Becomes

LEMMA MembershipStarts == MembershipInit => MembershipInv
<1>1. SUFFICES ASSUME MembershipInit PROVE MembershipInv OBVIOUS
<1>2. \A r \in 1..Slots : readers[r] = FreeReader BY <1>1 DEF MembershipInit
<1>3. ReaderShape(FreeReader) /\ FreeReader.id = NoId
      /\ FreeReader.streams[1] = NoStream /\ FreeReader.streams[2] = NoStream
  BY DEF FreeReader, NoStream, ReaderShape, StreamShape
<1>4. NoStream.session = NoSession /\ NoStream.interface = NoInterface BY DEF NoStream
<1>5. WorldShape(World) BY <1>1, <1>2, <1>3, WorldFields DEF MembershipInit, WorldShape
<1>6. PortsDiffer(World) /\ MembersAreOpen(World) /\ AllListenedTo(World, doubled) /\ SocketsAreUsed(World)
  BY <1>1, WorldFields DEF MembershipInit, PortsDiffer, MembersAreOpen, AllListenedTo, SocketsAreUsed
<1>7. Served(World, doubled, StreamsOfAll)
  <2>1. SUFFICES ASSUME NEW q \in StreamsOfAll
                 PROVE  HasSocket(World, StreamAt(World, q)) /\ HasJoined(World, doubled, StreamAt(World, q))
    BY DEF Served
  <2>2. StreamAt(World, q) = NoStream BY <1>2, <1>3, WorldFields DEF StreamAt, StreamsOfAll
  <2>. QED BY <1>4, <2>2 DEF HasSocket, HasJoined, IsMulticast
<1>8. FreeHaveNone(World)
  BY <1>2, <1>3, <1>4, WorldFields DEF FreeHaveNone
<1>. QED BY <1>5, <1>6, <1>7, <1>8 DEF MembershipInv, Sound, SoundBut

LEMMA AddReaderStep ==
  ASSUME MembershipInv, NEW id \in Ids, NEW pair \in Pairs, NEW interfaces \in InterfacePairs, NEW fault,
         NEW free, free = {r \in 1..Slots : readers[r].id = NoId}, free # {},
         NEW streams, streams = [i \in 1..2 |-> [session |-> pair[i], interface |-> interfaces[i]]],
         NEW placed, placed = [World EXCEPT !.readers[Min(free)] = [id |-> id, streams |-> streams]],
         NEW twice, twice = TwiceBy(placed, Min(free)),
         Becomes(SetUpStream(SetUpStream(placed, streams[1], fault), streams[2], fault), fault, twice)
  PROVE  MembershipInv'
<1>. DEFINE n == Min(free)
            reader == [id |-> id, streams |-> streams]
            one == SetUpStream(placed, streams[1], fault)
            both == SetUpStream(one, streams[2], fault)
            p1 == <<n, 1>>
            p2 == <<n, 2>>
            others == StreamsOfAll \ {p1, p2}
<1>3. free # {} /\ Becomes(both, fault, twice) OBVIOUS
<1>4. n \in 1..Slots /\ readers[n].id = NoId
  <2>1. 1..Slots \subseteq Nat BY SlotsAssumption
  <2>2. free \subseteq 1..Slots OBVIOUS
  <2>3. free \subseteq Nat BY <2>1, <2>2
  <2>4. n \in free BY <2>3, MinOfSome
  <2>. QED BY <2>4
<1>5. /\ StreamShape(streams[1]) /\ StreamShape(streams[2]) /\ reader.id = id /\ reader.streams = streams
      /\ streams[1].interface = interfaces[1] /\ streams[2].interface = interfaces[2]
      /\ DOMAIN streams = 1..2 /\ DOMAIN reader = {"id", "streams"}
  <2>1. \A i \in 1..2 : streams[i] = [session |-> pair[i], interface |-> interfaces[i]]
    OBVIOUS
  <2>2. \A i \in 1..2 : pair[i] \in Sessions \cup {NoSession} BY SessionsAssumption
  <2>3. \A i \in 1..2 : StreamShape(streams[i]) /\ streams[i].interface = interfaces[i]
    BY <2>1, <2>2 DEF StreamShape
  <2>4. StreamShape(streams[1]) /\ StreamShape(streams[2])
        /\ streams[1].interface = interfaces[1] /\ streams[2].interface = interfaces[2]
    BY <2>3
  <2>5. DOMAIN streams = 1..2 OBVIOUS
  <2>. QED BY <2>4, <2>5
<1>6. ReaderShape(reader)
  <2>. HIDE DEF reader
  <2>. QED BY <1>5 DEF ReaderShape
<1>7. id # NoId BY SlotsAssumption
<1>. HIDE DEF n, reader
<1>8. WorldShape(World) BY DEF MembershipInv, Sound, SoundBut
<1>9. /\ DOMAIN placed = DOMAIN World /\ placed.sockets = sockets /\ placed.joined = joined
      /\ placed.readers = [readers EXCEPT ![n] = reader]
  BY WorldFields DEF n, reader
<1>10. /\ DOMAIN placed.readers = 1..Slots
       /\ \A r \in 1..Slots : placed.readers[r] = IF r = n THEN reader ELSE readers[r]
  BY <1>4, <1>8, <1>9, WorldFields DEF WorldShape
<1>11. p1 \in StreamsOfAll /\ p2 \in StreamsOfAll /\ p1 # p2
       /\ StreamAt(placed, p1) = streams[1] /\ StreamAt(placed, p2) = streams[2]
  <2>1. p1 \in StreamsOfAll /\ p2 \in StreamsOfAll /\ p1 # p2 BY <1>4 DEF StreamsOfAll
  <2>2. p1[1] = n /\ p1[2] = 1 /\ p2[1] = n /\ p2[2] = 2 OBVIOUS
  <2>3. placed.readers[n].streams = streams BY <1>4, <1>5, <1>10
  <2>. QED BY <2>1, <2>2, <2>3 DEF StreamAt
<1>12. \A q \in others : q \in StreamsOfAll /\ q[1] # n /\ StreamAt(placed, q) = StreamAt(World, q)
  <2>1. SUFFICES ASSUME NEW q \in others
                 PROVE  q \in StreamsOfAll /\ q[1] # n /\ StreamAt(placed, q) = StreamAt(World, q)
    OBVIOUS
  <2>2. PICK r \in 1..Slots, i \in 1..2 : q = <<r, i>> BY DEF StreamsOfAll
  <2>3. i = 1 \/ i = 2 OBVIOUS
  <2>4. r # n BY <2>2, <2>3
  <2>5. q[1] = r /\ q[2] = i BY <2>2
  <2>. QED BY <1>10, <2>4, <2>5, WorldFields DEF StreamAt
<1>13. \A q \in StreamsOfAll : q \in others \/ q = p1 \/ q = p2 OBVIOUS
<1>14. StreamAt(World, p1).session = NoSession /\ StreamAt(World, p2).session = NoSession
  BY <1>4, WorldFields DEF MembershipInv, FreeHaveNone, StreamAt
<1>. HIDE DEF p1, p2
<1>. DEFINE failed == faults'
            keys == doubled \cup twice
<1>15. Sound(World, failed, keys, StreamsOfAll)
  <2>1. faults \subseteq failed /\ doubled \subseteq keys BY <1>3, FaultsGrow
  <2>2. Sound(World, faults, doubled, StreamsOfAll) BY DEF MembershipInv
  <2>. HIDE DEF failed, keys
  <2>. QED BY <2>1, <2>2, SoundLater
<1>16. fault \in failed \cup {"none"} BY <1>3, FaultsGrow
<1>. HIDE DEF failed, keys, others
<1>17. Sound(placed, failed, keys, others)
  <2>1. WorldShape(placed) BY <1>6, <1>8, <1>9, <1>10, WorldFields DEF WorldShape
  <2>2. PortsDiffer(placed) /\ MembersAreOpen(placed)
    BY <1>9, <1>15, WorldFields DEF Sound, SoundBut, PortsDiffer, MembersAreOpen
  <2>3. ASSUME "leave" \notin failed PROVE AllListenedTo(placed, keys)
    <3>1. SUFFICES ASSUME NEW m \in joined, KeyOf(placed, m) \notin keys
                   PROVE  \E q \in StreamsOfAll : Listens(placed, StreamAt(placed, q), m)
      BY <1>9 DEF AllListenedTo
    <3>5. KeyOf(World, m) \notin keys BY <1>9, <3>1, WorldFields DEF KeyOf
    <3>2. PICK q \in StreamsOfAll : Listens(World, StreamAt(World, q), m)
      BY <1>15, <2>3, <3>1, <3>5, WorldFields DEF Sound, SoundBut, AllListenedTo
    <3>3. q \in others BY <1>13, <1>14, <3>2 DEF Listens
    <3>4. Listens(placed, StreamAt(placed, q), m) BY <1>9, <1>12, <3>2, <3>3, WorldFields DEF Listens
    <3>. QED BY <3>4
  <2>4. ASSUME ~NeverServed(failed) PROVE Served(placed, keys, others)
    <3>1. Served(World, keys, StreamsOfAll) BY <1>15, <2>4 DEF Sound, SoundBut
    <3>2. SUFFICES ASSUME NEW q \in others
                   PROVE  HasSocket(placed, StreamAt(World, q)) /\ HasJoined(placed, keys, StreamAt(World, q))
      BY <1>12 DEF Served
    <3>. QED BY <1>9, <1>12, <3>1, WorldFields DEF Served, HasSocket, HasJoined
  <2>5. ASSUME "lock socket" \notin failed PROVE SocketsAreUsed(placed)
    <3>1. SUFFICES ASSUME NEW s \in 1..SocketSlots, sockets[s] # NoPort PROVE IsUsed(placed, sockets[s])
      BY <1>9 DEF SocketsAreUsed
    <3>2. PICK r \in 1..Slots, i \in 1..2 :
            readers[r].streams[i].session # NoSession /\ readers[r].streams[i].session.port = sockets[s]
      BY <1>15, <2>5, <3>1, WorldFields DEF Sound, SocketsAreUsed, IsUsed
    <3>3. r # n
      <4>1. i = 1 \/ i = 2 OBVIOUS
      <4>2. p1[1] = n /\ p1[2] = 1 /\ p2[1] = n /\ p2[2] = 2 BY DEF p1, p2
      <4>. QED BY <1>14, <3>2, <4>1, <4>2, WorldFields DEF StreamAt
    <3>. QED BY <1>10, <3>2, <3>3 DEF IsUsed
  <2>. QED BY <2>1, <2>2, <2>3, <2>4, <2>5 DEF Sound, SoundBut
<1>18. ASSUME IsMulticast(streams[1]), HasInterface(streams[1]),
              InGroup(streams[2], streams[1].session, streams[1].interface),
              Key(streams[1].session, streams[1].interface) \notin keys
       PROVE  \E q \in others : InGroup(StreamAt(placed, q), streams[1].session, streams[1].interface)
  <2>1. placed.readers[n].streams = streams BY <1>4, <1>5, <1>10
  <2>2. twice = TwiceBy(placed, n) BY DEF n
  <2>3. Key(streams[1].session, streams[1].interface) \notin twice BY <1>18 DEF keys
  <2>4. PICK q \in (1..Slots) \ {n}, i \in 1..2 :
          InGroup(placed.readers[q].streams[i], streams[1].session, streams[1].interface)
    BY <1>18, <2>1, <2>2, <2>3 DEF TwiceBy
  <2>5. <<q, i>> \in others /\ StreamAt(placed, <<q, i>>) = placed.readers[q].streams[i]
    BY <2>4 DEF others, StreamsOfAll, p1, p2, StreamAt
  <2>. QED BY <2>4, <2>5
<1>19. Sound(one, failed, keys, others \cup {p1}) /\ SameReaders(placed, one)
  <2>1. OthersServed(placed, p1, keys, others)
    <3>1. ASSUME IsMulticast(streams[1]), HasInterface(streams[1]), Key(streams[1].session, streams[1].interface) \notin keys,
                 NEW q \in StreamsOfAll, q # p1, InGroup(StreamAt(placed, q), streams[1].session, streams[1].interface)
          PROVE  \E k \in others : InGroup(StreamAt(placed, k), streams[1].session, streams[1].interface)
      BY <1>11, <1>13, <1>18, <3>1
    <3>2. p1 \notin others BY DEF others
    <3>. QED BY <1>11, <3>1, <3>2 DEF OthersServed
  <2>2. others \subseteq StreamsOfAll BY DEF others
  <2>3. streams[1] = StreamAt(placed, p1) BY <1>11
  <2>4. one = SetUpStream(placed, streams[1], fault) OBVIOUS
  <2>. HIDE DEF one
  <2>. QED BY <1>11, <1>16, <1>17, <2>1, <2>2, <2>3, <2>4, SettingUp
<1>. HIDE DEF one
<1>20. \A q : StreamAt(one, q) = StreamAt(placed, q) BY <1>19 DEF StreamAt, SameReaders
<1>21. Sound(both, failed, keys, (others \cup {p1}) \cup {p2}) /\ SameReaders(one, both)
  <2>1. OthersServed(one, p2, keys, others \cup {p1}) BY <1>13 DEF OthersServed
  <2>2. others \cup {p1} \subseteq StreamsOfAll BY <1>11, <1>12
  <2>3. streams[2] = StreamAt(one, p2) BY <1>11, <1>20
  <2>4. both = SetUpStream(one, streams[2], fault) OBVIOUS
  <2>5. Sound(one, failed, keys, others \cup {p1}) BY <1>19
  <2>. DEFINE more == others \cup {p1}
  <2>. HIDE DEF both, more
  <2>6. Sound(both, failed, keys, more \cup {p2}) /\ SameReaders(one, both)
    BY <1>11, <1>16, <2>1, <2>2, <2>3, <2>4, <2>5, SettingUp DEF more
  <2>. QED BY <2>6 DEF more
<1>22. (others \cup {p1}) \cup {p2} = StreamsOfAll BY <1>11, <1>12, <1>13
<1>. HIDE DEF both
<1>23. Sound(World, faults, doubled, StreamsOfAll)' /\ World'.readers = both.readers
  BY <1>3, <1>21, <1>22, Ending DEF failed, keys
<1>24. World'.readers = placed.readers BY <1>19, <1>21, <1>23 DEF SameReaders
<1>26. FreeHaveNone(World)'
  <2>1. \A r \in 1..Slots : placed.readers[r].id = NoId =>
          placed.readers[r].streams[1].session = NoSession /\ placed.readers[r].streams[2].session = NoSession
    BY <1>5, <1>7, <1>10, WorldFields DEF MembershipInv, FreeHaveNone
  <2>. QED BY <1>24, <2>1 DEF FreeHaveNone
<1>. QED BY <1>23, <1>26 DEF MembershipInv

LEMMA RemoveReaderStep ==
  ASSUME MembershipInv, NEW r \in 1..Slots, NEW fault,
         NEW one, one = LeaveStream(World, readers[r].streams[1], fault),
         NEW both, both = LeaveStream(one, readers[r].streams[2], fault),
         NEW twice, twice = TwiceBy(World, r),
         Becomes(CloseUnused([both EXCEPT !.readers[r] = FreeReader], fault), fault, twice)
  PROVE  MembershipInv'
<1>. DEFINE p1 == <<r, 1>>
            p2 == <<r, 2>>
            failed == faults'
            keys == doubled \cup twice
            freed == [both EXCEPT !.readers[r] = FreeReader]
            last == CloseUnused(freed, fault)
<1>1. Becomes(last, fault, twice) OBVIOUS
<1>2. fault \in failed \cup {"none"} BY <1>1, FaultsGrow
<1>3. Sound(World, failed, keys, StreamsOfAll) BY <1>1, FaultsGrow, SoundLater DEF MembershipInv
<1>4. /\ p1 \in StreamsOfAll /\ p2 \in StreamsOfAll /\ p1 # p2
      /\ \A q \in StreamsOfAll : q = p1 \/ q = p2 \/ q[1] # r
  BY DEF StreamsOfAll
<1>5. readers[r].streams[1] = StreamAt(World, p1) /\ readers[r].streams[2] = StreamAt(World, p2)
  BY WorldFields DEF StreamAt
<1>6. WorldShape(World) BY <1>3 DEF Sound, SoundBut
<1>. HIDE DEF failed, keys, freed, last, p1, p2
<1>7. Leaves(World, one, p1, fault) BY <1>4, <1>5, <1>6, Leaving
<1>8. \A q : StreamAt(one, q) = StreamAt(World, q) BY <1>7 DEF Leaves, StreamAt
<1>9. Leaves(one, both, p2, fault)
  <2>1. WorldShape(one) BY <1>7 DEF Leaves
  <2>2. readers[r].streams[2] = StreamAt(one, p2) BY <1>5, <1>8
  <2>. QED BY <1>4, <2>1, <2>2, Leaving
<1>10. WorldShape(both) /\ both.readers = readers /\ both.sockets = sockets
       /\ both.joined \subseteq one.joined /\ one.joined \subseteq joined
       /\ one.sockets = sockets
  BY <1>7, <1>9, WorldFields DEF Leaves
<1>11. /\ DOMAIN freed = DOMAIN both /\ freed.sockets = sockets /\ freed.joined = both.joined
       /\ freed.readers = [readers EXCEPT ![r] = FreeReader]
  BY <1>10 DEF freed, WorldShape
<1>12. /\ DOMAIN freed.readers = 1..Slots
       /\ \A q \in 1..Slots : freed.readers[q] = IF q = r THEN FreeReader ELSE readers[q]
  BY <1>6, <1>11, WorldFields DEF WorldShape
<1>13. ReaderShape(FreeReader) /\ FreeReader.id = NoId
       /\ FreeReader.streams[1] = NoStream /\ FreeReader.streams[2] = NoStream
  BY DEF FreeReader, NoStream, ReaderShape, StreamShape
<1>14. NoStream.session = NoSession /\ NoStream.interface = NoInterface BY DEF NoStream
<1>15. StreamAt(freed, p1) = NoStream /\ StreamAt(freed, p2) = NoStream
  BY <1>12, <1>13 DEF StreamAt, p1, p2
<1>16. \A q \in StreamsOfAll : q # p1 /\ q # p2 => StreamAt(freed, q) = StreamAt(World, q)
  BY <1>4, <1>12, WorldFields DEF StreamAt, StreamsOfAll
<1>17. SoundBut(freed, failed, keys, StreamsOfAll)
  <2>1. WorldShape(freed) BY <1>10, <1>11, <1>12, <1>13, <1>6, WorldFields DEF WorldShape
  <2>2. PortsDiffer(freed) /\ MembersAreOpen(freed)
    <3>1. PortsDiffer(World) /\ MembersAreOpen(World) BY <1>3 DEF Sound, SoundBut
    <3>2. freed.sockets = World.sockets /\ freed.joined \subseteq World.joined BY <1>10, <1>11, WorldFields
    <3>3. PortsDiffer(freed) BY <3>1, <3>2 DEF PortsDiffer
    <3>4. MembersAreOpen(freed) BY <3>1, <3>2 DEF MembersAreOpen
    <3>. QED BY <3>3, <3>4
  <2>3. ASSUME "leave" \notin failed PROVE AllListenedTo(freed, keys)
    <3>1. SUFFICES ASSUME NEW m \in both.joined, KeyOf(freed, m) \notin keys
                   PROVE  \E q \in StreamsOfAll : Listens(freed, StreamAt(freed, q), m)
      BY <1>11 DEF AllListenedTo
    <3>9. KeyOf(World, m) \notin keys BY <1>11, <3>1, WorldFields DEF KeyOf
    <3>2. m \in one.joined /\ m \in joined BY <1>10
    <3>3. fault # "leave" BY <1>2, <2>3
    <3>4. ASSUME Listens(World, StreamAt(World, p1), m), InGroup(StreamAt(World, p2), StreamAt(World, p1).session, m.interface)
          PROVE  \E k \in StreamsOfAll : k # p1 /\ k # p2 /\ Listens(World, StreamAt(World, k), m)
      <4>. DEFINE stream == StreamAt(World, p1)
      <4>1. IsMulticast(stream) /\ HasInterface(stream) /\ stream.interface = m.interface
            /\ Key(stream.session, stream.interface) = KeyOf(World, m)
        BY <3>4 DEF Listens, IsMulticast, HasInterface, Key, KeyOf
      <4>2. KeyOf(World, m) \notin TwiceBy(World, r) BY <3>9 DEF keys
      <4>3. PICK q \in (1..Slots) \ {r}, i \in 1..2 :
              InGroup(World.readers[q].streams[i], stream.session, stream.interface)
        BY <1>5, <3>4, <4>1, <4>2, WorldFields DEF TwiceBy
      <4>4. <<q, i>> \in StreamsOfAll /\ <<q, i>> # p1 /\ <<q, i>> # p2
            /\ StreamAt(World, <<q, i>>) = World.readers[q].streams[i]
        BY <4>3 DEF StreamsOfAll, StreamAt, p1, p2
      <4>5. Listens(World, StreamAt(World, <<q, i>>), m) BY <1>4, <1>6, <3>4, <4>1, <4>3, <4>4, GroupIsHeard
      <4>. QED BY <4>4, <4>5
    <3>5. PICK q \in StreamsOfAll : Listens(World, StreamAt(World, q), m)
      BY <1>3, <2>3, <3>2, <3>9, WorldFields DEF Sound, SoundBut, AllListenedTo
    <3>6. \E k \in StreamsOfAll : k # p1 /\ k # p2 /\ Listens(World, StreamAt(World, k), m)
      <4>1. CASE q # p1 /\ q # p2 BY <3>5, <4>1
      <4>2. CASE q = p1
        <5>1. PICK k \in StreamsOfAll : k # p1 /\ InGroup(StreamAt(World, k), StreamAt(World, p1).session, m.interface)
          BY <1>7, <3>2, <3>3, <3>5, <4>2 DEF Leaves
        <5>2. CASE k = p2 BY <3>4, <3>5, <4>2, <5>1, <5>2
        <5>3. Listens(World, StreamAt(World, k), m) BY <1>6, <3>5, <4>2, <5>1, GroupIsHeard
        <5>. QED BY <5>1, <5>2, <5>3
      <4>3. CASE q = p2
        <5>1. Listens(one, StreamAt(one, p2), m)
          BY <1>8, <1>10, <3>5, <4>3, WorldFields DEF Listens
        <5>2. PICK k \in StreamsOfAll : k # p2 /\ InGroup(StreamAt(one, k), StreamAt(one, p2).session, m.interface)
          BY <1>9, <3>3, <5>1 DEF Leaves
        <5>4. Listens(World, StreamAt(World, k), m) BY <1>6, <1>8, <3>5, <4>3, <5>2, GroupIsHeard
        <5>3. CASE k = p1
          <6>1. InGroup(StreamAt(World, p2), StreamAt(World, p1).session, m.interface)
            BY <3>5, <4>3, <5>3, <5>4 DEF Listens, InGroup
          <6>. QED BY <3>4, <5>3, <5>4, <6>1
        <5>. QED BY <5>2, <5>3, <5>4
      <4>. QED BY <4>1, <4>2, <4>3
    <3>7. PICK k \in StreamsOfAll : k # p1 /\ k # p2 /\ Listens(World, StreamAt(World, k), m) BY <3>6
    <3>8. Listens(freed, StreamAt(World, k), m) BY <1>11, <3>7, WorldFields DEF Listens
    <3>. QED BY <1>16, <3>7, <3>8
  <2>4. ASSUME ~NeverServed(failed) PROVE Served(freed, keys, StreamsOfAll)
    <3>1. Served(World, keys, StreamsOfAll) BY <1>3, <2>4 DEF Sound, SoundBut
    <3>2. ASSUME NEW q \in StreamsOfAll, q # p1, q # p2
          PROVE  HasSocket(freed, StreamAt(freed, q)) /\ HasJoined(freed, keys, StreamAt(freed, q))
      <4>1. HasSocket(World, StreamAt(World, q)) /\ HasJoined(World, keys, StreamAt(World, q)) BY <3>1 DEF Served
      <4>2. HasJoined(one, keys, StreamAt(World, q)) BY <1>4, <1>7, <3>2, <4>1, OthersStayJoined
      <4>3. HasJoined(both, keys, StreamAt(World, q)) BY <1>4, <1>8, <1>9, <3>2, <4>2, OthersStayJoined
      <4>4. HasJoined(freed, keys, StreamAt(World, q)) BY <1>10, <1>11, <4>3 DEF HasJoined
      <4>5. HasSocket(freed, StreamAt(World, q)) BY <1>11, <4>1, WorldFields DEF HasSocket
      <4>. QED BY <1>16, <3>2, <4>4, <4>5
    <3>3. HasSocket(freed, NoStream) /\ HasJoined(freed, keys, NoStream)
      BY <1>14 DEF HasSocket, HasJoined, IsMulticast
    <3>. QED BY <1>15, <3>2, <3>3 DEF Served
  <2>. QED BY <2>1, <2>2, <2>3, <2>4 DEF SoundBut
<1>18. Sound(last, failed, keys, StreamsOfAll) /\ SameReaders(freed, last)
  BY <1>2, <1>17, Closing DEF last
<1>19. Sound(World, faults, doubled, StreamsOfAll)' /\ World'.readers = last.readers
  BY <1>1, <1>18, Ending DEF failed, keys
<1>20. World'.readers = freed.readers BY <1>18, <1>19 DEF SameReaders
<1>22. FreeHaveNone(World)'
  <2>1. \A q \in 1..Slots : freed.readers[q].id = NoId =>
          freed.readers[q].streams[1].session = NoSession /\ freed.readers[q].streams[2].session = NoSession
    BY <1>12, <1>13, <1>14, WorldFields DEF MembershipInv, FreeHaveNone
  <2>. QED BY <1>20, <2>1 DEF FreeHaveNone
<1>. QED BY <1>19, <1>22 DEF MembershipInv

\* The loop of set_interfaces is what its recursive definition says: by
\* induction on how far the function is defined.
LEMMA ReadersMovedDef ==
  ASSUME NEW interfaces, NEW fault
  PROVE  ReadersMoved(interfaces, fault) =
           [r \in 0..Slots |->
              IF r = 0 THEN World ELSE MoveReader(ReadersMoved(interfaces, fault)[r - 1], r, interfaces, fault)]
<1>. DEFINE Step(g, r) == IF r = 0 THEN World ELSE MoveReader(g[r - 1], r, interfaces, fault)
            S == {n \in Nat : \E g : g = [r \in 0..n |-> Step(g, r)]}
<1>1. 0 \in S
  <2>. DEFINE g == [r \in 0..0 |-> World]
  <2>1. g = [r \in 0..0 |-> Step(g, r)] OBVIOUS
  <2>. QED BY <2>1
<1>2. ASSUME NEW n \in Nat, n \in S PROVE n + 1 \in S
  <2>1. PICK g : g = [r \in 0..n |-> Step(g, r)] BY <1>2
  <2>. DEFINE h == [r \in 0..(n + 1) |-> IF r <= n THEN g[r] ELSE MoveReader(g[n], n + 1, interfaces, fault)]
  <2>2. ASSUME NEW r \in 0..(n + 1) PROVE h[r] = Step(h, r)
    <3>1. CASE r = 0 BY <2>1, <3>1
    <3>2. CASE r # 0 /\ r <= n
      <4>1. h[r] = g[r] /\ g[r] = Step(g, r) BY <2>1, <3>2
      <4>2. h[r - 1] = g[r - 1] BY <3>2
      <4>. QED BY <3>2, <4>1, <4>2
    <3>3. CASE r = n + 1
      <4>1. h[r] = MoveReader(g[n], r, interfaces, fault) BY <3>3
      <4>2. h[r - 1] = g[n] BY <3>3
      <4>. QED BY <3>3, <4>1, <4>2
    <3>. QED BY <3>1, <3>2, <3>3
  <2>3. h = [r \in 0..(n + 1) |-> Step(h, r)] BY <2>2
  <2>. HIDE DEF h, Step
  <2>4. \E f : f = [r \in 0..(n + 1) |-> Step(f, r)] BY <2>3
  <2>5. n + 1 \in Nat OBVIOUS
  <2>. QED BY <2>4, <2>5
<1>3. Nat \subseteq S
  <2>. HIDE DEF S
  <2>. QED BY <1>1, <1>2, Induction
<1>4. Slots \in S BY <1>3, SlotsAssumption
<1>5. PICK g : g = [r \in 0..Slots |-> Step(g, r)] BY <1>4
<1>6. ReadersMoved(interfaces, fault) = CHOOSE f : f = [r \in 0..Slots |-> Step(f, r)] BY DEF ReadersMoved
<1>. QED BY <1>5, <1>6

LEMMA SetInterfacesStep ==
  ASSUME MembershipInv, NEW interfaces \in InterfacePairs, NEW fault, NEW upTo \in 0..Slots,
         NEW moved, moved = ReadersMoved(interfaces, fault)[upTo],
         Becomes(moved, fault, {}) \/ Becomes(CloseUnused(moved, fault), fault, {})
  PROVE  MembershipInv'
<1>. DEFINE failed == faults'
            after == ReadersMoved(interfaces, fault)
            Same(w) == \A q \in 1..Slots :
                         /\ w.readers[q].id = readers[q].id
                         /\ \A j \in 1..2 : w.readers[q].streams[j].session = readers[q].streams[j].session
            On(w, k) == \A q \in 1..Slots, j \in 1..2 :
                          w.readers[q].streams[j].interface =
                            IF q <= k THEN interfaces[j] ELSE readers[q].streams[j].interface
            Holds(w, k) == Sound(w, failed, doubled, StreamsOfAll) /\ Same(w) /\ On(w, k)
            S == {k \in Nat : k <= Slots => Holds(after[k], k)}
<1>1. fault \in failed \cup {"none"} /\ faults \subseteq failed BY FaultsGrow
<1>2. Sound(World, failed, doubled, StreamsOfAll) BY <1>1, SoundLater DEF MembershipInv
<1>3. Slots \in Nat BY SlotsAssumption
<1>4. after = [r \in 0..Slots |-> IF r = 0 THEN World ELSE MoveReader(after[r - 1], r, interfaces, fault)]
  BY ReadersMovedDef
<1>. HIDE DEF failed, after
<1>5. 0 \in S
  <2>1. after[0] = World BY <1>3, <1>4
  <2>2. Same(World) /\ On(World, 0) BY WorldFields
  <2>. HIDE DEF Same, On
  <2>. QED BY <1>2, <2>1, <2>2
<1>6. ASSUME NEW k \in Nat, k \in S PROVE k + 1 \in S
  <2>1. SUFFICES ASSUME k + 1 <= Slots PROVE Holds(after[k + 1], k + 1) BY <1>3
  <2>2. Holds(after[k], k) BY <1>3, <1>6, <2>1
  <2>. DEFINE r == k + 1
              w == after[k]
              one == Rejoin(w, r, 1, interfaces[1], fault)
              both == Rejoin(one, r, 2, interfaces[2], fault)
  <2>3. after[k + 1] = both
    <3>1. k + 1 \in 0..Slots /\ k + 1 # 0 /\ (k + 1) - 1 = k BY <1>3, <2>1
    <3>2. after[k + 1] = MoveReader(after[k], k + 1, interfaces, fault) BY <1>4, <3>1
    <3>. QED BY <3>2 DEF MoveReader
  <2>4. r \in 1..Slots BY <1>3, <2>1
  <2>. HIDE DEF w, both, one, r
  <2>5. Sound(one, failed, doubled, StreamsOfAll) /\ Moves(w, one, r, 1, interfaces[1])
    <3>1. one = Rejoin(w, r, 1, interfaces[1], fault) BY DEF one
    <3>2. 1 \in 1..2 OBVIOUS
    <3>3. Sound(w, failed, doubled, StreamsOfAll) BY <2>2 DEF w
    <3>. QED BY <1>1, <2>4, <3>1, <3>2, <3>3, Rejoining, Zenon
  <2>6. Sound(both, failed, doubled, StreamsOfAll) /\ Moves(one, both, r, 2, interfaces[2])
    <3>1. both = Rejoin(one, r, 2, interfaces[2], fault) BY DEF both
    <3>2. 2 \in 1..2 OBVIOUS
    <3>. QED BY <1>1, <2>4, <2>5, <3>1, <3>2, Rejoining, Zenon
  <2>7. Same(w) /\ On(w, k) BY <2>2 DEF w
  <2>8. Same(both) BY <2>5, <2>6, <2>7 DEF Moves
  <2>9. On(both, k + 1)
    <3>1. SUFFICES ASSUME NEW q \in 1..Slots, NEW j \in 1..2
                   PROVE  both.readers[q].streams[j].interface =
                            IF q <= k + 1 THEN interfaces[j] ELSE readers[q].streams[j].interface
      OBVIOUS
    <3>2. both.readers[q].streams[j].interface =
            IF q = r THEN interfaces[j] ELSE w.readers[q].streams[j].interface
      <4>1. both.readers[q].streams[j].interface =
              IF q = r /\ j = 2 THEN interfaces[2] ELSE one.readers[q].streams[j].interface
        BY <2>6 DEF Moves
      <4>2. one.readers[q].streams[j].interface =
              IF q = r /\ j = 1 THEN interfaces[1] ELSE w.readers[q].streams[j].interface
        BY <2>5 DEF Moves
      <4>3. j = 1 \/ j = 2 OBVIOUS
      <4>. QED BY <4>1, <4>2, <4>3
    <3>3. w.readers[q].streams[j].interface = IF q <= k THEN interfaces[j] ELSE readers[q].streams[j].interface
      BY <2>7
    <3>. QED BY <3>2, <3>3 DEF r
  <2>. HIDE DEF Same, On
  <2>. QED BY <2>3, <2>6, <2>8, <2>9
<1>7. Nat \subseteq S
  <2>. HIDE DEF S
  <2>. QED BY <1>5, <1>6, Induction
<1>8. Holds(moved, upTo)
  <2>1. upTo \in S /\ upTo <= Slots BY <1>3, <1>7
  <2>2. moved = after[upTo] BY DEF after
  <2>. HIDE DEF Holds
  <2>. QED BY <2>1, <2>2
<1>9. Sound(World, faults, doubled, StreamsOfAll)' /\ World'.readers = moved.readers
  <2>1. CASE Becomes(moved, fault, {}) BY <1>8, <2>1, Ending DEF failed
  <2>2. CASE Becomes(CloseUnused(moved, fault), fault, {})
    <3>. DEFINE last == CloseUnused(moved, fault)
    <3>1. SoundBut(moved, failed, doubled, StreamsOfAll) BY <1>8 DEF Sound
    <3>. HIDE DEF last
    <3>2. Sound(last, failed, doubled, StreamsOfAll) /\ SameReaders(moved, last) BY <1>1, <3>1, Closing DEF last
    <3>3. Sound(World, faults, doubled, StreamsOfAll)' /\ World'.readers = last.readers
      BY <2>2, <3>2, Ending DEF failed, last
    <3>. QED BY <3>2, <3>3 DEF SameReaders
  <2>. QED BY <2>1, <2>2
<1>12. FreeHaveNone(World)'
  <2>1. Same(moved) BY <1>8
  <2>2. \A q \in 1..Slots : moved.readers[q].id = NoId =>
          moved.readers[q].streams[1].session = NoSession /\ moved.readers[q].streams[2].session = NoSession
    BY <2>1, WorldFields DEF MembershipInv, FreeHaveNone
  <2>. QED BY <1>9, <2>2 DEF FreeHaveNone
<1>. QED BY <1>9, <1>12 DEF MembershipInv

LEMMA MembershipInvInductive == MembershipInv /\ [MembershipNext]_membershipVars => MembershipInv'
<1>1. SUFFICES ASSUME MembershipInv, [MembershipNext]_membershipVars PROVE MembershipInv' OBVIOUS
<1>2. CASE AddReader BY <1>1, <1>2, AddReaderStep DEF AddReader
<1>3. CASE RemoveReader BY <1>1, <1>3, RemoveReaderStep DEF RemoveReader
<1>4. CASE SetInterfaces BY <1>1, <1>4, SetInterfacesStep DEF SetInterfaces
<1>5. CASE UNCHANGED membershipVars
  <2>1. World' = World /\ faults' = faults /\ doubled' = doubled BY <1>5 DEF World, membershipVars
  <2>2. Sound(World', faults', doubled', StreamsOfAll) BY <1>1, <2>1 DEF MembershipInv
  <2>3. FreeHaveNone(World)' BY <1>1, <2>1 DEF MembershipInv, FreeHaveNone
  <2>. QED BY <2>2, <2>3, SoundNext DEF MembershipInv
<1>. QED BY <1>1, <1>2, <1>3, <1>4, <1>5 DEF MembershipNext

LEMMA MembershipInvSuffices == MembershipInv => GroupsFollowReaders
<1>1. SUFFICES ASSUME MembershipInv PROVE GroupsFollowReaders OBVIOUS
<1>2. WorldShape(World) BY <1>1 DEF MembershipInv, Sound, SoundBut
<1>3. JoinedIsWanted
  <2>1. SUFFICES ASSUME "leave" \notin faults, NEW m \in joined, KeyOf(World, m) \notin doubled
                 PROVE  \E session \in Sessions :
                          session.group = m.group /\ session.port = sockets[m.socket] /\ Wanted(session, m.interface)
    BY DEF JoinedIsWanted
  <2>2. PICK p \in StreamsOfAll : Listens(World, StreamAt(World, p), m)
    BY <1>1, <2>1, WorldFields DEF MembershipInv, Sound, SoundBut, AllListenedTo
  <2>3. PICK r \in 1..Slots, i \in 1..2 : StreamAt(World, p) = readers[r].streams[i]
    BY WorldFields DEF StreamAt, StreamsOfAll
  <2>. DEFINE session == readers[r].streams[i].session
  <2>4. session \in Sessions BY <1>2, <2>2, <2>3, StreamHasShape DEF Listens
  <2>5. InGroup(readers[r].streams[i], session, m.interface) BY <2>2, <2>3 DEF Listens, InGroup
  <2>6. session.group = m.group /\ session.port = sockets[m.socket] BY <2>2, <2>3, WorldFields DEF Listens
  <2>7. Wanted(session, m.interface) BY <2>5 DEF Wanted
  <2>. QED BY <2>4, <2>6, <2>7
<1>4. WantedIsJoined
  <2>1. SUFFICES ASSUME faults \cap {"join", "open", "lock socket"} = {}, NEW r \in 1..Slots, NEW i \in 1..2,
                        IsMulticast(readers[r].streams[i]), HasInterface(readers[r].streams[i]),
                        Key(readers[r].streams[i].session, readers[r].streams[i].interface) \notin doubled
                 PROVE  \E s \in WithPort(World, readers[r].streams[i].session.port) :
                          Membership(s, readers[r].streams[i].session, readers[r].streams[i].interface) \in joined
    BY DEF WantedIsJoined
  <2>2. Served(World, doubled, StreamsOfAll) BY <1>1, <2>1 DEF MembershipInv, Sound, SoundBut, NeverServed
  <2>3. <<r, i>> \in StreamsOfAll /\ StreamAt(World, <<r, i>>) = readers[r].streams[i]
    BY WorldFields DEF StreamAt, StreamsOfAll
  <2>4. HasJoined(World, doubled, readers[r].streams[i]) BY <2>2, <2>3 DEF Served
  <2>. QED BY <2>1, <2>4, WorldFields DEF HasJoined, WithPort
<1>. QED BY <1>3, <1>4 DEF GroupsFollowReaders

(***************************************************************************)
(* GroupsFollowReaders: whatever readers come, go and move, in whatever    *)
(* order and whatever fails meanwhile, sockets are members of the groups   *)
(* that streams of readers listen to and of no others: of any number of    *)
(* readers, with any sessions on any interfaces.  Left out, as in the      *)
(* property, are what the system refused, and a group that its only reader *)
(* came or went with in both streams on one interface.                     *)
(***************************************************************************)
THEOREM GroupsAreThoseWanted == MembershipSpec => []GroupsFollowReaders
<1>1. MembershipSpec => []MembershipInv
  BY MembershipStarts, MembershipInvInductive, PTL DEF MembershipSpec
<1>. QED BY <1>1, MembershipInvSuffices, PTL
-----------------------------------------------------------------------------
(***************************************************************************)
(* The comparison of data sets.                                            *)
(***************************************************************************)
USE DEF Worse, WorseByTopology, Error1, Error2, BetterByTopology, Better

\* Two data sets that agree on the quality of a grandmaster they share.
AgreeingPair(a, b) == a.gm = b.gm => a.quality = b.quality

\* The lexicographic order of two qualities is total: they are equal, or one of
\* them is less at the first field in which they differ.
LEMMA QualityTotal ==
  ASSUME NEW p \in [Fields -> Nat], NEW q \in [Fields -> Nat],
         ~QualityLess(p, q), ~QualityLess(q, p)
  PROVE  p = q
<1> DEFINE Same(i) == p[i] = q[i]
<1>1. ASSUME NEW i \in Fields, \A j \in Fields : j < i => Same(j)
      PROVE  Same(i)
  BY <1>1 DEF QualityLess, Fields
<1>2. Same(1)
  BY <1>1 DEF Fields
<1>3. Same(2)
  BY <1>1, <1>2 DEF Fields
<1>4. Same(3)
  BY <1>1, <1>2, <1>3 DEF Fields
<1>5. Same(4)
  BY <1>1, <1>2, <1>3, <1>4 DEF Fields
<1>6. Same(5)
  BY <1>1, <1>2, <1>3, <1>4, <1>5 DEF Fields
<1>7. \A i \in Fields : Same(i)
  BY <1>2, <1>3, <1>4, <1>5, <1>6 DEF Fields
<1>. QED  BY <1>7

\* The lexicographic order is asymmetric: the first fields that differ are the
\* same in both directions.
LEMMA QualityAsymmetric ==
  ASSUME NEW p \in [Fields -> Nat], NEW q \in [Fields -> Nat], QualityLess(p, q)
  PROVE  ~QualityLess(q, p)
BY DEF QualityLess, Fields

\* The lexicographic order is transitive: the smaller of the two fields that
\* decide the comparisons decides the third.
LEMMA QualityTransitive ==
  ASSUME NEW p \in [Fields -> Nat], NEW q \in [Fields -> Nat], NEW r \in [Fields -> Nat],
         QualityLess(p, q), QualityLess(q, r)
  PROVE  QualityLess(p, r)
<1>1. PICK i \in Fields : p[i] < q[i] /\ \A j \in Fields : j < i => p[j] = q[j]
  BY DEF QualityLess
<1>2. PICK k \in Fields : q[k] < r[k] /\ \A j \in Fields : j < k => q[j] = r[j]
  BY DEF QualityLess
<1>3. CASE i <= k
  <2>1. p[i] < r[i]
    BY <1>1, <1>2, <1>3 DEF Fields
  <2>2. \A j \in Fields : j < i => p[j] = r[j]
    BY <1>1, <1>2, <1>3 DEF Fields
  <2>. QED  BY <2>1, <2>2 DEF QualityLess
<1>4. CASE k < i
  <2>1. p[k] < r[k]
    BY <1>1, <1>2, <1>4 DEF Fields
  <2>2. \A j \in Fields : j < k => p[j] = r[j]
    BY <1>1, <1>2, <1>4 DEF Fields
  <2>. QED  BY <2>1, <2>2 DEF QualityLess
<1>. QED  BY <1>3, <1>4 DEF Fields

\* compare for one grandmaster: better means fewer steps, or as many steps and a
\* smaller sender, or the same sender and a smaller port.
LEMMA TopologyOrder ==
  ASSUME NEW a \in DataSet, NEW b \in DataSet, a.gm = b.gm
  PROVE  IsBetter(a, b) <=> \/ a.steps < b.steps
                            \/ a.steps = b.steps /\ a.sender < b.sender
                            \/ a.steps = b.steps /\ a.sender = b.sender /\ a.port < b.port
<1>1. /\ a.steps \in Nat /\ b.steps \in Nat
      /\ a.sender \in Int /\ b.sender \in Int
      /\ a.port \in Nat /\ b.port \in Nat
      /\ Self \in Int /\ a.sender # Self /\ b.sender # Self
  BY ClocksAssumption, StepsAssumption, PortNumbersAssumption DEF DataSet
<1>. QED  BY <1>1 DEF IsBetter, Compare, CompareTopology, FurtherAway, Opposite

\* compare for different grandmasters: better means less by quality, or of the
\* same quality and a larger identity.
LEMMA QualityOrder ==
  ASSUME NEW a \in DataSet, NEW b \in DataSet, a.gm # b.gm
  PROVE  IsBetter(a, b) <=> \/ QualityLess(a.quality, b.quality)
                            \/ ~QualityLess(b.quality, a.quality) /\ a.gm > b.gm
BY DEF IsBetter, Compare, CompareQuality

\* The two ways round of a comparison have opposite results, and only a data set
\* and itself compare as an error.
LEMMA CompareOpposite ==
  ASSUME NEW a \in DataSet, NEW b \in DataSet, AgreeingPair(a, b)
  PROVE  /\ Compare(b, a) = Opposite(Compare(a, b))
         /\ Compare(a, b) \in {Error1, Error2} => a = b
<1>1. /\ a.steps \in Nat /\ b.steps \in Nat
      /\ a.sender \in Int /\ b.sender \in Int
      /\ a.port \in Nat /\ b.port \in Nat
      /\ a.gm \in Int /\ b.gm \in Int
      /\ Self \in Int /\ a.sender # Self /\ b.sender # Self
      /\ a.quality \in [Fields -> Nat] /\ b.quality \in [Fields -> Nat]
  BY ClocksAssumption, StepsAssumption, PortNumbersAssumption, QualitiesAssumption DEF DataSet
<1>2. CASE a.gm = b.gm
  <2>1. Compare(b, a) = Opposite(Compare(a, b))
    BY <1>1, <1>2 DEF Compare, CompareTopology, FurtherAway, Opposite
  <2>2. ASSUME Compare(a, b) \in {Error1, Error2}
        PROVE  a.steps = b.steps /\ a.sender = b.sender /\ a.port = b.port
    BY <1>1, <1>2, <2>2 DEF Compare, CompareTopology, FurtherAway, Opposite
  <2>. QED  BY <1>2, <2>1, <2>2 DEF DataSet, AgreeingPair
<1>3. CASE a.gm # b.gm
  <2>1. ~(QualityLess(a.quality, b.quality) /\ QualityLess(b.quality, a.quality))
    BY <1>1, QualityAsymmetric
  <2>. QED  BY <1>1, <1>3, <2>1 DEF Compare, CompareQuality, Opposite
<1>. QED  BY <1>2, <1>3

\* Of two different data sets that agree, exactly one is better.
LEMMA BetterTotal ==
  ASSUME NEW a \in DataSet, NEW b \in DataSet, AgreeingPair(a, b), a # b, ~IsBetter(a, b)
  PROVE  IsBetter(b, a)
<1>1. Compare(a, b) \in Results
  BY DEF Results, Compare, CompareQuality, CompareTopology, FurtherAway, Opposite
<1>. QED  BY <1>1, CompareOpposite DEF IsBetter, Opposite, Results

\* Better is transitive on data sets that agree.  Without the agreement it is
\* not: the same grandmaster with two qualities closes a cycle through a second
\* grandmaster whose quality lies between them.
LEMMA BetterTransitive ==
  ASSUME NEW a \in DataSet, NEW b \in DataSet, NEW c \in DataSet,
         AgreeingPair(a, b), AgreeingPair(b, c), AgreeingPair(a, c),
         IsBetter(a, b), IsBetter(b, c)
  PROVE  IsBetter(a, c)
<1>1. \A d \in DataSet : /\ d.quality \in [Fields -> Nat]
                         /\ d.gm \in Int /\ d.steps \in Nat
                         /\ d.sender \in Int /\ d.port \in Nat
  BY ClocksAssumption, StepsAssumption, PortNumbersAssumption, QualitiesAssumption DEF DataSet
<1>2. CASE a.gm = b.gm /\ b.gm = c.gm
  BY <1>1, <1>2, TopologyOrder
<1>3. CASE a.gm = b.gm /\ b.gm # c.gm
  BY <1>1, <1>3, QualityOrder DEF AgreeingPair
<1>4. CASE a.gm # b.gm /\ b.gm = c.gm
  BY <1>1, <1>4, QualityOrder DEF AgreeingPair
<1>5. CASE a.gm # b.gm /\ b.gm # c.gm
  <2>1. \/ QualityLess(a.quality, b.quality)
        \/ a.quality = b.quality /\ a.gm > b.gm
    BY <1>1, <1>5, QualityOrder, QualityTotal
  <2>2. \/ QualityLess(b.quality, c.quality)
        \/ b.quality = c.quality /\ b.gm > c.gm
    BY <1>1, <1>5, QualityOrder, QualityTotal
  <2>3. \/ QualityLess(a.quality, c.quality)
        \/ a.quality = c.quality /\ a.gm > c.gm
    BY <1>1, <2>1, <2>2, QualityTransitive
  <2>4. ~QualityLess(a.quality, a.quality)
    BY <1>1, QualityAsymmetric
  <2>5. a.gm # c.gm
    BY <1>1, <2>3, <2>4 DEF AgreeingPair
  <2>6. ~QualityLess(c.quality, a.quality) \/ QualityLess(a.quality, c.quality)
    BY <1>1, <2>3, <2>4
  <2>. QED  BY <2>3, <2>5, <2>6, <2>4, QualityOrder
<1>. QED  BY <1>2, <1>3, <1>4, <1>5

-----------------------------------------------------------------------------

\* The inductive invariant: the data sets scanned agree with each other.
ScanInv ==
  /\ TypeOK
  /\ best = None => scanned = {}
  /\ \A a, b \in scanned : AgreeingPair(a, b)
  /\ BestOfAll

\* The scan starts without data sets.
LEMMA ScanInit == Init => ScanInv
BY DEF Init, ScanInv, TypeOK, BestOfAll

\* Scanning one more data set keeps the best one best: the new one either loses
\* against it or, by transitivity, wins against all that it won against.
LEMMA ScanStep == ScanInv /\ [Next]_vars => ScanInv'
<1> SUFFICES ASSUME ScanInv, [Next]_vars PROVE ScanInv'
  OBVIOUS
<1>1. CASE UNCHANGED vars
  BY <1>1 DEF vars, ScanInv, TypeOK, BestOfAll
<1>2. ASSUME NEW d \in DataSet \ scanned, Agrees(d, scanned), Scan(d)
      PROVE  ScanInv'
  <2>1. scanned' = scanned \cup {d} /\ scanned \subseteq DataSet /\ None \notin DataSet
    BY <1>2, NoDataSetAssumption DEF Scan, ScanInv, TypeOK
  <2>2. \A a, b \in scanned' : AgreeingPair(a, b)
    BY <1>2, <2>1 DEF ScanInv, Agrees, AgreeingPair
  <2>3. CASE best = None
    BY <1>2, <2>1, <2>2, <2>3 DEF Scan, ScanInv, TypeOK, BestOfAll
  <2>4. CASE best # None /\ IsBetter(d, best)
    <3>1. best' = d /\ best \in scanned
      BY <1>2, <2>4 DEF Scan, ScanInv, TypeOK
    <3>2. ASSUME NEW s \in scanned PROVE IsBetter(d, s)
      <4>1. CASE s = best
        BY <2>4, <4>1
      <4>2. CASE s # best
        <5>1. IsBetter(best, s)
          BY <4>2 DEF ScanInv, BestOfAll
        <5>. QED  BY <2>1, <2>2, <2>4, <3>1, <5>1, BetterTransitive
      <4>. QED  BY <4>1, <4>2
    <3>. QED  BY <2>1, <2>2, <3>1, <3>2 DEF ScanInv, TypeOK, BestOfAll
  <2>5. CASE best # None /\ ~IsBetter(d, best)
    <3>1. best' = best /\ best \in scanned
      BY <1>2, <2>5 DEF Scan, ScanInv, TypeOK
    <3>2. IsBetter(best, d)
      BY <1>2, <2>1, <2>2, <2>5, <3>1, BetterTotal
    <3>. QED  BY <2>1, <2>2, <2>5, <3>1, <3>2 DEF ScanInv, TypeOK, BestOfAll
  <2>. QED  BY <2>3, <2>4, <2>5
<1>. QED  BY <1>1, <1>2 DEF Next

\* The scan of calculate_erbest and determine_ebest finds a data set that is
\* better than every other one, however many there are and in any order.
THEOREM ScanFindsTheBest == Spec => []BestOfAll
<1>1. ScanInv => BestOfAll
  BY DEF ScanInv
<1>. QED  BY ScanInit, ScanStep, <1>1, PTL DEF Spec

\* Comparing is antisymmetric, and only equal data sets compare as an error.
THEOREM ComparisonIsAntisymmetric == Spec => []CompareIsAntisymmetric
<1>1. ScanInv => CompareIsAntisymmetric
  BY CompareOpposite DEF ScanInv, TypeOK, CompareIsAntisymmetric
<1>. QED  BY ScanInit, ScanStep, <1>1, PTL DEF Spec

-----------------------------------------------------------------------------
(***************************************************************************)
(* Services on the network: lists, and what is left of them                *)
(***************************************************************************)

\* A list, of which the set of elements is enough to know.
IsList(l) == l \in Seq(Range(l))

LEMMA ListIs ==
  ASSUME NEW l, IsList(l)
  PROVE  Len(l) \in Nat /\ DOMAIN l = 1..Len(l)
BY DEF IsList

LEMMA ListOf ==
  ASSUME NEW S, NEW l \in Seq(S)
  PROVE  IsList(l)
BY DEF IsList, Range

LEMMA Appended ==
  ASSUME NEW l, IsList(l), NEW r
  PROVE  /\ IsList(Append(l, r)) /\ Len(Append(l, r)) = Len(l) + 1
         /\ \A k \in 1..Len(l) : Append(l, r)[k] = l[k]
         /\ Append(l, r)[Len(l) + 1] = r
<1>. DEFINE S == Range(l) \cup {r}
<1>1. l \in Seq(S) /\ r \in S BY DEF IsList
<1>2. Append(l, r) \in Seq(S) BY <1>1
<1>3. IsList(Append(l, r)) BY <1>2, ListOf
<1>. QED BY <1>1, <1>3

LEMMA Tails ==
  ASSUME NEW l, IsList(l), l # <<>>
  PROVE  /\ Len(l) \in Nat \ {0} /\ Head(l) = l[1]
         /\ IsList(Tail(l)) /\ Len(Tail(l)) = Len(l) - 1
         /\ \A k \in 1..(Len(l) - 1) : Tail(l)[k] = l[k + 1]
<1>1. Len(l) \in Nat \ {0} /\ Head(l) = l[1] BY DEF IsList
<1>2. Tail(l) \in Seq(Range(l)) /\ Len(Tail(l)) = Len(l) - 1 BY DEF IsList
<1>3. \A k \in 1..(Len(l) - 1) : Tail(l)[k] = l[k + 1] BY <1>1 DEF IsList
<1>. QED BY <1>1, <1>2, <1>3, ListOf

LEMMA EmptyIs == IsList(<<>>) /\ Len(<<>>) = 0
<1>1. <<>> \in Seq({}) OBVIOUS
<1>. QED BY <1>1, ListOf

-----------------------------------------------------------------------------
\* The replies to the query for services change what is announced, from the set before the
\* first to the set after the last: each adds what was not there, or removes what was.
Heard(before, r, after) ==
  IF r.query # Browse THEN after = before
  ELSE IF r.add THEN r.what \notin before /\ after = before \cup {r.what}
  ELSE r.what \in before /\ after = before \ {r.what}
Views(view, list) == \A k \in 1..Len(list) : Heard(view[k - 1], list[k], view[k])
Leads(from, list, to) == \E view : Views(view, list) /\ view[0] = from /\ view[Len(list)] = to

\* Only computes what is left of a list step by step.
LEMMA OnlyIs ==
  ASSUME NEW l, IsList(l), NEW wanted
  PROVE  \E left : /\ Only(l, wanted) = left[Len(l)] /\ left[0] = <<>>
                   /\ \A n \in 1..Len(l) :
                        left[n] = IF l[n] \in wanted THEN Append(left[n - 1], l[n]) ELSE left[n - 1]
<1>. DEFINE Step(g, n) == IF n = 0 THEN <<>>
                          ELSE IF l[n] \in wanted THEN Append(g[n - 1], l[n]) ELSE g[n - 1]
            S == {n \in Nat : \E g : g = [k \in 0..n |-> Step(g, k)]}
<1>1. 0 \in S
  <2>. DEFINE g == [k \in 0..0 |-> <<>>]
  <2>1. g = [k \in 0..0 |-> Step(g, k)] OBVIOUS
  <2>. QED BY <2>1
<1>2. ASSUME NEW n \in Nat, n \in S PROVE n + 1 \in S
  <2>1. PICK g : g = [k \in 0..n |-> Step(g, k)] BY <1>2
  <2>. DEFINE more == IF l[n + 1] \in wanted THEN Append(g[n], l[n + 1]) ELSE g[n]
              h == [k \in 0..(n + 1) |-> IF k <= n THEN g[k] ELSE more]
  <2>2. ASSUME NEW k \in 0..(n + 1) PROVE h[k] = Step(h, k)
    <3>1. CASE k = 0 BY <2>1, <3>1
    <3>2. CASE k # 0 /\ k <= n
      <4>. HIDE DEF Step
      <4>3. k \in 0..n /\ k - 1 \in 0..n BY <3>2
      <4>1. h[k] = g[k] /\ g[k] = Step(g, k) BY <2>1, <4>3
      <4>2. h[k - 1] = g[k - 1] BY <4>3
      <4>. USE DEF Step
      <4>. QED BY <3>2, <4>1, <4>2
    <3>3. CASE k = n + 1
      <4>1. h[k] = more BY <3>3
      <4>2. h[k - 1] = g[n] BY <3>3
      <4>. QED BY <3>3, <4>1, <4>2
    <3>. QED BY <3>1, <3>2, <3>3
  <2>3. h = [k \in 0..(n + 1) |-> Step(h, k)] BY <2>2
  <2>. HIDE DEF h, Step
  <2>4. \E f : f = [k \in 0..(n + 1) |-> Step(f, k)] BY <2>3
  <2>5. n + 1 \in Nat OBVIOUS
  <2>. QED BY <2>4, <2>5
<1>3. Nat \subseteq S
  <2>. HIDE DEF S
  <2>. QED BY <1>1, <1>2, Induction
<1>4. Len(l) \in S /\ Len(l) \in Nat BY <1>3, ListIs
<1>5. PICK g : g = [k \in 0..Len(l) |-> Step(g, k)] BY <1>4
<1>. DEFINE left == CHOOSE f : f = [n \in 0..Len(l) |-> Step(f, n)]
<1>6. left = [n \in 0..Len(l) |-> Step(left, n)] BY <1>5
<1>7. Only(l, wanted) = left[Len(l)] BY DEF Only
<1>. HIDE DEF left
<1>8. left[0] = <<>> BY <1>4, <1>6
<1>9. ASSUME NEW n \in 1..Len(l)
      PROVE  left[n] = IF l[n] \in wanted THEN Append(left[n - 1], l[n]) ELSE left[n - 1]
  <2>1. n \in 0..Len(l) /\ n # 0 BY <1>4
  <2>2. left[n] = Step(left, n)
    <3>. HIDE DEF Step
    <3>. QED BY <1>6, <2>1
  <2>. QED BY <2>1, <2>2
<1>. QED BY <1>7, <1>8, <1>9

LEMMA LeadsFurther ==
  ASSUME NEW m, IsList(m), NEW from, NEW mid, NEW to, NEW r, Leads(from, m, mid), Heard(mid, r, to)
  PROVE  Leads(from, Append(m, r), to)
<1>. DEFINE n == Len(m)
            more == Append(m, r)
<1>1. PICK view : Views(view, m) /\ view[0] = from /\ view[n] = mid BY DEF Leads
<1>2. n \in Nat BY ListIs
<1>3. Len(more) = n + 1 /\ (\A k \in 1..n : more[k] = m[k]) /\ more[n + 1] = r BY Appended
<1>. HIDE DEF n, more
<1>. DEFINE next == [k \in 0..(n + 1) |-> IF k <= n THEN view[k] ELSE to]
<1>4. (\A k \in 0..n : next[k] = view[k]) /\ next[n + 1] = to BY <1>2
<1>. HIDE DEF next
<1>5. ASSUME NEW k \in 1..Len(more) PROVE Heard(next[k - 1], more[k], next[k])
  <2>1. CASE k <= n
    <3>1. k \in 1..n /\ k \in 0..n /\ k - 1 \in 0..n BY <1>2, <1>3, <2>1
    <3>2. next[k - 1] = view[k - 1] /\ next[k] = view[k] /\ more[k] = m[k] BY <1>3, <1>4, <3>1
    <3>3. Heard(view[k - 1], m[k], view[k]) BY <1>1, <3>1 DEF Views, n
    <3>. QED BY <3>2, <3>3
  <2>2. CASE k = n + 1
    <3>1. k - 1 = n /\ n \in 0..n BY <1>2, <2>2
    <3>2. next[k - 1] = mid /\ next[k] = to /\ more[k] = r BY <1>1, <1>3, <1>4, <2>2, <3>1
    <3>. QED BY <3>2
  <2>. QED BY <1>2, <1>3, <2>1, <2>2
<1>6. Views(next, more) BY <1>5 DEF Views
<1>7. next[0] = from /\ next[Len(more)] = to BY <1>1, <1>2, <1>3, <1>4
<1>. QED BY <1>6, <1>7 DEF Leads, more

\* What is left of the first of a list.
LeftOf(m, l, n, wanted) ==
  /\ IsList(m)
  /\ \A k \in 1..Len(m) : m[k] \in wanted /\ \E a \in 1..n : l[a] = m[k]
  /\ \A j, k \in 1..Len(m) : j < k => \E a, b \in 1..n : a < b /\ l[a] = m[j] /\ l[b] = m[k]
  /\ \A a \in 1..n : l[a] \in wanted => \E k \in 1..Len(m) : m[k] = l[a]
  /\ (\A a \in 1..n : l[a].query = Browse => l[a] \in wanted) =>
       \A view : Views(view, l) => Leads(view[0], m, view[n])

LEMMA LeftStep ==
  ASSUME NEW l, IsList(l), NEW wanted, NEW n \in 1..Len(l), NEW m, LeftOf(m, l, n - 1, wanted),
         NEW more, more = IF l[n] \in wanted THEN Append(m, l[n]) ELSE m
  PROVE  LeftOf(more, l, n, wanted)
<1>1. Len(l) \in Nat /\ n \in Nat \ {0} /\ n - 1 \in Nat BY ListIs
<1>2. IsList(m) /\ Len(m) \in Nat BY ListIs DEF LeftOf
<1>3. \A a \in 1..n : a = n \/ a \in 1..(n - 1) BY <1>1
<1>4. \A a \in 1..(n - 1) : a \in 1..n /\ a < n BY <1>1
<1>5. ASSUME \A a \in 1..n : l[a].query = Browse => l[a] \in wanted, NEW view, Views(view, l)
      PROVE  Leads(view[0], m, view[n - 1]) /\ Heard(view[n - 1], l[n], view[n])
  <2>1. Leads(view[0], m, view[n - 1]) BY <1>4, <1>5 DEF LeftOf
  <2>. QED BY <1>5, <2>1 DEF Views
<1>6. CASE l[n] \notin wanted
  <2>1. more = m BY <1>6
  <2>2. ASSUME \A a \in 1..n : l[a].query = Browse => l[a] \in wanted, NEW view, Views(view, l)
        PROVE  Leads(view[0], m, view[n])
    <3>1. l[n].query # Browse BY <1>6, <2>2
    <3>. QED BY <1>5, <2>2, <3>1 DEF Heard
  <2>3. \A k \in 1..Len(m) : m[k] \in wanted /\ \E a \in 1..n : l[a] = m[k] BY <1>4 DEF LeftOf
  <2>4. \A j, k \in 1..Len(m) : j < k => \E a, b \in 1..n : a < b /\ l[a] = m[j] /\ l[b] = m[k] BY <1>4 DEF LeftOf
  <2>5. \A a \in 1..n : l[a] \in wanted => \E k \in 1..Len(m) : m[k] = l[a] BY <1>3, <1>6 DEF LeftOf
  <2>. QED BY <1>2, <2>1, <2>2, <2>3, <2>4, <2>5 DEF LeftOf
<1>7. CASE l[n] \in wanted
  <2>1. more = Append(m, l[n]) BY <1>7
  <2>2. /\ IsList(more) /\ Len(more) = Len(m) + 1 /\ (\A k \in 1..Len(m) : more[k] = m[k])
        /\ more[Len(m) + 1] = l[n]
    BY <1>2, <2>1, Appended
  <2>3. \A k \in 1..Len(more) : k = Len(m) + 1 \/ k \in 1..Len(m) BY <1>2, <2>2
  <2>4. n \in 1..n /\ Len(m) + 1 \in 1..Len(more) /\ \A k \in 1..Len(m) : k \in 1..Len(more) BY <1>1, <1>2, <2>2
  <2>5. ASSUME \A a \in 1..n : l[a].query = Browse => l[a] \in wanted, NEW view, Views(view, l)
        PROVE  Leads(view[0], more, view[n])
    BY <1>2, <1>5, <2>1, <2>5, LeadsFurther
  <2>6. ASSUME NEW k \in 1..Len(more) PROVE more[k] \in wanted /\ \E a \in 1..n : l[a] = more[k]
    <3>1. CASE k = Len(m) + 1 BY <1>7, <2>2, <2>4, <3>1
    <3>2. CASE k \in 1..Len(m)
      <4>1. m[k] \in wanted /\ \E a \in 1..(n - 1) : l[a] = m[k] BY <3>2 DEF LeftOf
      <4>. QED BY <1>4, <2>2, <3>2, <4>1
    <3>. QED BY <2>3, <3>1, <3>2
  <2>7. ASSUME NEW j \in 1..Len(more), NEW k \in 1..Len(more), j < k
        PROVE  \E a, b \in 1..n : a < b /\ l[a] = more[j] /\ l[b] = more[k]
    <3>1. j \in 1..Len(m) BY <1>2, <2>2, <2>7
    <3>2. CASE k = Len(m) + 1
      <4>1. PICK a \in 1..(n - 1) : l[a] = m[j] BY <3>1 DEF LeftOf
      <4>2. a \in 1..n /\ a < n /\ more[j] = m[j] /\ more[k] = l[n] BY <1>4, <2>2, <3>1, <3>2
      <4>. QED BY <2>4, <4>1, <4>2
    <3>3. CASE k \in 1..Len(m)
      <4>1. PICK a \in 1..(n - 1), b \in 1..(n - 1) : a < b /\ l[a] = m[j] /\ l[b] = m[k]
        BY <2>7, <3>1, <3>3 DEF LeftOf
      <4>. QED BY <1>4, <2>2, <3>1, <3>3, <4>1
    <3>. QED BY <2>3, <3>2, <3>3
  <2>8. ASSUME NEW a \in 1..n, l[a] \in wanted PROVE \E k \in 1..Len(more) : more[k] = l[a]
    <3>1. CASE a = n BY <2>2, <2>4, <3>1
    <3>2. CASE a \in 1..(n - 1)
      <4>1. PICK k \in 1..Len(m) : m[k] = l[a] BY <2>8, <3>2 DEF LeftOf
      <4>. QED BY <2>2, <2>4, <4>1
    <3>. QED BY <1>3, <3>1, <3>2
  <2>. QED BY <2>2, <2>5, <2>6, <2>7, <2>8 DEF LeftOf
<1>. QED BY <1>6, <1>7

LEMMA OnlyKeeps ==
  ASSUME NEW l, IsList(l), NEW wanted
  PROVE  LeftOf(Only(l, wanted), l, Len(l), wanted)
<1>1. PICK left : /\ Only(l, wanted) = left[Len(l)] /\ left[0] = <<>>
                  /\ \A n \in 1..Len(l) :
                       left[n] = IF l[n] \in wanted THEN Append(left[n - 1], l[n]) ELSE left[n - 1]
  BY OnlyIs
<1>2. Len(l) \in Nat BY ListIs
<1>. DEFINE S == {n \in Nat : n <= Len(l) => LeftOf(left[n], l, n, wanted)}
<1>3. LeftOf(<<>>, l, 0, wanted)
  <2>1. IsList(<<>>) /\ Len(<<>>) = 0 BY EmptyIs
  <2>2. ASSUME NEW view PROVE Leads(view[0], <<>>, view[0])
    <3>1. Views(view, <<>>) BY <2>1 DEF Views
    <3>. QED BY <2>1, <3>1 DEF Leads
  <2>. QED BY <2>1, <2>2 DEF LeftOf
<1>4. 0 \in S BY <1>1, <1>3
<1>5. ASSUME NEW n \in Nat, n \in S PROVE n + 1 \in S
  <2>1. SUFFICES ASSUME n + 1 <= Len(l) PROVE LeftOf(left[n + 1], l, n + 1, wanted)
    OBVIOUS
  <2>2. LeftOf(left[n], l, n, wanted) BY <1>2, <1>5, <2>1
  <2>3. n + 1 \in 1..Len(l) /\ (n + 1) - 1 = n BY <1>2, <2>1
  <2>4. left[n + 1] = IF l[n + 1] \in wanted THEN Append(left[n], l[n + 1]) ELSE left[n] BY <1>1, <2>3
  <2>. QED BY <2>2, <2>3, <2>4, LeftStep
<1>6. Nat \subseteq S
  <2>. HIDE DEF S
  <2>. QED BY <1>4, <1>5, Induction
<1>. QED BY <1>1, <1>2, <1>6

-----------------------------------------------------------------------------
\* What is left of the queue once its head is processed, and the queries that are not kept are gone.
Rests(m, kept) ==
  /\ IsList(m)
  /\ \A k \in 1..Len(m) : m[k].query \in kept /\ \E a \in 2..Len(replies) : replies[a] = m[k]
  /\ \A j, k \in 1..Len(m) : j < k =>
       \E a, b \in 2..Len(replies) : a < b /\ replies[a] = m[j] /\ replies[b] = m[k]
  /\ \A a \in 2..Len(replies) : replies[a].query \in kept => \E k \in 1..Len(m) : m[k] = replies[a]
  /\ Browse \in kept => \A view : Views(view, replies) => Leads(view[1], m, view[Len(replies)])

LEMMA TailRests ==
  ASSUME IsList(replies), replies # <<>>, NEW kept, \A k \in 1..Len(replies) : replies[k].query \in kept
  PROVE  Rests(Tail(replies), kept)
<1>. DEFINE t == Tail(replies)
            n == Len(replies)
<1>1. /\ n \in Nat \ {0} /\ IsList(t) /\ Len(t) = n - 1
      /\ \A k \in 1..(n - 1) : t[k] = replies[k + 1]
  BY Tails
<1>. HIDE DEF t, n
<1>2. \A k \in 1..(n - 1) : k + 1 \in 2..n /\ k + 1 \in 1..n BY <1>1
<1>3. \A a \in 2..n : a - 1 \in 1..(n - 1) /\ t[a - 1] = replies[a] BY <1>1
<1>4. \A k \in 1..(n - 1) : t[k].query \in kept /\ \E a \in 2..n : replies[a] = t[k]
  BY <1>1, <1>2 DEF n
<1>5. \A j, k \in 1..(n - 1) : j < k => \E a, b \in 2..n : a < b /\ replies[a] = t[j] /\ replies[b] = t[k]
  <2>1. SUFFICES ASSUME NEW j \in 1..(n - 1), NEW k \in 1..(n - 1), j < k
                 PROVE  \E a, b \in 2..n : a < b /\ replies[a] = t[j] /\ replies[b] = t[k]
    OBVIOUS
  <2>2. j + 1 < k + 1 BY <2>1
  <2>. QED BY <1>1, <1>2, <2>2
<1>6. \A a \in 2..n : \E k \in 1..(n - 1) : t[k] = replies[a] BY <1>3
<1>7. ASSUME NEW view, Views(view, replies) PROVE Leads(view[1], t, view[n])
  <2>. DEFINE next == [k \in 0..(n - 1) |-> view[k + 1]]
  <2>1. next[0] = view[1] /\ next[n - 1] = view[n] BY <1>1
  <2>2. ASSUME NEW k \in 1..(n - 1) PROVE Heard(next[k - 1], t[k], next[k])
    <3>1. k - 1 \in 0..(n - 1) /\ k \in 0..(n - 1) /\ (k - 1) + 1 = k BY <1>1
    <3>2. next[k - 1] = view[k] /\ next[k] = view[k + 1] BY <3>1
    <3>. HIDE DEF next
    <3>3. Heard(view[(k + 1) - 1], replies[k + 1], view[k + 1]) BY <1>2, <1>7 DEF Views, n
    <3>4. (k + 1) - 1 = k BY <3>1
    <3>. QED BY <1>1, <3>2, <3>3, <3>4
  <2>. HIDE DEF next
  <2>3. Views(next, t) BY <1>1, <2>2 DEF Views
  <2>. QED BY <1>1, <2>1, <2>3 DEF Leads
<1>. QED BY <1>1, <1>4, <1>5, <1>6, <1>7 DEF Rests, t, n

LEMMA UnansweredRests ==
  ASSUME IsList(replies), replies # <<>>, NEW kept
  PROVE  Rests(Unanswered(kept), kept)
<1>. DEFINE t == Tail(replies)
            n == Len(replies)
            all == {replies[k].query : k \in 1..Len(replies)}
            wanted == {r \in Range(replies) : r.query \in kept}
            m == Only(t, wanted)
<1>1. /\ n \in Nat \ {0} /\ IsList(t) /\ Len(t) = n - 1
      /\ \A k \in 1..(n - 1) : t[k] = replies[k + 1]
  BY Tails
<1>2. Rests(t, all) BY TailRests
<1>3. LeftOf(m, t, Len(t), wanted) BY <1>1, OnlyKeeps
<1>4. Unanswered(kept) = m BY DEF Unanswered
<1>5. \A a \in 1..n : replies[a] \in Range(replies) BY ListIs DEF Range
<1>6. \A k \in 1..(n - 1) : t[k] \in wanted <=> t[k].query \in kept
  <2>1. \A k \in 1..(n - 1) : k + 1 \in 1..n BY <1>1
  <2>. QED BY <1>1, <1>5, <2>1
<1>7. \A r : r \in wanted => r.query \in kept OBVIOUS
<1>. HIDE DEF t, n, all, wanted, m
<1>8. \A k \in 1..Len(m) : m[k].query \in kept /\ \E a \in 1..(n - 1) : t[a] = m[k]
  BY <1>1, <1>3, <1>7 DEF LeftOf
<1>9. \A k \in 1..Len(m) : \E a \in 2..n : replies[a] = m[k]
  BY <1>1, <1>2, <1>8 DEF Rests, n
<1>10. \A j, k \in 1..Len(m) : j < k => \E a, b \in 2..n : a < b /\ replies[a] = m[j] /\ replies[b] = m[k]
  <2>1. SUFFICES ASSUME NEW j \in 1..Len(m), NEW k \in 1..Len(m), j < k
                 PROVE  \E a, b \in 2..n : a < b /\ replies[a] = m[j] /\ replies[b] = m[k]
    OBVIOUS
  <2>2. PICK a \in 1..(n - 1), b \in 1..(n - 1) : a < b /\ t[a] = m[j] /\ t[b] = m[k]
    BY <1>1, <1>3, <2>1 DEF LeftOf
  <2>3. a + 1 \in 2..n /\ b + 1 \in 2..n /\ a + 1 < b + 1 BY <1>1, <2>2
  <2>. QED BY <1>1, <2>2, <2>3
<1>11. \A a \in 2..n : replies[a].query \in kept => \E k \in 1..Len(m) : m[k] = replies[a]
  <2>1. SUFFICES ASSUME NEW a \in 2..n, replies[a].query \in kept PROVE \E k \in 1..Len(m) : m[k] = replies[a]
    OBVIOUS
  <2>2. a - 1 \in 1..(n - 1) /\ t[a - 1] = replies[a] BY <1>1
  <2>3. t[a - 1] \in wanted BY <1>6, <2>1, <2>2
  <2>. QED BY <1>1, <1>3, <2>2, <2>3 DEF LeftOf
<1>12. ASSUME Browse \in kept, NEW view, Views(view, replies) PROVE Leads(view[1], m, view[n])
  <2>. DEFINE next == [k \in 0..(n - 1) |-> view[k + 1]]
  <2>1. next[0] = view[1] /\ next[n - 1] = view[n] BY <1>1
  <2>2. ASSUME NEW k \in 1..(n - 1) PROVE Heard(next[k - 1], t[k], next[k])
    <3>1. k - 1 \in 0..(n - 1) /\ k \in 0..(n - 1) /\ (k - 1) + 1 = k /\ k + 1 \in 1..n /\ (k + 1) - 1 = k
      BY <1>1
    <3>2. next[k - 1] = view[k] /\ next[k] = view[k + 1] BY <3>1
    <3>. HIDE DEF next
    <3>3. Heard(view[(k + 1) - 1], replies[k + 1], view[k + 1]) BY <1>12, <3>1 DEF Views, n
    <3>. QED BY <1>1, <3>1, <3>2, <3>3
  <2>. HIDE DEF next
  <2>3. Views(next, t) BY <1>1, <2>2 DEF Views
  <2>4. \A a \in 1..Len(t) : t[a].query = Browse => t[a] \in wanted BY <1>1, <1>6, <1>12
  <2>5. Leads(next[0], m, next[Len(t)]) BY <1>3, <2>3, <2>4 DEF LeftOf
  <2>. QED BY <1>1, <2>1, <2>5
<1>13. IsList(m) BY <1>3 DEF LeftOf
<1>. QED BY <1>4, <1>8, <1>9, <1>10, <1>11, <1>12, <1>13 DEF Rests, n

-----------------------------------------------------------------------------
Resolver(n, i) == Query("resolve", n, i)
Addresser(n, i) == Query("address", n, i)
Found(n, i) == n \in DOMAIN services /\ i \in DOMAIN services[n].interfaces

LEMMA QueriesDiffer ==
  ASSUME NEW n, NEW i
  PROVE  /\ Resolver(n, i).kind = "resolve" /\ Resolver(n, i).name = n /\ Resolver(n, i).interface = i
         /\ Addresser(n, i).kind = "address" /\ Addresser(n, i).name = n /\ Addresser(n, i).interface = i
         /\ Resolver(n, i) # Browse /\ Addresser(n, i) # Browse
         /\ \A m, j : Resolver(n, i) # Addresser(m, j)
         /\ \A m, j : Resolver(n, i) = Resolver(m, j) => m = n /\ j = i
         /\ \A m, j : Addresser(n, i) = Addresser(m, j) => m = n /\ j = i
         /\ Browse.kind = "browse" /\ Browse.name = "any"
BY DEF Resolver, Addresser, Browse, Query

\* What is advertised: one offer of a name.
AdvertiserInv ==
  /\ nextId \in Nat
  /\ \A id \in DOMAIN registered :
       /\ id \in Nat /\ id < nextId
       /\ DOMAIN registered[id] = {"name", "host", "txt"}
       /\ registered[id].name \in Names /\ registered[id].host \in Hosts
  /\ \A i, j \in DOMAIN registered : registered[i].name = registered[j].name => i = j

\* There is a query for services while browsing is enabled, and one that resolves each service on each
\* interface; those for addresses are for services on interfaces as well.
QueriesInv ==
  /\ enabled <=> Browse \in DOMAIN queries
  /\ ~enabled => replies = <<>> /\ DOMAIN services = {}
  /\ \A q \in DOMAIN queries :
       /\ DOMAIN queries[q] = {"told", "host"}
       /\ q # Browse => \E n, i : Found(n, i) /\ q \in {Resolver(n, i), Addresser(n, i)}
  /\ \A n, i : Found(n, i) => Resolver(n, i) \in DOMAIN queries

ServicesInv ==
  \A n \in DOMAIN services :
    /\ n \in Names /\ DOMAIN services[n] = {"host", "txt", "interfaces"}
    /\ DOMAIN services[n].interfaces # {}

\* Replies are to queries that are there.
RepliesInv ==
  /\ IsList(replies)
  /\ \A k \in 1..Len(replies) :
       /\ replies[k].query \in DOMAIN queries
       /\ replies[k].query = Browse => \E n \in Names : \E i : replies[k].what = <<n, i>>

\* The replies lead from what is found to what was told.
BrowseInv ==
  enabled =>
    /\ \E from : /\ \A n, i : <<n, i>> \in from <=> Found(n, i)
                 /\ Leads(from, replies, queries[Browse].told)
    /\ \A x \in queries[Browse].told : \E n \in Names : \E i : x = <<n, i>>

\* What is told of a service is its offer, or one that was withdrawn.
OfferOf(n, w) == w \in Offers(n) \cup stale /\ w.name = n /\ w.host \in Hosts
TracedInv ==
  /\ \A n, i : Found(n, i) => \A w \in queries[Resolver(n, i)].told : OfferOf(n, w)
  /\ \A k \in 1..Len(replies) : \A n, i : replies[k].query = Resolver(n, i) => OfferOf(n, replies[k].what)

\* Once an offer that was not withdrawn is told, it is told of its service ever after.
ForName(r, n) == r.query.kind = "resolve" /\ r.query.name = n
OrderInv ==
  \A n \in DOMAIN services : \A o \in Offers(n) \ stale : \A j, k \in 1..Len(replies) :
    j < k /\ ForName(replies[j], n) /\ ForName(replies[k], n) /\ replies[j].what = o => replies[k].what = o

\* Where it was told, it is on its way, or the last that the browser heard.
Heeds(n, o) ==
  /\ services[n].host = o.host /\ services[n].txt = o.txt
  /\ \A k \in 1..Len(replies) : ForName(replies[k], n) => replies[k].what = o
CurrentInv ==
  \A n, i : Found(n, i) =>
    \A o \in Offers(n) \ stale :
      o \in queries[Resolver(n, i)].told =>
        \/ \E k \in 1..Len(replies) : replies[k].query = Resolver(n, i) /\ replies[k].what = o
        \/ Heeds(n, o)

\* A service that was resolved on an interface has a query for its addresses there.
TimedOut(n) == Offer(n, NoHost) \in stale
ResolvedInv ==
  \A n, i : Found(n, i) /\ queries[Resolver(n, i)].told # {} =>
    \/ \E k \in 1..Len(replies) : replies[k].query = Resolver(n, i)
    \/ services[n].host # NoHost /\ (Addresser(n, i) \in DOMAIN queries \/ TimedOut(n))

\* Hosts are those of offers.
HostOf(n, h) == \E w \in Offers(n) \cup stale : w.name = n /\ w.host = h
HostsInv == \A n, i : Addresser(n, i) \in DOMAIN queries => HostOf(n, queries[Addresser(n, i)].host)

\* An address that was told is on its way or known.
AddressInv ==
  \A n, i : Addresser(n, i) \in DOMAIN queries =>
    /\ {} \notin queries[Addresser(n, i)].told
    /\ ~TimedOut(n) =>
         /\ \A k \in 1..Len(replies) : replies[k].query = Addresser(n, i) => replies[k].what # {}
         /\ \A w \in queries[Addresser(n, i)].told :
              \/ \E k \in 1..Len(replies) : replies[k].query = Addresser(n, i) /\ replies[k].what = w
              \/ w \subseteq services[n].interfaces[i]

SubscribersInv ==
  /\ DOMAIN known = Subscribers /\ IsList(subscribers) /\ Range(subscribers) \subseteq Subscribers
  /\ SubscribersKnowSessions

BrowserInv ==
  /\ QueriesInv /\ ServicesInv /\ RepliesInv /\ BrowseInv /\ TracedInv /\ OrderInv /\ CurrentInv /\ ResolvedInv
  /\ HostsInv /\ AddressInv
DnsInv == AdvertiserInv /\ BrowserInv /\ SubscribersInv

LEMMA DnsStarts == DnsInit => DnsInv
<1>. SUFFICES ASSUME DnsInit PROVE DnsInv OBVIOUS
<1>1. IsList(<<>>) /\ Len(<<>>) = 0 /\ DOMAIN <<>> = {} BY EmptyIs
<1>2. DOMAIN registered = {} /\ DOMAIN queries = {} /\ DOMAIN services = {} BY <1>1 DEF DnsInit
<1>3. AdvertiserInv BY <1>2 DEF AdvertiserInv, DnsInit
<1>4. \A n, i : ~Found(n, i) BY <1>2 DEF Found
<1>5. BrowserInv
  BY <1>1, <1>2, <1>4 DEF DnsInit, BrowserInv, QueriesInv, ServicesInv, RepliesInv, BrowseInv, TracedInv, OrderInv,
                          CurrentInv, ResolvedInv, HostsInv, AddressInv
<1>6. SubscribersInv
  <2>1. Range(subscribers) = {} BY <1>1 DEF Range, DnsInit
  <2>. QED BY <1>1, <2>1 DEF DnsInit, SubscribersInv, SubscribersKnowSessions
<1>. QED BY <1>3, <1>5, <1>6 DEF DnsInv

-----------------------------------------------------------------------------
\* When nothing is on its way, the invariant says what is wanted.
LEMMA OfferedIs ==
  ASSUME AdvertiserInv, NEW n
  PROVE  /\ n \in Offered <=> Offers(n) # {}
         /\ \A o, p \in Offers(n) : o = p
         /\ \A o \in Offers(n) : o.name = n /\ o.host \in Hosts /\ o.name \in Names
BY DEF Offered, Offers, AdvertiserInv, Range

LEMMA DnsInvSuffices == DnsInv => DiscoveryIsCurrent
<1>. SUFFICES ASSUME DnsInv, Quiet PROVE BrowserSeesAdvertised
  BY DEF DiscoveryIsCurrent, DnsInv, SubscribersInv, BrowserSeesAdvertised
<1>. USE DEF DnsInv, BrowserInv
<1>1. replies = <<>> /\ Len(replies) = 0 /\ enabled BY EmptyIs DEF Quiet
<1>2. Browse \in DOMAIN queries /\ Truth(Browse) = Offered \X up
  BY <1>1, QueriesDiffer DEF QueriesInv, Truth
<1>3. queries[Browse].told = Offered \X up BY <1>2, QueriesDiffer DEF Quiet
<1>4. \A n, i : n \in Offered /\ i \in up <=> Found(n, i)
  <2>1. PICK from : (\A n, i : <<n, i>> \in from <=> Found(n, i)) /\ Leads(from, replies, queries[Browse].told)
    BY <1>1 DEF BrowseInv
  <2>2. from = Offered \X up BY <1>1, <1>3, <2>1 DEF Leads
  <2>. QED BY <2>1, <2>2
<1>5. DOMAIN services = IF up = {} THEN {} ELSE Offered
  <2>1. ASSUME NEW n \in DOMAIN services PROVE n \in Offered /\ up # {}
    BY <1>4 DEF ServicesInv, Found
  <2>2. ASSUME NEW n \in Offered, up # {} PROVE n \in DOMAIN services
    BY <1>4, <2>2 DEF Found
  <2>. QED BY <2>1, <2>2
<1>6. ASSUME NEW n \in DOMAIN services
      PROVE  /\ \A o \in Offers(n) \ stale : services[n].host = o.host /\ services[n].txt = o.txt
             /\ DOMAIN services[n].interfaces = up
             /\ (\A o \in stale : o.name = n => o.host = services[n].host) =>
                  \A i \in up : address[services[n].host] \in services[n].interfaces[i]
  <2>1. DOMAIN services[n].interfaces = up /\ n \in Offered /\ up # {}
    <3>1. n \in Offered /\ up # {} BY <1>5
    <3>2. \A i : i \in DOMAIN services[n].interfaces <=> i \in up BY <1>4, <1>6, <3>1 DEF Found
    <3>. QED BY <3>1, <3>2
  <2>2. PICK o : o \in Offers(n) BY <2>1, OfferedIs
  <2>3. Offers(n) = {o} /\ o.name = n /\ o.host \in Hosts BY <2>2, OfferedIs
  <2>4. ASSUME NEW i \in up
        PROVE  Found(n, i) /\ Resolver(n, i) \in DOMAIN queries /\ queries[Resolver(n, i)].told = {o}
    <3>1. Found(n, i) /\ Resolver(n, i) \in DOMAIN queries BY <1>4, <2>1 DEF QueriesInv
    <3>2. Truth(Resolver(n, i)) = {o} BY <2>3, QueriesDiffer DEF Truth
    <3>. QED BY <3>1, <3>2 DEF Quiet
  <2>5. o \notin stale => services[n].host = o.host /\ services[n].txt = o.txt
    BY <1>1, <2>1, <2>2, <2>4 DEF CurrentInv, Heeds
  <2>6. ASSUME \A p \in stale : p.name = n => p.host = services[n].host, NEW i \in up
        PROVE  address[services[n].host] \in services[n].interfaces[i]
    <3>. DEFINE q == Addresser(n, i)
    <3>1. services[n].host # NoHost /\ (q \in DOMAIN queries \/ TimedOut(n))
      BY <1>1, <2>4 DEF ResolvedInv
    <3>2. ~TimedOut(n)
      <4>1. Offer(n, NoHost).name = n /\ Offer(n, NoHost).host = NoHost BY DEF Offer
      <4>. QED BY <2>6, <3>1, <4>1 DEF TimedOut
    <3>3. q \in DOMAIN queries BY <3>1, <3>2
    <3>4. PICK w \in Offers(n) \cup stale : w.name = n /\ w.host = queries[q].host BY <3>3 DEF HostsInv, HostOf
    <3>5. queries[q].host = services[n].host
      <4>1. CASE w \in stale BY <2>6, <3>4, <4>1
      <4>2. CASE w = o /\ o \notin stale BY <2>5, <3>4, <4>2
      <4>. QED BY <2>3, <3>4, <4>1, <4>2
    <3>6. Truth(q) = {{address[queries[q].host]}} /\ q.kind = "address" BY QueriesDiffer DEF Truth
    <3>7. queries[q].told = {{address[services[n].host]}} BY <3>3, <3>5, <3>6 DEF Quiet
    <3>8. \A v \in queries[q].told : v \subseteq services[n].interfaces[i]
      BY <1>1, <3>2, <3>3 DEF AddressInv
    <3>. QED BY <3>7, <3>8
  <2>. QED BY <2>1, <2>3, <2>5, <2>6
<1>. QED BY <1>5, <1>6 DEF BrowserSeesAdvertised

-----------------------------------------------------------------------------
\* What changes on the network leaves the browser alone, and puts what is withdrawn among the stale offers.
LEMMA NetworkStep ==
  ASSUME BrowserInv, UNCHANGED <<queries, replies, services, enabled>>,
         stale \subseteq stale', \A n \in DOMAIN services : Offers(n) \subseteq Offers(n)' \cup stale'
  PROVE  BrowserInv'
<1>. USE DEF BrowserInv
<1>1. queries' = queries /\ replies' = replies /\ services' = services /\ enabled' = enabled OBVIOUS
<1>2. \A n, i : Found(n, i)' <=> Found(n, i) BY <1>1 DEF Found
<1>3. \A n, i : Resolver(n, i)' = Resolver(n, i) /\ Addresser(n, i)' = Addresser(n, i) /\ Browse' = Browse
  BY DEF Resolver, Addresser, Browse, Query
<1>4. \A n \in DOMAIN services : Offers(n) \cup stale \subseteq Offers(n)' \cup stale' OBVIOUS
<1>5. QueriesInv' /\ ServicesInv' /\ RepliesInv'
  BY <1>1, <1>2, <1>3 DEF QueriesInv, ServicesInv, RepliesInv
<1>6. BrowseInv'
  <2>1. (\A x \in queries[Browse].told : \E n \in Names : \E i : x = <<n, i>>)' <=>
          \A x \in queries[Browse].told : \E n \in Names : \E i : x = <<n, i>>
    BY <1>1
  <2>2. ASSUME NEW from PROVE Leads(from, replies', queries'[Browse].told) <=> Leads(from, replies, queries[Browse].told)
    BY <1>1
  <2>. QED BY <1>1, <1>2, <2>1, <2>2 DEF BrowseInv
<1>7. \A n \in DOMAIN services : \A w : OfferOf(n, w) => OfferOf(n, w)' BY <1>4 DEF OfferOf
<1>8. ASSUME NEW k \in 1..Len(replies), NEW n, NEW i, replies[k].query = Resolver(n, i)
      PROVE  Found(n, i)
  BY <1>8, QueriesDiffer DEF RepliesInv, QueriesInv
<1>9. TracedInv'
  <2>1. ASSUME NEW n, NEW i, Found(n, i), NEW w \in queries[Resolver(n, i)].told PROVE OfferOf(n, w)'
    BY <1>7, <2>1 DEF TracedInv, Found
  <2>2. ASSUME NEW k \in 1..Len(replies), NEW n, NEW i, replies[k].query = Resolver(n, i)
        PROVE  OfferOf(n, replies[k].what)'
    BY <1>7, <1>8, <2>2 DEF TracedInv, Found
  <2>. QED BY <1>1, <1>2, <1>3, <2>1, <2>2 DEF TracedInv
<1>10. ASSUME NEW n \in DOMAIN services, NEW o \in Offers(n)' \ stale'
       PROVE  \/ o \in Offers(n) \ stale
              \/ \A w : OfferOf(n, w) => w # o
  BY <1>10 DEF OfferOf
<1>11. ASSUME NEW k \in 1..Len(replies), NEW n, ForName(replies[k], n)
       PROVE  \E i : replies[k].query = Resolver(n, i)
  <2>1. replies[k].query \in DOMAIN queries /\ replies[k].query # Browse BY <1>11, QueriesDiffer DEF RepliesInv, ForName
  <2>2. PICK m, i : replies[k].query \in {Resolver(m, i), Addresser(m, i)} BY <2>1 DEF QueriesInv
  <2>. QED BY <1>11, <2>2, QueriesDiffer DEF ForName
<1>12. OrderInv'
  <2>1. SUFFICES ASSUME NEW n \in DOMAIN services, NEW o \in Offers(n)' \ stale', NEW j \in 1..Len(replies),
                        NEW k \in 1..Len(replies), j < k, ForName(replies[j], n), ForName(replies[k], n),
                        replies[j].what = o
                 PROVE  replies[k].what = o
    BY <1>1 DEF OrderInv, ForName
  <2>2. OfferOf(n, replies[j].what) BY <1>11, <2>1 DEF TracedInv
  <2>3. o \in Offers(n) \ stale BY <1>10, <2>1, <2>2
  <2>. QED BY <2>1, <2>3 DEF OrderInv
<1>13. CurrentInv'
  <2>1. SUFFICES ASSUME NEW n, NEW i, Found(n, i), NEW o \in Offers(n)' \ stale',
                        o \in queries[Resolver(n, i)].told
                 PROVE  \/ \E k \in 1..Len(replies) : replies[k].query = Resolver(n, i) /\ replies[k].what = o
                        \/ Heeds(n, o)
    BY <1>1, <1>2, <1>3 DEF CurrentInv, Heeds, ForName
  <2>2. OfferOf(n, o) BY <2>1 DEF TracedInv
  <2>3. o \in Offers(n) \ stale BY <1>10, <2>1, <2>2 DEF Found
  <2>. QED BY <2>1, <2>3 DEF CurrentInv
<1>14. \A n : TimedOut(n) => TimedOut(n)' BY DEF TimedOut, Offer
<1>15. ResolvedInv' BY <1>1, <1>2, <1>3, <1>14 DEF ResolvedInv
<1>16. ASSUME NEW n, NEW i, Addresser(n, i) \in DOMAIN queries PROVE n \in DOMAIN services
  BY <1>16, QueriesDiffer DEF QueriesInv, Found
<1>17. HostsInv'
  <2>1. \A n \in DOMAIN services : \A h : HostOf(n, h) => HostOf(n, h)' BY <1>4 DEF HostOf
  <2>. QED BY <1>1, <1>3, <1>16, <2>1 DEF HostsInv
<1>18. AddressInv' BY <1>1, <1>3, <1>14 DEF AddressInv
<1>. QED BY <1>5, <1>6, <1>9, <1>12, <1>13, <1>15, <1>17, <1>18

LEMMA SubscribersStep ==
  ASSUME SubscribersInv, UNCHANGED <<subscribers, known, services>>
  PROVE  SubscribersInv'
BY DEF SubscribersInv, SubscribersKnowSessions, Resolved, Description

LEMMA RegisterStep ==
  ASSUME DnsInv, NEW name \in Names, NEW host \in Hosts, Register(name, host)
  PROVE  DnsInv'
<1>. DEFINE o == Offer(name, host)
<1>1. /\ DOMAIN registered' = DOMAIN registered \cup {nextId} /\ registered'[nextId] = o
      /\ \A id \in DOMAIN registered : id # nextId => registered'[id] = registered[id]
  BY DEF Register, Put
<1>2. nextId \in Nat /\ nextId' = nextId + 1 /\ nextId \notin DOMAIN registered
  BY DEF Register, DnsInv, AdvertiserInv
<1>3. DOMAIN o = {"name", "host", "txt"} /\ o.name = name /\ o.host = host BY DEF Offer
<1>4. \A id \in DOMAIN registered : registered[id].name # name BY DEF Register, Offered, Range
<1>. HIDE DEF o
<1>5. AdvertiserInv' BY <1>1, <1>2, <1>3, <1>4 DEF DnsInv, AdvertiserInv
<1>6. \A n : Offers(n) \subseteq Offers(n)' BY <1>1, <1>2 DEF Offers
<1>7. UNCHANGED <<queries, replies, services, enabled, subscribers, known, stale>> BY DEF Register, Change, browser, told
<1>8. BrowserInv' BY <1>6, <1>7, NetworkStep DEF DnsInv
<1>9. SubscribersInv' BY <1>7, SubscribersStep DEF DnsInv
<1>. QED BY <1>5, <1>8, <1>9 DEF DnsInv

LEMMA WithdrawnStep ==
  ASSUME DnsInv, NEW id \in DOMAIN registered, stale' = Withdrawn(registered[id]),
         UNCHANGED <<queries, replies, services, enabled, subscribers, known>>,
         \A i \in DOMAIN registered \ {id} : i \in DOMAIN registered' /\ registered'[i] = registered[i]
  PROVE  BrowserInv' /\ SubscribersInv'
<1>1. stale \subseteq stale' BY DEF Withdrawn
<1>2. ASSUME NEW n \in DOMAIN services, NEW o \in Offers(n) PROVE o \in Offers(n)' \cup stale'
  <2>1. PICK i \in DOMAIN registered : o = registered[i] /\ registered[i].name = n BY <1>2 DEF Offers
  <2>2. CASE i = id BY <1>2, <2>1, <2>2 DEF Withdrawn
  <2>3. CASE i # id BY <2>1, <2>3 DEF Offers
  <2>. QED BY <2>2, <2>3
<1>. QED BY <1>1, <1>2, NetworkStep, SubscribersStep DEF DnsInv

LEMMA UnregisterStep ==
  ASSUME DnsInv, NEW id \in DOMAIN registered, Unregister(id)
  PROVE  DnsInv'
<1>1. /\ DOMAIN registered' = DOMAIN registered \ {id} /\ nextId' = nextId
      /\ \A i \in DOMAIN registered \ {id} : registered'[i] = registered[i]
  BY DEF Unregister
<1>2. AdvertiserInv' BY <1>1 DEF DnsInv, AdvertiserInv
<1>. QED BY <1>1, <1>2, WithdrawnStep DEF DnsInv, Unregister, Change, browser, told

LEMMA UpdateTxtRecordStep ==
  ASSUME DnsInv, NEW id \in DOMAIN registered, UpdateTxtRecord(id)
  PROVE  DnsInv'
<1>1. /\ DOMAIN registered' = DOMAIN registered /\ nextId' = nextId
      /\ \A i \in DOMAIN registered \ {id} : registered'[i] = registered[i]
      /\ DOMAIN registered'[id] = DOMAIN registered[id]
      /\ registered'[id].name = registered[id].name /\ registered'[id].host = registered[id].host
  BY DEF UpdateTxtRecord, DnsInv, AdvertiserInv
<1>2. AdvertiserInv' BY <1>1 DEF DnsInv, AdvertiserInv
<1>. QED BY <1>1, <1>2, WithdrawnStep DEF DnsInv, UpdateTxtRecord, Change, browser, told

\* Nothing that is advertised changes.
LEMMA QuietStep ==
  ASSUME DnsInv, UNCHANGED <<registered, nextId, queries, replies, services, enabled, stale>>
  PROVE  AdvertiserInv' /\ BrowserInv'
<1>1. AdvertiserInv' BY DEF DnsInv, AdvertiserInv
<1>2. \A n : Offers(n)' = Offers(n) BY DEF Offers
<1>. QED BY <1>1, <1>2, NetworkStep DEF DnsInv

LEMMA InterfaceChangeStep ==
  ASSUME DnsInv, NEW interface, InterfaceChange(interface)
  PROVE  DnsInv'
BY QuietStep, SubscribersStep DEF DnsInv, InterfaceChange, Change, browser, told

LEMMA AddressChangeStep ==
  ASSUME DnsInv, NEW host, AddressChange(host)
  PROVE  DnsInv'
BY QuietStep, SubscribersStep DEF DnsInv, AddressChange, Change, browser, told

LEMMA ProcessFailsStep ==
  ASSUME DnsInv, ProcessFails
  PROVE  DnsInv'
BY QuietStep, SubscribersStep DEF DnsInv, ProcessFails, told

LEMMA SubscribeStep ==
  ASSUME DnsInv, NEW s \in Subscribers, Subscribe(s)
  PROVE  DnsInv'
<1>1. AdvertiserInv' /\ BrowserInv' BY QuietStep DEF Subscribe, network, browser
<1>2. subscribers' = Append(subscribers, s) /\ s \notin Range(subscribers) /\ services' = services
  BY DEF Subscribe, AddSubscriber, browser
<1>3. IsList(subscribers') /\ Range(subscribers') = Range(subscribers) \cup {s}
  <2>1. IsList(subscribers) BY DEF DnsInv, SubscribersInv
  <2>2. /\ IsList(subscribers') /\ Len(subscribers') = Len(subscribers) + 1
        /\ (\A k \in 1..Len(subscribers) : subscribers'[k] = subscribers[k])
        /\ subscribers'[Len(subscribers) + 1] = s
    BY <1>2, <2>1, Appended
  <2>3. Len(subscribers) \in Nat /\ DOMAIN subscribers = 1..Len(subscribers) /\ DOMAIN subscribers' = 1..Len(subscribers')
    BY <2>1, <2>2, ListIs
  <2>. QED BY <2>2, <2>3 DEF Range
<1>4. /\ DOMAIN known' = DOMAIN known /\ known'[s] = [name \in Resolved |-> Description(services[name])]
      /\ \A t \in Subscribers : t # s => known'[t] = known[t]
  BY DEF Subscribe, DnsInv, SubscribersInv
<1>5. SubscribersInv'
  BY <1>2, <1>3, <1>4 DEF DnsInv, SubscribersInv, SubscribersKnowSessions, Resolved, Description
<1>. QED BY <1>1, <1>5 DEF DnsInv

LEMMA UnsubscribeStep ==
  ASSUME DnsInv, NEW s \in Subscribers, Unsubscribe(s)
  PROVE  DnsInv'
<1>1. AdvertiserInv' /\ BrowserInv' BY QuietStep DEF Unsubscribe, Change, browser
<1>. DEFINE wanted == Range(subscribers) \ {s}
<1>2. subscribers' = Only(subscribers, wanted) /\ services' = services
  BY DEF Unsubscribe, RemoveSubscriber, Change, browser
<1>3. IsList(subscribers') /\ Range(subscribers') \subseteq wanted
  <2>1. LeftOf(subscribers', subscribers, Len(subscribers), wanted)
    BY <1>2, OnlyKeeps DEF DnsInv, SubscribersInv
  <2>2. IsList(subscribers') /\ \A k \in 1..Len(subscribers') : subscribers'[k] \in wanted BY <2>1 DEF LeftOf
  <2>. HIDE DEF wanted
  <2>. QED BY <2>2, ListIs DEF Range
<1>4. DOMAIN known' = DOMAIN known /\ \A t \in Subscribers : t # s => known'[t] = known[t]
  BY DEF Unsubscribe, DnsInv, SubscribersInv
<1>5. SubscribersInv'
  BY <1>2, <1>3, <1>4 DEF DnsInv, SubscribersInv, SubscribersKnowSessions, Resolved, Description
<1>. QED BY <1>1, <1>5 DEF DnsInv

LEMMA SetSessionBrowsingStep ==
  ASSUME DnsInv, SetSessionBrowsingEnabled
  PROVE  DnsInv'
<1>1. AdvertiserInv' BY DEF SetSessionBrowsingEnabled, DnsInv, AdvertiserInv
<1>2. DOMAIN <<>> = {} /\ IsList(<<>>) /\ Len(<<>>) = 0 BY EmptyIs
<1>3. replies' = <<>> /\ services' = <<>> /\ enabled' = ~enabled BY DEF SetSessionBrowsingEnabled
<1>4. /\ enabled' => DOMAIN queries' = {Browse} /\ queries'[Browse] = [told |-> {}, host |-> NoHost]
      /\ ~enabled' => DOMAIN queries' = {}
  BY <1>2 DEF SetSessionBrowsingEnabled, Put
<1>5. \A n, i : ~Found(n, i)' BY <1>2, <1>3 DEF Found
<1>6. QueriesInv' /\ ServicesInv' /\ RepliesInv'
  BY <1>2, <1>3, <1>4, <1>5 DEF QueriesInv, ServicesInv, RepliesInv
<1>7. BrowseInv'
  <2>1. SUFFICES ASSUME enabled' PROVE Leads({}, replies', queries'[Browse].told) /\ queries'[Browse].told = {}
    BY <1>5 DEF BrowseInv, Leads, Views, Heard, Browse, Query
  <2>2. queries'[Browse].told = {} BY <1>4, <2>1
  <2>. DEFINE view == [k \in 0..0 |-> {}]
  <2>3. Views(view, replies') /\ view[0] = {} BY <1>2, <1>3 DEF Views
  <2>. QED BY <1>2, <1>3, <2>2, <2>3 DEF Leads
<1>8. TracedInv' /\ OrderInv' /\ CurrentInv' /\ ResolvedInv'
  BY <1>2, <1>3, <1>5 DEF TracedInv, OrderInv, CurrentInv, ResolvedInv
<1>9. HostsInv' /\ AddressInv'
  BY <1>4, QueriesDiffer DEF HostsInv, AddressInv, Addresser, Query, Browse
<1>10. SubscribersInv'
  <2>1. subscribers' = subscribers BY DEF SetSessionBrowsingEnabled
  <2>2. Resolved' = {} BY <1>2, <1>3 DEF Resolved
  <2>3. ASSUME NEW s \in Range(subscribers)
        PROVE  known'[s] = [name \in {} |-> Description(services'[name])] /\ DOMAIN known' = Subscribers
    <3>1. s \in Subscribers /\ DOMAIN known = Subscribers /\ known[s] = [name \in Resolved |-> Description(services[name])]
      BY <2>3 DEF DnsInv, SubscribersInv, SubscribersKnowSessions
    <3>2. CASE enabled
      <4>1. known' = Forgotten(Resolved) BY <3>2 DEF SetSessionBrowsingEnabled
      <4>2. DOMAIN known[s] \ Resolved = {} BY <3>1
      <4>3. known'[s] = Restrict(known[s], {}) BY <2>3, <3>1, <4>1, <4>2 DEF Forgotten
      <4>. QED BY <4>1, <4>3 DEF Restrict, Forgotten
    <3>3. CASE ~enabled
      <4>1. known' = known BY <3>3 DEF SetSessionBrowsingEnabled
      <4>2. Resolved = {} BY <3>3 DEF Resolved, DnsInv, BrowserInv, QueriesInv
      <4>. QED BY <3>1, <4>1, <4>2
    <3>. QED BY <3>2, <3>3
  <2>4. DOMAIN known' = Subscribers
    BY DEF SetSessionBrowsingEnabled, Forgotten, DnsInv, SubscribersInv
  <2>. QED BY <2>1, <2>2, <2>3, <2>4 DEF DnsInv, SubscribersInv, SubscribersKnowSessions, Description
<1>. QED BY <1>1, <1>6, <1>7, <1>8, <1>9, <1>10 DEF DnsInv, BrowserInv

-----------------------------------------------------------------------------
\* The daemon replies: to the query for services what changes in what it told; to one that resolves a service,
\* its offer; and to one for addresses what it tells, unless that times out.
LEMMA Enqueued ==
  ASSUME DnsInv, NEW q \in DOMAIN queries, NEW r, r.query = q, NEW t, replies' = Append(replies, r),
         queries' = [queries EXCEPT ![q].told = t], UNCHANGED <<registered, services, enabled>>,
         stale \subseteq stale',
         q = Browse => Heard(queries[q].told, r, t) /\ \E n \in Names : \E i : r.what = <<n, i>>,
         \A n, i : q = Resolver(n, i) => t = {r.what} /\ r.what \in Offers(n),
         \A n, i : q = Addresser(n, i) =>
           /\ {} \notin t
           /\ ~TimedOut(n)' => r.what # {} /\ \A w \in t : w \in queries[q].told \/ w = r.what
  PROVE  BrowserInv'
<1>. USE DEF DnsInv, BrowserInv
<1>1. services' = services /\ enabled' = enabled /\ \A n : Offers(n)' = Offers(n) BY DEF Offers
<1>2. \A n, i : Found(n, i)' <=> Found(n, i) BY <1>1 DEF Found
<1>3. \A n, i : Resolver(n, i)' = Resolver(n, i) /\ Addresser(n, i)' = Addresser(n, i) /\ Browse' = Browse
  BY DEF Resolver, Addresser, Browse, Query
<1>4. /\ DOMAIN queries' = DOMAIN queries
      /\ \A p \in DOMAIN queries : /\ DOMAIN queries'[p] = DOMAIN queries[p] /\ queries'[p].host = queries[p].host
                                   /\ p # q => queries'[p] = queries[p]
      /\ queries'[q].told = t
  BY DEF QueriesInv
<1>5. /\ IsList(replies) /\ Len(replies) \in Nat
      /\ IsList(replies') /\ Len(replies') = Len(replies) + 1
      /\ \A k \in 1..Len(replies) : replies'[k] = replies[k]
      /\ replies'[Len(replies) + 1] = r
  BY Appended, ListIs DEF RepliesInv
<1>6. /\ \A k \in 1..Len(replies') : k = Len(replies) + 1 \/ k \in 1..Len(replies)
      /\ \A k \in 1..Len(replies) : k \in 1..Len(replies')
      /\ Len(replies) + 1 \in 1..Len(replies')
  BY <1>5
<1>7. \A n : \A w : OfferOf(n, w) => OfferOf(n, w)' BY <1>1 DEF OfferOf
<1>8. \A n : TimedOut(n) => TimedOut(n)' BY DEF TimedOut, Offer
<1>9. enabled /\ QueriesInv'
  <2>1. enabled
    <3>1. CASE q = Browse BY <3>1 DEF QueriesInv
    <3>2. CASE q # Browse BY <3>2 DEF QueriesInv, Found
    <3>. QED BY <3>1, <3>2
  <2>2. \A n, i : Found(n, i) => Resolver(n, i) \in DOMAIN queries' BY <1>4 DEF QueriesInv
  <2>3. \A p \in DOMAIN queries' :
          /\ DOMAIN queries'[p] = {"told", "host"}
          /\ p # Browse => \E n, i : Found(n, i) /\ p \in {Resolver(n, i), Addresser(n, i)}
    BY <1>4 DEF QueriesInv
  <2>4. Browse \in DOMAIN queries' BY <1>4, <2>1 DEF QueriesInv
  <2>. QED BY <1>1, <1>2, <1>3, <2>1, <2>2, <2>3, <2>4 DEF QueriesInv
<1>10. ServicesInv' BY <1>1 DEF ServicesInv
<1>11. RepliesInv'
  <2>1. ASSUME NEW k \in 1..Len(replies')
        PROVE  /\ replies'[k].query \in DOMAIN queries'
               /\ replies'[k].query = Browse => \E n \in Names : \E i : replies'[k].what = <<n, i>>
    <3>1. CASE k = Len(replies) + 1 BY <1>4, <1>5, <3>1
    <3>2. CASE k \in 1..Len(replies) BY <1>4, <1>5, <3>2 DEF RepliesInv
    <3>. QED BY <1>6, <3>1, <3>2
  <2>. QED BY <1>3, <1>5, <2>1 DEF RepliesInv
<1>12. BrowseInv'
  <2>1. PICK from : /\ \A n, i : <<n, i>> \in from <=> Found(n, i)
                    /\ Leads(from, replies, queries[Browse].told)
    BY <1>9 DEF BrowseInv
  <2>2. Heard(queries[Browse].told, r, queries'[Browse].told)
    <3>1. CASE q = Browse BY <1>4, <3>1
    <3>2. CASE q # Browse
      <4>1. Browse \in DOMAIN queries BY <1>9 DEF QueriesInv
      <4>. QED BY <1>4, <3>2, <4>1 DEF Heard
    <3>. QED BY <3>1, <3>2
  <2>3. Leads(from, replies', queries'[Browse].told) BY <1>5, <2>1, <2>2, LeadsFurther
  <2>4. \A x \in queries'[Browse].told : \E n \in Names : \E i : x = <<n, i>>
    BY <1>9, <2>2 DEF BrowseInv, Heard
  <2>. QED BY <1>1, <1>2, <1>3, <2>1, <2>3, <2>4 DEF BrowseInv
<1>13. TracedInv'
  <2>1. ASSUME NEW n, NEW i, q = Resolver(n, i) PROVE OfferOf(n, r.what)'
    BY <1>1, <2>1, OfferedIs DEF OfferOf
  <2>2. ASSUME NEW n, NEW i, Found(n, i), NEW w \in queries'[Resolver(n, i)].told PROVE OfferOf(n, w)'
    <3>1. CASE q = Resolver(n, i) BY <1>4, <2>1, <2>2, <3>1
    <3>2. CASE q # Resolver(n, i)
      <4>1. Resolver(n, i) \in DOMAIN queries BY <2>2 DEF QueriesInv
      <4>2. OfferOf(n, w) BY <1>4, <2>2, <3>2, <4>1 DEF TracedInv
      <4>. QED BY <1>7, <4>2
    <3>. QED BY <3>1, <3>2
  <2>3. ASSUME NEW k \in 1..Len(replies'), NEW n, NEW i, replies'[k].query = Resolver(n, i)
        PROVE  OfferOf(n, replies[k].what)'
    <3>1. CASE k = Len(replies) + 1
      <4>1. replies'[k] = r BY <1>5, <3>1
      <4>. QED BY <2>1, <2>3, <4>1 DEF OfferOf
    <3>2. CASE k \in 1..Len(replies)
      <4>1. OfferOf(n, replies[k].what) BY <1>5, <2>3, <3>2 DEF TracedInv
      <4>2. replies'[k] = replies[k] BY <1>5, <3>2
      <4>. QED BY <1>7, <4>1, <4>2 DEF OfferOf
    <3>. QED BY <1>6, <3>1, <3>2
  <2>. QED BY <1>2, <1>3, <2>2, <2>3 DEF TracedInv
<1>14. ASSUME NEW n, ForName(r, n), NEW o \in Offers(n) PROVE r.what = o
  <2>1. q # Browse BY <1>14, QueriesDiffer DEF ForName
  <2>2. PICK m, i : q \in {Resolver(m, i), Addresser(m, i)} BY <2>1 DEF QueriesInv
  <2>3. q = Resolver(n, i) BY <1>14, <2>2, QueriesDiffer DEF ForName
  <2>. QED BY <1>14, <2>3, OfferedIs
<1>15. OrderInv'
  <2>1. SUFFICES ASSUME NEW n \in DOMAIN services, NEW o \in Offers(n) \ stale', NEW j \in 1..Len(replies'),
                        NEW k \in 1..Len(replies'), j < k, ForName(replies'[j], n), ForName(replies'[k], n),
                        replies'[j].what = o
                 PROVE  replies'[k].what = o
    BY <1>1 DEF OrderInv, ForName
  <2>2. CASE k = Len(replies) + 1 BY <1>5, <1>14, <2>1, <2>2
  <2>3. CASE k \in 1..Len(replies)
    <3>1. j \in 1..Len(replies) BY <1>5, <2>1, <2>3
    <3>. QED BY <1>5, <2>1, <2>3, <3>1 DEF OrderInv
  <2>. QED BY <1>6, <2>2, <2>3
<1>16. CurrentInv'
  <2>1. SUFFICES ASSUME NEW n, NEW i, Found(n, i), NEW o \in Offers(n) \ stale',
                        o \in queries'[Resolver(n, i)].told
                 PROVE  \/ \E k \in 1..Len(replies') : replies'[k].query = Resolver(n, i) /\ replies'[k].what = o
                        \/ Heeds(n, o)'
    BY <1>1, <1>2, <1>3 DEF CurrentInv
  <2>2. CASE q = Resolver(n, i)
    <3>1. r.what = o BY <1>4, <2>1, <2>2
    <3>. QED BY <1>5, <1>6, <2>2, <3>1
  <2>3. CASE q # Resolver(n, i)
    <3>1. o \in queries[Resolver(n, i)].told BY <1>4, <2>1, <2>3 DEF QueriesInv
    <3>2. CASE \E k \in 1..Len(replies) : replies[k].query = Resolver(n, i) /\ replies[k].what = o
      BY <1>5, <1>6, <3>2
    <3>3. CASE Heeds(n, o)
      <4>1. ASSUME NEW k \in 1..Len(replies'), ForName(replies'[k], n) PROVE replies'[k].what = o
        <5>1. CASE k = Len(replies) + 1 BY <1>5, <1>14, <2>1, <4>1, <5>1
        <5>2. CASE k \in 1..Len(replies) BY <1>5, <3>3, <4>1, <5>2 DEF Heeds
        <5>. QED BY <1>6, <5>1, <5>2
      <4>. QED BY <1>1, <3>3, <4>1 DEF Heeds, ForName
    <3>. QED BY <2>1, <3>1, <3>2, <3>3 DEF CurrentInv
  <2>. QED BY <2>2, <2>3
<1>17. ResolvedInv'
  <2>1. SUFFICES ASSUME NEW n, NEW i, Found(n, i), queries'[Resolver(n, i)].told # {}
                 PROVE  \/ \E k \in 1..Len(replies') : replies'[k].query = Resolver(n, i)
                        \/ services[n].host # NoHost /\ (Addresser(n, i) \in DOMAIN queries \/ TimedOut(n)')
    BY <1>1, <1>2, <1>3, <1>4 DEF ResolvedInv
  <2>2. CASE q = Resolver(n, i) BY <1>5, <1>6, <2>2
  <2>3. CASE q # Resolver(n, i)
    <3>1. queries[Resolver(n, i)].told # {} BY <1>4, <2>1, <2>3 DEF QueriesInv
    <3>2. CASE \E k \in 1..Len(replies) : replies[k].query = Resolver(n, i) BY <1>5, <1>6, <3>2
    <3>. QED BY <1>8, <2>1, <3>1, <3>2 DEF ResolvedInv
  <2>. QED BY <2>2, <2>3
<1>18. HostsInv'
  <2>1. \A n, h : HostOf(n, h) => HostOf(n, h)' BY <1>1 DEF HostOf
  <2>. QED BY <1>3, <1>4, <2>1 DEF HostsInv
<1>19. AddressInv'
  <2>1. SUFFICES ASSUME NEW n, NEW i, Addresser(n, i) \in DOMAIN queries
                 PROVE  /\ {} \notin queries'[Addresser(n, i)].told
                        /\ ~TimedOut(n)' =>
                             /\ \A k \in 1..Len(replies') : replies'[k].query = Addresser(n, i) => replies'[k].what # {}
                             /\ \A w \in queries'[Addresser(n, i)].told :
                                  \/ \E k \in 1..Len(replies') :
                                       replies'[k].query = Addresser(n, i) /\ replies'[k].what = w
                                  \/ w \subseteq services[n].interfaces[i]
    BY <1>1, <1>3, <1>4 DEF AddressInv
  <2>2. {} \notin queries'[Addresser(n, i)].told
    BY <1>4, <2>1 DEF AddressInv
  <2>3. ASSUME ~TimedOut(n)', NEW k \in 1..Len(replies'), replies'[k].query = Addresser(n, i)
        PROVE  replies'[k].what # {}
    <3>1. CASE k = Len(replies) + 1 BY <1>5, <2>3, <3>1
    <3>2. CASE k \in 1..Len(replies) BY <1>5, <1>8, <2>1, <2>3, <3>2 DEF AddressInv
    <3>. QED BY <1>6, <3>1, <3>2
  <2>4. ASSUME ~TimedOut(n)', NEW w \in queries'[Addresser(n, i)].told
        PROVE  \/ \E k \in 1..Len(replies') : replies'[k].query = Addresser(n, i) /\ replies'[k].what = w
               \/ w \subseteq services[n].interfaces[i]
    <3>1. w \in queries[Addresser(n, i)].told \/ (q = Addresser(n, i) /\ w = r.what) BY <1>4, <2>1, <2>4
    <3>2. CASE q = Addresser(n, i) /\ w = r.what BY <1>5, <1>6, <3>2
    <3>3. CASE w \in queries[Addresser(n, i)].told
      <4>1. CASE \E k \in 1..Len(replies) : replies[k].query = Addresser(n, i) /\ replies[k].what = w
        BY <1>5, <1>6, <4>1
      <4>. QED BY <1>8, <2>1, <2>4, <3>3, <4>1 DEF AddressInv
    <3>. QED BY <3>1, <3>2, <3>3
  <2>. QED BY <2>2, <2>3, <2>4
<1>. QED BY <1>9, <1>10, <1>11, <1>12, <1>13, <1>15, <1>16, <1>17, <1>18, <1>19

LEMMA AnswerStep ==
  ASSUME DnsInv, NEW q \in DOMAIN queries, Answer(q)
  PROVE  DnsInv'
<1>1. UNCHANGED <<registered, nextId, up, address, changes, subscribers, known, enabled, services, stale>>
  BY DEF Answer, network, told
<1>. DEFINE heard == queries[q].told
<1>2. PICK what \in Truth(q) \cup heard :
        /\ what \in heard => what \notin Truth(q) /\ q.kind # "resolve"
        /\ replies' = Append(replies, Reply(q, what, what \notin heard))
        /\ queries' = [queries EXCEPT ![q].told = IF q.kind = "resolve" THEN {what}
                                                  ELSE IF what \in heard THEN heard \ {what} ELSE heard \cup {what}]
  BY DEF Answer
<1>10. PICK r, t :
         /\ r = Reply(q, what, what \notin heard)
         /\ t = IF q.kind = "resolve" THEN {what} ELSE IF what \in heard THEN heard \ {what} ELSE heard \cup {what}
  OBVIOUS
<1>3. r.query = q /\ r.what = what /\ (r.add <=> what \notin heard) BY <1>10 DEF Reply
<1>4. replies' = Append(replies, r) /\ queries' = [queries EXCEPT ![q].told = t] BY <1>2, <1>10
<1>5. ASSUME q = Browse PROVE Heard(heard, r, t) /\ \E n \in Names : \E i : r.what = <<n, i>>
  <2>1. q.kind = "browse" /\ Truth(q) = Offered \X up BY <1>5, QueriesDiffer DEF Truth
  <2>2. Heard(heard, r, t) BY <1>3, <1>5, <1>10, <2>1 DEF Heard
  <2>3. \A n \in Offered : n \in Names BY OfferedIs DEF DnsInv
  <2>4. \A x \in heard : \E n \in Names : \E i : x = <<n, i>> BY <1>5 DEF DnsInv, BrowserInv, BrowseInv, QueriesInv
  <2>5. \E n \in Names : \E i : what = <<n, i>> BY <1>2, <2>1, <2>3, <2>4
  <2>. QED BY <1>3, <2>2, <2>5
<1>6. ASSUME NEW n, NEW i, q = Resolver(n, i) PROVE t = {r.what} /\ r.what \in Offers(n)
  <2>1. q.kind = "resolve" /\ Truth(q) \subseteq Offers(n) BY <1>6, QueriesDiffer DEF Truth
  <2>. QED BY <1>2, <1>3, <1>10, <2>1
<1>7. ASSUME NEW n, NEW i, q = Addresser(n, i)
      PROVE  {} \notin t /\ r.what # {} /\ \A w \in t : w \in heard \/ w = r.what
  <2>1. q.kind = "address" /\ Truth(q) = {{address[queries[q].host]}} BY <1>7, QueriesDiffer DEF Truth
  <2>2. {} \notin heard BY <1>7 DEF DnsInv, BrowserInv, AddressInv
  <2>3. what # {} BY <1>2, <2>1, <2>2
  <2>. QED BY <1>3, <1>10, <2>1, <2>2, <2>3
<1>. HIDE DEF heard
<1>8. BrowserInv' BY <1>1, <1>3, <1>4, <1>5, <1>6, <1>7, Enqueued DEF heard
<1>9. AdvertiserInv' BY <1>1 DEF DnsInv, AdvertiserInv
<1>. QED BY <1>1, <1>8, <1>9, SubscribersStep DEF DnsInv

LEMMA AddressTimeoutStep ==
  ASSUME DnsInv, NEW q \in DOMAIN queries, AddressTimeout(q)
  PROVE  DnsInv'
<1>1. UNCHANGED <<registered, nextId, up, address, subscribers, known, enabled, services>>
  BY DEF AddressTimeout, told
<1>8. PICK r, t : r = Reply(q, {}, FALSE) /\ t = Truth(q) OBVIOUS
<1>2. r.query = q /\ r.what = {} BY <1>8 DEF Reply
<1>3. /\ replies' = Append(replies, r) /\ queries' = [queries EXCEPT ![q].told = t]
      /\ stale' = stale \cup {Offer(q.name, NoHost)} /\ q.kind = "address"
  BY <1>8 DEF AddressTimeout
<1>4. q # Browse /\ \A n, i : q # Resolver(n, i) BY <1>3, QueriesDiffer
<1>5. ASSUME NEW n, NEW i, q = Addresser(n, i) PROVE {} \notin t /\ TimedOut(n)'
  <2>1. t = {{address[queries[q].host]}} BY <1>3, <1>8 DEF Truth
  <2>2. q.name = n BY <1>5, QueriesDiffer
  <2>. QED BY <1>3, <2>1, <2>2 DEF TimedOut, Offer
<1>6. BrowserInv' BY <1>1, <1>2, <1>3, <1>4, <1>5, Enqueued
<1>7. AdvertiserInv' BY <1>1 DEF DnsInv, AdvertiserInv
<1>. QED BY <1>1, <1>6, <1>7, SubscribersStep DEF DnsInv

-----------------------------------------------------------------------------
\* The browser processes the first reply.
LEMMA FirstReply ==
  ASSUME DnsInv, replies # <<>>
  PROVE  /\ enabled /\ Browse \in DOMAIN queries
         /\ IsList(replies) /\ Len(replies) \in Nat \ {0} /\ 1 \in 1..Len(replies)
         /\ \A a \in 2..Len(replies) : a \in 1..Len(replies) /\ 1 < a
         /\ \A a \in 1..Len(replies) : a = 1 \/ a \in 2..Len(replies)
         /\ Head(replies) = replies[1] /\ replies[1].query \in DOMAIN queries
         /\ Rests(Tail(replies), DOMAIN queries)
<1>1. IsList(replies) /\ (\A k \in 1..Len(replies) : replies[k].query \in DOMAIN queries)
  BY DEF DnsInv, BrowserInv, RepliesInv
<1>2. Len(replies) \in Nat \ {0} /\ Head(replies) = replies[1] BY <1>1, Tails
<1>3. enabled /\ Browse \in DOMAIN queries BY DEF DnsInv, BrowserInv, QueriesInv
<1>4. Rests(Tail(replies), DOMAIN queries) BY <1>1, TailRests
<1>. QED BY <1>1, <1>2, <1>3, <1>4

\* A step of what is found, and the rest of the replies leads on from there.
LEMMA FirstHeard ==
  ASSUME DnsInv, replies # <<>>
  PROVE  \E from, to :
           /\ \A n, i : <<n, i>> \in from <=> Found(n, i)
           /\ Heard(from, replies[1], to)
           /\ \A m, kept : Browse \in kept /\ Rests(m, kept) => Leads(to, m, queries[Browse].told)
<1>1. enabled /\ Len(replies) \in Nat \ {0} /\ 1 \in 1..Len(replies) BY FirstReply
<1>2. PICK from : /\ \A n, i : <<n, i>> \in from <=> Found(n, i)
                  /\ Leads(from, replies, queries[Browse].told)
  BY <1>1 DEF DnsInv, BrowserInv, BrowseInv
<1>3. PICK view : Views(view, replies) /\ view[0] = from /\ view[Len(replies)] = queries[Browse].told
  BY <1>2 DEF Leads
<1>4. Heard(view[1 - 1], replies[1], view[1]) BY <1>1, <1>3 DEF Views
<1>5. Heard(from, replies[1], view[1]) BY <1>3, <1>4
<1>6. \A m, kept : Browse \in kept /\ Rests(m, kept) => Leads(view[1], m, queries[Browse].told)
  BY <1>3 DEF Rests
<1>. QED BY <1>2, <1>5, <1>6

\* Of two names of which one is no string, or a query that is there, and a service that was found.
LEMMA AskedIs ==
  ASSUME QueriesInv
  PROVE  /\ \A n, i : Resolver(n, i) \in DOMAIN queries => Found(n, i)
         /\ \A n, i : Addresser(n, i) \in DOMAIN queries => Found(n, i)
         /\ \A q \in DOMAIN queries : q.kind = "browse" => q = Browse
         /\ \A q \in DOMAIN queries : q.kind = "resolve" => q = Resolver(q.name, q.interface)
         /\ \A q \in DOMAIN queries : q.kind = "address" => q = Addresser(q.name, q.interface)
         /\ \A q \in DOMAIN queries : q.kind \in {"browse", "resolve", "address"}
<1>1. \A q \in DOMAIN queries : q # Browse => \E n, i : Found(n, i) /\ q \in {Resolver(n, i), Addresser(n, i)}
  BY DEF QueriesInv
<1>2. ASSUME NEW n, NEW i, Resolver(n, i) \in DOMAIN queries PROVE Found(n, i)
  <2>1. PICK m, j : Found(m, j) /\ Resolver(n, i) \in {Resolver(m, j), Addresser(m, j)}
    BY <1>1, <1>2, QueriesDiffer
  <2>. QED BY <2>1, QueriesDiffer
<1>3. ASSUME NEW n, NEW i, Addresser(n, i) \in DOMAIN queries PROVE Found(n, i)
  <2>1. PICK m, j : Found(m, j) /\ Addresser(n, i) \in {Resolver(m, j), Addresser(m, j)}
    BY <1>1, <1>3, QueriesDiffer
  <2>. QED BY <2>1, QueriesDiffer
<1>4. ASSUME NEW q \in DOMAIN queries
      PROVE  /\ q.kind = "browse" => q = Browse
             /\ q.kind = "resolve" => q = Resolver(q.name, q.interface)
             /\ q.kind = "address" => q = Addresser(q.name, q.interface)
             /\ q.kind \in {"browse", "resolve", "address"}
  <2>1. CASE q = Browse BY <2>1, QueriesDiffer
  <2>2. CASE q # Browse
    <3>1. PICK n, i : q \in {Resolver(n, i), Addresser(n, i)} BY <1>1, <2>2
    <3>. QED BY <3>1, QueriesDiffer
  <2>. QED BY <2>1, <2>2
<1>. QED BY <1>2, <1>3, <1>4

LEMMA Processed ==
  ASSUME DnsInv, replies # <<>>, QueriesInv', NEW kept, kept \subseteq DOMAIN queries, Browse \in kept,
         Rests(replies', kept), UNCHANGED registered,
         kept \subseteq DOMAIN queries', \A p \in kept : queries'[p] = queries[p],
         \A p \in DOMAIN queries' : p \notin kept => queries'[p].told = {},
         \A n \in DOMAIN services \cap DOMAIN services' : \A w : w.name = n => (w \in stale' <=> w \in stale),
         \E to : (\A n, i : <<n, i>> \in to <=> Found(n, i)') /\ Leads(to, replies', queries[Browse].told),
         \A n \in DOMAIN services \cap DOMAIN services' :
           IF ForName(replies[1], n)
           THEN services'[n].host = replies[1].what.host /\ services'[n].txt = replies[1].what.txt
           ELSE services'[n].host = services[n].host /\ services'[n].txt = services[n].txt,
         \A n, i : Found(n, i)' /\ replies[1].query = Resolver(n, i) => Addresser(n, i) \in DOMAIN queries',
         \A n, i : Found(n, i)' /\ Addresser(n, i) \in DOMAIN queries => Addresser(n, i) \in kept \/ TimedOut(n),
         \A n, i : Addresser(n, i) \in DOMAIN queries' /\ Addresser(n, i) \notin kept =>
           HostOf(n, queries[Addresser(n, i)].host)',
         \A n, i : Found(n, i) /\ Found(n, i)' =>
           /\ services[n].interfaces[i] \subseteq services'[n].interfaces[i]
           /\ replies[1].query = Addresser(n, i) /\ Addresser(n, i) \in kept =>
                replies[1].what \subseteq services'[n].interfaces[i]
  PROVE  RepliesInv' /\ BrowseInv' /\ TracedInv' /\ OrderInv' /\ CurrentInv' /\ ResolvedInv' /\ HostsInv' /\ AddressInv'
<1>. USE DEF DnsInv, BrowserInv
<1>1. /\ enabled /\ Len(replies) \in Nat /\ 1 \in 1..Len(replies)
      /\ \A a \in 2..Len(replies) : a \in 1..Len(replies) /\ 1 < a
      /\ \A a \in 1..Len(replies) : a = 1 \/ a \in 2..Len(replies)
  BY FirstReply
<1>2. \A n : Offers(n)' = Offers(n) BY DEF Offers
<1>3. \A n, i : Resolver(n, i)' = Resolver(n, i) /\ Addresser(n, i)' = Addresser(n, i) /\ Browse' = Browse
  BY DEF Resolver, Addresser, Browse, Query
<1>4. /\ \A n, i : Resolver(n, i) \in DOMAIN queries => Found(n, i)
      /\ \A n, i : Addresser(n, i) \in DOMAIN queries => Found(n, i)
      /\ \A q \in DOMAIN queries : q.kind = "resolve" => q = Resolver(q.name, q.interface)
  BY AskedIs
<1>5. /\ \A n, i : Found(n, i)' => Resolver(n, i) \in DOMAIN queries'
      /\ \A n, i : Resolver(n, i) \in DOMAIN queries' => Found(n, i)'
      /\ \A n, i : Addresser(n, i) \in DOMAIN queries' => Found(n, i)'
  <2>1. \A n, i : Found(n, i)' => Resolver(n, i) \in DOMAIN queries' BY <1>3 DEF QueriesInv
  <2>2. \A q \in DOMAIN queries' : q # Browse => \E n, i : Found(n, i)' /\ q \in {Resolver(n, i), Addresser(n, i)}
    BY <1>3 DEF QueriesInv
  <2>3. ASSUME NEW n, NEW i, Resolver(n, i) \in DOMAIN queries' PROVE Found(n, i)'
    <3>1. PICK m, j : Found(m, j)' /\ Resolver(n, i) \in {Resolver(m, j), Addresser(m, j)}
      BY <2>2, <2>3, QueriesDiffer
    <3>. QED BY <3>1, QueriesDiffer
  <2>4. ASSUME NEW n, NEW i, Addresser(n, i) \in DOMAIN queries' PROVE Found(n, i)'
    <3>1. PICK m, j : Found(m, j)' /\ Addresser(n, i) \in {Resolver(m, j), Addresser(m, j)}
      BY <2>2, <2>4, QueriesDiffer
    <3>. QED BY <3>1, QueriesDiffer
  <2>. QED BY <2>1, <2>3, <2>4
<1>6. IsList(replies') BY DEF Rests
<1>7. ASSUME NEW k \in 1..Len(replies')
      PROVE  replies'[k].query \in kept /\ \E a \in 2..Len(replies) : replies[a] = replies'[k]
  BY DEF Rests
<1>8. ASSUME NEW a \in 2..Len(replies), replies[a].query \in kept PROVE \E k \in 1..Len(replies') : replies'[k] = replies[a]
  BY <1>8 DEF Rests
<1>9. RepliesInv'
  <2>1. ASSUME NEW k \in 1..Len(replies')
        PROVE  /\ replies'[k].query \in DOMAIN queries'
               /\ replies'[k].query = Browse => \E n \in Names : \E i : replies'[k].what = <<n, i>>
    <3>1. PICK a \in 2..Len(replies) : replies[a] = replies'[k] BY <1>7
    <3>2. a \in 1..Len(replies) BY <1>1
    <3>. QED BY <1>7, <3>1, <3>2 DEF RepliesInv
  <2>. QED BY <1>3, <1>6, <2>1 DEF RepliesInv
<1>10. BrowseInv'
  <2>1. queries'[Browse] = queries[Browse] OBVIOUS
  <2>2. \A x \in queries[Browse].told : \E n \in Names : \E i : x = <<n, i>> BY <1>1 DEF BrowseInv
  <2>3. PICK to : (\A n, i : <<n, i>> \in to <=> Found(n, i)') /\ Leads(to, replies', queries[Browse].told)
    OBVIOUS
  <2>. QED BY <1>3, <2>1, <2>2, <2>3 DEF BrowseInv
<1>11. ASSUME NEW n \in DOMAIN services, n \in DOMAIN services', NEW w, OfferOf(n, w) PROVE OfferOf(n, w)'
  BY <1>2, <1>11 DEF OfferOf
<1>12. ASSUME NEW n, NEW i, Found(n, i)', queries'[Resolver(n, i)].told # {}
       PROVE  /\ Resolver(n, i) \in kept /\ queries'[Resolver(n, i)] = queries[Resolver(n, i)]
              /\ Found(n, i) /\ n \in DOMAIN services /\ n \in DOMAIN services'
  <2>1. Resolver(n, i) \in kept BY <1>5, <1>12
  <2>. QED BY <1>4, <1>12, <2>1 DEF Found
<1>13. TracedInv'
  <2>1. ASSUME NEW n, NEW i, Found(n, i)', NEW w \in queries'[Resolver(n, i)].told PROVE OfferOf(n, w)'
    BY <1>11, <1>12, <2>1 DEF TracedInv
  <2>2. ASSUME NEW k \in 1..Len(replies'), NEW n, NEW i, replies'[k].query = Resolver(n, i)
        PROVE  OfferOf(n, replies[k].what)'
    <3>1. PICK a \in 2..Len(replies) : replies[a] = replies'[k] BY <1>7
    <3>2. OfferOf(n, replies[a].what) BY <1>1, <2>2, <3>1 DEF TracedInv
    <3>3. n \in DOMAIN services /\ n \in DOMAIN services'
      BY <1>4, <1>5, <1>7, <2>2 DEF Found
    <3>. QED BY <1>11, <3>1, <3>2, <3>3 DEF OfferOf
  <2>. QED BY <1>3, <2>1, <2>2 DEF TracedInv
<1>14. ASSUME NEW n \in DOMAIN services, n \in DOMAIN services', NEW o \in Offers(n), o \notin stale'
       PROVE  o \in Offers(n) \ stale
  BY <1>14, OfferedIs
<1>15. OrderInv'
  <2>1. SUFFICES ASSUME NEW n \in DOMAIN services', NEW o \in Offers(n) \ stale', NEW j \in 1..Len(replies'),
                        NEW k \in 1..Len(replies'), j < k, ForName(replies'[j], n), ForName(replies'[k], n),
                        replies'[j].what = o
                 PROVE  replies'[k].what = o
    BY <1>2 DEF OrderInv, ForName
  <2>2. PICK a \in 2..Len(replies), b \in 2..Len(replies) :
          a < b /\ replies[a] = replies'[j] /\ replies[b] = replies'[k]
    BY <2>1 DEF Rests
  <2>3. n \in DOMAIN services BY <1>4, <1>7, <2>1 DEF ForName, Found
  <2>. QED BY <1>1, <1>14, <2>1, <2>2, <2>3 DEF OrderInv
<1>16. CurrentInv'
  <2>1. SUFFICES ASSUME NEW n, NEW i, Found(n, i)', NEW o \in Offers(n) \ stale',
                        o \in queries'[Resolver(n, i)].told
                 PROVE  \/ \E k \in 1..Len(replies') : replies'[k].query = Resolver(n, i) /\ replies'[k].what = o
                        \/ Heeds(n, o)'
    BY <1>2, <1>3 DEF CurrentInv
  <2>2. /\ Resolver(n, i) \in kept /\ Found(n, i) /\ n \in DOMAIN services /\ n \in DOMAIN services'
        /\ o \in queries[Resolver(n, i)].told
    BY <1>12, <2>1
  <2>3. o \in Offers(n) \ stale BY <1>14, <2>1, <2>2
  <2>4. ASSUME NEW a \in 2..Len(replies), replies[a].query = Resolver(n, i), replies[a].what = o
        PROVE  \E k \in 1..Len(replies') : replies'[k].query = Resolver(n, i) /\ replies'[k].what = o
    BY <1>8, <2>2, <2>4
  <2>5. CASE ForName(replies[1], n) /\ (replies[1].what = o \/ Heeds(n, o))
    <3>1. replies[1].what = o BY <1>1, <2>5 DEF Heeds
    <3>2. services'[n].host = o.host /\ services'[n].txt = o.txt BY <2>2, <2>5, <3>1
    <3>3. ASSUME NEW k \in 1..Len(replies'), ForName(replies'[k], n) PROVE replies'[k].what = o
      <4>1. PICK a \in 2..Len(replies) : replies[a] = replies'[k] BY <1>7
      <4>2. a \in 1..Len(replies) /\ 1 < a BY <1>1
      <4>. QED BY <1>1, <2>2, <2>3, <2>5, <3>1, <3>3, <4>1, <4>2 DEF OrderInv
    <3>. QED BY <3>2, <3>3 DEF Heeds, ForName
  <2>6. CASE ~ForName(replies[1], n) /\ Heeds(n, o)
    <3>1. services'[n].host = o.host /\ services'[n].txt = o.txt BY <2>2, <2>6 DEF Heeds
    <3>2. ASSUME NEW k \in 1..Len(replies'), ForName(replies'[k], n) PROVE replies'[k].what = o
      <4>1. PICK a \in 2..Len(replies) : replies[a] = replies'[k] BY <1>7
      <4>. QED BY <1>1, <2>6, <3>2, <4>1 DEF Heeds
    <3>. QED BY <3>1, <3>2 DEF Heeds, ForName
  <2>7. CASE \E a \in 1..Len(replies) : replies[a].query = Resolver(n, i) /\ replies[a].what = o
    <3>1. PICK a \in 1..Len(replies) : replies[a].query = Resolver(n, i) /\ replies[a].what = o BY <2>7
    <3>2. CASE a = 1
      <4>1. ForName(replies[1], n) BY <3>1, <3>2, QueriesDiffer DEF ForName
      <4>. QED BY <2>5, <3>1, <3>2, <4>1
    <3>3. CASE a \in 2..Len(replies) BY <2>4, <3>1, <3>3
    <3>. QED BY <1>1, <3>2, <3>3
  <2>. QED BY <2>2, <2>3, <2>5, <2>6, <2>7 DEF CurrentInv
<1>17. \A n \in DOMAIN services \cap DOMAIN services' : TimedOut(n)' <=> TimedOut(n)
  <2>1. \A n : Offer(n, NoHost).name = n BY DEF Offer
  <2>. QED BY <2>1 DEF TimedOut, Offer
<1>18. ResolvedInv'
  <2>1. SUFFICES ASSUME NEW n, NEW i, Found(n, i)', queries'[Resolver(n, i)].told # {},
                        \A k \in 1..Len(replies') : replies'[k].query # Resolver(n, i)
                 PROVE  services'[n].host # NoHost /\ (Addresser(n, i) \in DOMAIN queries' \/ TimedOut(n)')
    BY <1>3 DEF ResolvedInv
  <2>2. /\ Resolver(n, i) \in kept /\ Found(n, i) /\ n \in DOMAIN services \cap DOMAIN services'
        /\ queries[Resolver(n, i)].told # {}
    BY <1>12, <2>1
  <2>3. ASSUME ForName(replies[1], n) PROVE services'[n].host # NoHost
    <3>1. replies[1].query = Resolver(n, replies[1].query.interface) BY <1>1, <1>4, <2>3 DEF RepliesInv, ForName
    <3>2. replies[1].what.host \in Hosts BY <1>1, <3>1 DEF TracedInv, OfferOf
    <3>. QED BY <2>2, <2>3, <3>2, NamesAssumption
  <2>4. CASE \E a \in 1..Len(replies) : replies[a].query = Resolver(n, i)
    <3>1. PICK a \in 1..Len(replies) : replies[a].query = Resolver(n, i) BY <2>4
    <3>2. a = 1 BY <1>1, <1>8, <2>1, <2>2, <3>1
    <3>3. ForName(replies[1], n) BY <3>1, <3>2, QueriesDiffer DEF ForName
    <3>. QED BY <2>1, <2>3, <3>1, <3>2, <3>3
  <2>5. CASE services[n].host # NoHost /\ (Addresser(n, i) \in DOMAIN queries \/ TimedOut(n))
    <3>1. services'[n].host # NoHost BY <2>2, <2>3, <2>5
    <3>. QED BY <1>17, <2>1, <2>2, <2>5, <3>1
  <2>. QED BY <2>2, <2>4, <2>5 DEF ResolvedInv
<1>19. ASSUME NEW n, NEW i, Addresser(n, i) \in kept
       PROVE  /\ Found(n, i) /\ Found(n, i)' /\ n \in DOMAIN services \cap DOMAIN services'
              /\ queries'[Addresser(n, i)] = queries[Addresser(n, i)] /\ Addresser(n, i) \in DOMAIN queries
  BY <1>4, <1>5, <1>19 DEF Found
<1>20. HostsInv'
  <2>1. ASSUME NEW n, NEW i, Addresser(n, i) \in kept PROVE HostOf(n, queries[Addresser(n, i)].host)'
    <3>1. HostOf(n, queries[Addresser(n, i)].host) BY <1>19, <2>1 DEF HostsInv
    <3>2. PICK w \in Offers(n) \cup stale : w.name = n /\ w.host = queries[Addresser(n, i)].host BY <3>1 DEF HostOf
    <3>3. w \in Offers(n)' \cup stale' BY <1>2, <1>19, <2>1, <3>2
    <3>. QED BY <1>3, <1>19, <2>1, <3>2, <3>3 DEF HostOf
  <2>. QED BY <1>3, <2>1 DEF HostsInv
<1>21. AddressInv'
  <2>1. SUFFICES ASSUME NEW n, NEW i, Addresser(n, i) \in DOMAIN queries'
                 PROVE  /\ {} \notin queries'[Addresser(n, i)].told
                        /\ ~TimedOut(n)' =>
                             /\ \A k \in 1..Len(replies') : replies'[k].query = Addresser(n, i) => replies'[k].what # {}
                             /\ \A w \in queries'[Addresser(n, i)].told :
                                  \/ \E k \in 1..Len(replies') :
                                       replies'[k].query = Addresser(n, i) /\ replies'[k].what = w
                                  \/ w \subseteq services'[n].interfaces[i]
    BY <1>3 DEF AddressInv
  <2>2. CASE Addresser(n, i) \notin kept BY <1>7, <2>1, <2>2
  <2>3. CASE Addresser(n, i) \in kept
    <3>1. {} \notin queries'[Addresser(n, i)].told BY <1>19, <2>3 DEF AddressInv
    <3>2. ASSUME ~TimedOut(n)'
          PROVE  /\ \A k \in 1..Len(replies) : replies[k].query = Addresser(n, i) => replies[k].what # {}
                 /\ \A w \in queries'[Addresser(n, i)].told :
                      \/ \E k \in 1..Len(replies) : replies[k].query = Addresser(n, i) /\ replies[k].what = w
                      \/ w \subseteq services[n].interfaces[i]
      BY <1>17, <1>19, <2>3, <3>2 DEF AddressInv
    <3>3. ASSUME ~TimedOut(n)', NEW k \in 1..Len(replies'), replies'[k].query = Addresser(n, i)
          PROVE  replies'[k].what # {}
      BY <1>1, <1>7, <3>2, <3>3
    <3>4. ASSUME ~TimedOut(n)', NEW w \in queries'[Addresser(n, i)].told
          PROVE  \/ \E k \in 1..Len(replies') : replies'[k].query = Addresser(n, i) /\ replies'[k].what = w
                 \/ w \subseteq services'[n].interfaces[i]
      <4>1. CASE w \subseteq services[n].interfaces[i] BY <1>19, <2>3, <4>1
      <4>2. CASE \E a \in 1..Len(replies) : replies[a].query = Addresser(n, i) /\ replies[a].what = w
        <5>1. PICK a \in 1..Len(replies) : replies[a].query = Addresser(n, i) /\ replies[a].what = w BY <4>2
        <5>2. CASE a = 1 BY <1>19, <2>3, <5>1, <5>2
        <5>3. CASE a \in 2..Len(replies) BY <1>8, <2>3, <5>1, <5>3
        <5>. QED BY <1>1, <5>2, <5>3
      <4>. QED BY <3>2, <3>4, <4>1, <4>2
    <3>. QED BY <3>1, <3>3, <3>4
  <2>. QED BY <2>2, <2>3
<1>. QED BY <1>9, <1>10, <1>13, <1>15, <1>16, <1>18, <1>20, <1>21

LEMMA SameSessions ==
  ASSUME SubscribersInv, UNCHANGED <<subscribers, known>>, Resolved' = Resolved,
         \A n \in Resolved : services'[n].host = services[n].host /\ services'[n].txt = services[n].txt
  PROVE  SubscribersInv'
<1>1. \A n \in Resolved : Description(services[n])' = Description(services[n]) BY DEF Description
<1>2. [n \in Resolved |-> Description(services[n])]' = [n \in Resolved |-> Description(services[n])] BY <1>1
<1>. QED BY <1>2 DEF SubscribersInv, SubscribersKnowSessions

LEMMA ServiceAddedStep ==
  ASSUME DnsInv, replies # <<>>, NEW n \in Names, NEW i,
         replies[1].query = Browse, replies[1].add, replies[1].what = <<n, i>>,
         ServiceAdded(n, i), UNCHANGED <<network, subscribers, enabled>>
  PROVE  DnsInv'
<1>1. /\ enabled /\ Browse \in DOMAIN queries /\ 1 \in 1..Len(replies)
      /\ Rests(Tail(replies), DOMAIN queries)
  BY FirstReply
<1>2. PICK from, to :
        /\ \A m, j : <<m, j>> \in from <=> Found(m, j)
        /\ Heard(from, replies[1], to)
        /\ \A m, kept : Browse \in kept /\ Rests(m, kept) => Leads(to, m, queries[Browse].told)
  BY FirstHeard
<1>3. <<n, i>> \notin from /\ to = from \cup {<<n, i>>} BY <1>2 DEF Heard
<1>4. ~Found(n, i) /\ Resolver(n, i) \notin DOMAIN queries BY <1>2, <1>3, AskedIs DEF DnsInv, BrowserInv
<1>5. PICK service : service = IF n \in DOMAIN services THEN services[n] ELSE NewService OBVIOUS
<1>6. DOMAIN service = {"host", "txt", "interfaces"} /\ i \notin DOMAIN service.interfaces
  <2>1. CASE n \in DOMAIN services BY <1>4, <1>5, <2>1 DEF Found, DnsInv, BrowserInv, ServicesInv
  <2>2. CASE n \notin DOMAIN services
    <3>1. DOMAIN <<>> = {} BY EmptyIs
    <3>. QED BY <1>5, <2>2, <3>1 DEF NewService
  <2>. QED BY <2>1, <2>2
<1>7. services' = Put(services, n, [service EXCEPT !.interfaces = Put(service.interfaces, i, {})])
  BY <1>4, <1>5, <1>6 DEF ServiceAdded, Resolver
<1>8. /\ DOMAIN services' = DOMAIN services \cup {n}
      /\ \A m \in DOMAIN services : m # n => services'[m] = services[m]
      /\ DOMAIN services'[n] = {"host", "txt", "interfaces"}
      /\ services'[n].host = service.host /\ services'[n].txt = service.txt
      /\ DOMAIN services'[n].interfaces = DOMAIN service.interfaces \cup {i}
      /\ \A j \in DOMAIN service.interfaces : services'[n].interfaces[j] = service.interfaces[j]
  BY <1>6, <1>7 DEF Put
<1>9. \A m, j : Found(m, j)' <=> Found(m, j) \/ (m = n /\ j = i)
  <2>1. CASE n \in DOMAIN services BY <1>5, <1>8, <2>1 DEF Found
  <2>2. CASE n \notin DOMAIN services
    <3>1. DOMAIN service.interfaces = {} BY <1>5, <2>2, EmptyIs DEF NewService
    <3>. QED BY <1>8, <2>2, <3>1 DEF Found
  <2>. QED BY <2>1, <2>2
<1>10. queries' = Put(queries, Resolver(n, i), [told |-> {}, host |-> NoHost]) /\ replies' = Tail(replies)
       /\ known' = known /\ stale' = IF n \in DOMAIN services THEN stale ELSE {o \in stale : o.name # n}
  BY <1>4 DEF ServiceAdded, ResolveOnInterface, Resolver
<1>11. /\ DOMAIN queries' = DOMAIN queries \cup {Resolver(n, i)}
       /\ \A q \in DOMAIN queries : queries'[q] = queries[q]
       /\ queries'[Resolver(n, i)] = [told |-> {}, host |-> NoHost]
  BY <1>4, <1>10 DEF Put
<1>12. /\ \A m, j : Resolver(m, j)' = Resolver(m, j) /\ Addresser(m, j)' = Addresser(m, j) /\ Browse' = Browse
       /\ enabled' = enabled /\ registered' = registered /\ nextId' = nextId /\ subscribers' = subscribers
  BY DEF Resolver, Addresser, Browse, Query, network
<1>13. QueriesInv'
  <2>1. ASSUME NEW q \in DOMAIN queries'
        PROVE  /\ DOMAIN queries'[q] = {"told", "host"}
               /\ q # Browse => \E m, j : Found(m, j)' /\ q \in {Resolver(m, j), Addresser(m, j)}
    <3>1. CASE q = Resolver(n, i) BY <1>9, <1>11, <3>1
    <3>2. CASE q \in DOMAIN queries BY <1>9, <1>11, <3>2 DEF DnsInv, BrowserInv, QueriesInv
    <3>. QED BY <1>11, <3>1, <3>2
  <2>2. ASSUME NEW m, NEW j, Found(m, j)' PROVE Resolver(m, j) \in DOMAIN queries'
    BY <1>9, <1>11, <2>2 DEF DnsInv, BrowserInv, QueriesInv
  <2>3. enabled' /\ Browse \in DOMAIN queries' BY <1>1, <1>11, <1>12
  <2>. QED BY <1>12, <2>1, <2>2, <2>3 DEF QueriesInv
<1>14. ServicesInv'
  <2>1. DOMAIN services'[n].interfaces # {} BY <1>8
  <2>2. ASSUME NEW m \in DOMAIN services, m # n
        PROVE  m \in Names /\ DOMAIN services'[m] = {"host", "txt", "interfaces"} /\ DOMAIN services'[m].interfaces # {}
    BY <1>8, <2>2 DEF DnsInv, BrowserInv, ServicesInv
  <2>. QED BY <1>8, <2>1, <2>2 DEF ServicesInv
<1>15. RepliesInv' /\ BrowseInv' /\ TracedInv' /\ OrderInv' /\ CurrentInv' /\ ResolvedInv' /\ HostsInv' /\ AddressInv'
  <2>1. PICK kept : kept = DOMAIN queries OBVIOUS
  <2>2. Rests(replies', kept) BY <1>1, <1>10, <2>1
  <2>3. /\ kept \subseteq DOMAIN queries /\ Browse \in kept /\ kept \subseteq DOMAIN queries'
        /\ \A p \in kept : queries'[p] = queries[p]
        /\ \A p \in DOMAIN queries' : p \notin kept => queries'[p].told = {}
    BY <1>1, <1>11, <2>1
  <2>4. \A m \in DOMAIN services \cap DOMAIN services' : \A w : w.name = m => (w \in stale' <=> w \in stale)
    BY <1>10
  <2>5. (\A m, j : <<m, j>> \in to <=> Found(m, j)') /\ Leads(to, replies', queries[Browse].told)
    <3>1. \A m, j : <<m, j>> \in to <=> Found(m, j) \/ (m = n /\ j = i) BY <1>2, <1>3
    <3>. QED BY <1>2, <1>9, <2>2, <2>3, <3>1
  <2>6. \A m : ~ForName(replies[1], m) BY QueriesDiffer DEF ForName
  <2>7. \A m \in DOMAIN services \cap DOMAIN services' :
          services'[m].host = services[m].host /\ services'[m].txt = services[m].txt
    BY <1>5, <1>8
  <2>8. \A m, j : replies[1].query # Resolver(m, j) /\ replies[1].query # Addresser(m, j) BY QueriesDiffer
  <2>9. \A m, j : Addresser(m, j) \in DOMAIN queries' => Addresser(m, j) \in kept BY <1>11, <2>1, QueriesDiffer
  <2>10. \A m, j : Found(m, j) => services[m].interfaces[j] \subseteq services'[m].interfaces[j]
    BY <1>5, <1>8 DEF Found
  <2>11. \A m, j : Addresser(m, j) \in DOMAIN queries => Addresser(m, j) \in kept BY <2>1
  <2>. QED BY <1>12, <1>13, <2>2, <2>3, <2>4, <2>5, <2>6, <2>7, <2>8, <2>9, <2>10, <2>11, Processed
<1>16. SubscribersInv'
  <2>1. service.host = IF n \in DOMAIN services THEN services[n].host ELSE NoHost BY <1>5 DEF NewService
  <2>2. Resolved' = Resolved BY <1>8, <2>1 DEF Resolved
  <2>3. \A m \in Resolved : services'[m].host = services[m].host /\ services'[m].txt = services[m].txt
    BY <1>5, <1>8 DEF Resolved
  <2>. QED BY <1>10, <1>12, <2>2, <2>3, SameSessions DEF DnsInv
<1>17. AdvertiserInv' BY <1>12 DEF DnsInv, AdvertiserInv
<1>. QED BY <1>13, <1>14, <1>15, <1>16, <1>17 DEF DnsInv, BrowserInv

\* A service that is gone from an interface takes the two queries of it there along.
LEMMA Gone ==
  ASSUME DnsInv, replies # <<>>, NEW n, NEW i,
         replies[1].query = Browse, ~replies[1].add, replies[1].what = <<n, i>>,
         NEW kept, \A q : q \in kept <=> q \in DOMAIN queries /\ q # Resolver(n, i) /\ q # Addresser(n, i),
         \A q : q \in DOMAIN queries' <=> q \in kept, \A q \in kept : queries'[q] = queries[q],
         Rests(replies', kept), UNCHANGED <<registered, enabled, stale>>, ServicesInv',
         \A m, j : Found(m, j)' <=> Found(m, j) /\ ~(m = n /\ j = i),
         \A m \in DOMAIN services \cap DOMAIN services' :
           services'[m].host = services[m].host /\ services'[m].txt = services[m].txt,
         \A m, j : Found(m, j)' => services[m].interfaces[j] \subseteq services'[m].interfaces[j]
  PROVE  BrowserInv'
<1>1. /\ enabled /\ Browse \in DOMAIN queries /\ IsList(replies)
  BY FirstReply
<1>2. /\ \A m, j : Resolver(m, j)' = Resolver(m, j) /\ Addresser(m, j)' = Addresser(m, j) /\ Browse' = Browse
      /\ enabled' = enabled /\ registered' = registered /\ stale' = stale
  BY DEF Resolver, Addresser, Browse, Query
<1>3. PICK from, to :
        /\ \A m, j : <<m, j>> \in from <=> Found(m, j)
        /\ Heard(from, replies[1], to)
        /\ \A m, k : Browse \in k /\ Rests(m, k) => Leads(to, m, queries[Browse].told)
  BY FirstHeard
<1>4. to = from \ {<<n, i>>} BY <1>3 DEF Heard
<1>5. kept \subseteq DOMAIN queries /\ Browse \in kept BY <1>1, QueriesDiffer
<1>7. QueriesInv'
  <2>1. ASSUME NEW q \in DOMAIN queries'
        PROVE  /\ DOMAIN queries'[q] = {"told", "host"}
               /\ q # Browse => \E m, j : Found(m, j)' /\ q \in {Resolver(m, j), Addresser(m, j)}
    <3>1. q \in DOMAIN queries /\ q \notin {Resolver(n, i), Addresser(n, i)} BY <1>5, <2>1
    <3>2. DOMAIN queries'[q] = {"told", "host"} BY <1>5, <2>1, <3>1 DEF DnsInv, BrowserInv, QueriesInv
    <3>3. ASSUME q # Browse PROVE \E m, j : Found(m, j)' /\ q \in {Resolver(m, j), Addresser(m, j)}
      <4>1. PICK m, j : Found(m, j) /\ q \in {Resolver(m, j), Addresser(m, j)}
        BY <3>1, <3>3 DEF DnsInv, BrowserInv, QueriesInv
      <4>2. ~(m = n /\ j = i) BY <3>1, <4>1
      <4>. QED BY <4>1, <4>2
    <3>. QED BY <3>2, <3>3
  <2>2. ASSUME NEW m, NEW j, Found(m, j)' PROVE Resolver(m, j) \in DOMAIN queries'
    <3>1. Found(m, j) /\ ~(m = n /\ j = i) BY <2>2
    <3>2. Resolver(m, j) \in DOMAIN queries BY <3>1 DEF DnsInv, BrowserInv, QueriesInv
    <3>. QED BY <1>5, <3>1, <3>2, QueriesDiffer
  <2>3. enabled' /\ Browse \in DOMAIN queries' BY <1>1, <1>2, <1>5
  <2>. QED BY <1>2, <2>1, <2>2, <2>3 DEF QueriesInv
<1>8. (\A m, j : <<m, j>> \in to <=> Found(m, j)') /\ Leads(to, replies', queries[Browse].told)
  <2>1. \A m, j : <<m, j>> \in to <=> Found(m, j) /\ ~(m = n /\ j = i) BY <1>3, <1>4
  <2>. QED BY <1>3, <1>5, <2>1
<1>9. \A m : ~ForName(replies[1], m) BY QueriesDiffer DEF ForName
<1>10. \A m, j : replies[1].query # Resolver(m, j) /\ replies[1].query # Addresser(m, j) BY QueriesDiffer
<1>11. \A m, j : Found(m, j)' /\ Addresser(m, j) \in DOMAIN queries => Addresser(m, j) \in kept
  BY QueriesDiffer
<1>12. RepliesInv' /\ BrowseInv' /\ TracedInv' /\ OrderInv' /\ CurrentInv' /\ ResolvedInv' /\ HostsInv' /\ AddressInv'
  <2>1. /\ kept \subseteq DOMAIN queries' /\ \A p \in DOMAIN queries' : p \notin kept => queries'[p].told = {}
        /\ \A m, j : Addresser(m, j) \in DOMAIN queries' => Addresser(m, j) \in kept
    BY <1>5
  <2>2. \A m \in DOMAIN services \cap DOMAIN services' : \A w : w.name = m => (w \in stale' <=> w \in stale)
    BY <1>2
  <2>3. \A m, j : Found(m, j) /\ Found(m, j)' => services[m].interfaces[j] \subseteq services'[m].interfaces[j]
    OBVIOUS
  <2>4. \A m \in DOMAIN services \cap DOMAIN services' :
          services'[m].host = services[m].host /\ services'[m].txt = services[m].txt
    OBVIOUS
  <2>. QED BY <1>2, <1>5, <1>7, <1>8, <1>9, <1>10, <1>11, <2>1, <2>2, <2>3, <2>4, Processed
<1>. QED BY <1>7, <1>12 DEF BrowserInv

LEMMA ServiceRemovedStep ==
  ASSUME DnsInv, replies # <<>>, NEW n \in Names, NEW i,
         replies[1].query = Browse, ~replies[1].add, replies[1].what = <<n, i>>,
         ServiceRemoved(n, i), UNCHANGED <<network, subscribers, enabled>>
  PROVE  DnsInv'
<1>1. Found(n, i)
  <2>1. PICK from, to : (\A m, j : <<m, j>> \in from <=> Found(m, j)) /\ Heard(from, replies[1], to)
    BY FirstHeard
  <2>. QED BY <2>1 DEF Heard
<1>2. n \in DOMAIN services /\ i \in DOMAIN services[n].interfaces BY <1>1 DEF Found
<1>3. /\ registered' = registered /\ nextId' = nextId /\ subscribers' = subscribers /\ enabled' = enabled
      /\ stale' = stale
  BY DEF ServiceRemoved, network
<1>4. AdvertiserInv' BY <1>3 DEF DnsInv, AdvertiserInv
<1>5. PICK kept : kept = DOMAIN queries \ {Resolver(n, i), Addresser(n, i)} OBVIOUS
<1>9. ASSUME queries' = Kept(kept), replies' = Unanswered(kept)
      PROVE  /\ \A q : q \in kept <=> q \in DOMAIN queries /\ q # Resolver(n, i) /\ q # Addresser(n, i)
             /\ \A q : q \in DOMAIN queries' <=> q \in kept
             /\ \A q \in kept : queries'[q] = queries[q]
             /\ Rests(replies', kept)
  BY <1>5, <1>9, FirstReply, UnansweredRests DEF Kept
<1>6. DOMAIN services[n] = {"host", "txt", "interfaces"} BY <1>2 DEF DnsInv, BrowserInv, ServicesInv
<1>7. CASE DOMAIN services[n].interfaces \ {i} # {}
  <2>1. /\ services' = [services EXCEPT ![n].interfaces = Restrict(@, DOMAIN @ \ {i})]
        /\ queries' = Kept(kept) /\ replies' = Unanswered(kept) /\ known' = known
    BY <1>5, <1>7 DEF ServiceRemoved, RemoveInterface, Of, Resolver, Addresser
  <2>2. /\ DOMAIN services' = DOMAIN services
        /\ \A m \in DOMAIN services : m # n => services'[m] = services[m]
        /\ DOMAIN services'[n] = {"host", "txt", "interfaces"}
        /\ services'[n].host = services[n].host /\ services'[n].txt = services[n].txt
        /\ DOMAIN services'[n].interfaces = DOMAIN services[n].interfaces \ {i}
        /\ \A j \in DOMAIN services[n].interfaces \ {i} : services'[n].interfaces[j] = services[n].interfaces[j]
    BY <1>2, <1>6, <2>1 DEF Restrict
  <2>3. \A m, j : Found(m, j)' <=> Found(m, j) /\ ~(m = n /\ j = i) BY <1>2, <2>2 DEF Found
  <2>4. ServicesInv'
    <3>1. ASSUME NEW m \in DOMAIN services, m # n
          PROVE  m \in Names /\ DOMAIN services'[m] = {"host", "txt", "interfaces"} /\ DOMAIN services'[m].interfaces # {}
      BY <2>2, <3>1 DEF DnsInv, BrowserInv, ServicesInv
    <3>. QED BY <1>7, <2>2, <3>1 DEF ServicesInv
  <2>5. \A m \in DOMAIN services : services'[m].host = services[m].host /\ services'[m].txt = services[m].txt
    BY <2>2
  <2>6. \A m, j : Found(m, j)' => services[m].interfaces[j] \subseteq services'[m].interfaces[j]
    BY <2>2 DEF Found
  <2>7. BrowserInv' BY <1>3, <1>9, <2>1, <2>2, <2>3, <2>4, <2>5, <2>6, Gone
  <2>8. SubscribersInv'
    <3>1. Resolved' = Resolved BY <2>2, <2>5 DEF Resolved
    <3>. QED BY <1>3, <2>1, <2>5, <3>1, SameSessions DEF DnsInv, Resolved
  <2>. QED BY <1>4, <2>7, <2>8 DEF DnsInv
<1>8. CASE DOMAIN services[n].interfaces \ {i} = {}
  <2>1. {q \in DOMAIN queries : q.name # n} = kept
    <3>1. ASSUME NEW q \in DOMAIN queries PROVE q.name # n <=> q \notin {Resolver(n, i), Addresser(n, i)}
      <4>1. CASE q = Browse BY <4>1, QueriesDiffer, NamesAssumption
      <4>2. CASE q # Browse
        <5>1. PICK m, j : Found(m, j) /\ q \in {Resolver(m, j), Addresser(m, j)}
          BY <4>2 DEF DnsInv, BrowserInv, QueriesInv
        <5>2. q.name = m BY <5>1, QueriesDiffer
        <5>3. m = n => j = i BY <1>8, <5>1 DEF Found
        <5>. QED BY <5>1, <5>2, <5>3, QueriesDiffer
      <4>. QED BY <4>1, <4>2
    <3>. QED BY <1>5, <3>1
  <2>2. /\ services' = Restrict(services, DOMAIN services \ {n})
        /\ queries' = Kept(kept) /\ replies' = Unanswered(kept) /\ known' = Forgotten({n})
    BY <1>8, <2>1 DEF ServiceRemoved
  <2>3. /\ DOMAIN services' = DOMAIN services \ {n}
        /\ \A m \in DOMAIN services' : services'[m] = services[m]
    BY <2>2 DEF Restrict
  <2>4. \A m, j : Found(m, j)' <=> Found(m, j) /\ ~(m = n /\ j = i) BY <1>8, <2>3 DEF Found
  <2>5. ServicesInv' BY <2>3 DEF ServicesInv, DnsInv, BrowserInv
  <2>6. \A m \in DOMAIN services \cap DOMAIN services' :
          services'[m].host = services[m].host /\ services'[m].txt = services[m].txt
    BY <2>3
  <2>7. \A m, j : Found(m, j)' => services[m].interfaces[j] \subseteq services'[m].interfaces[j]
    BY <2>3 DEF Found
  <2>8. BrowserInv' BY <1>3, <1>9, <2>2, <2>4, <2>5, <2>6, <2>7, Gone
  <2>9. Resolved' = Resolved \ {n} BY <2>3 DEF Resolved
  <2>10. ASSUME NEW s \in Range(subscribers)
         PROVE  known'[s] = [m \in Resolved' |-> Description(services[m])']
    <3>1. s \in Subscribers /\ known[s] = [m \in Resolved |-> Description(services[m])]
      BY <2>10 DEF DnsInv, SubscribersInv, SubscribersKnowSessions
    <3>2. known'[s] = Restrict(known[s], DOMAIN known[s] \ {n}) BY <2>2, <2>10, <3>1 DEF Forgotten
    <3>3. known'[s] = [m \in Resolved \ {n} |-> known[s][m]] BY <3>1, <3>2 DEF Restrict
    <3>4. \A m \in Resolved \ {n} : known[s][m] = Description(services[m])' 
      BY <2>3, <3>1 DEF Description, Resolved
    <3>. QED BY <2>9, <3>3, <3>4
  <2>11. DOMAIN known' = Subscribers BY <2>2 DEF Forgotten
  <2>12. SubscribersInv' BY <1>3, <2>10, <2>11 DEF DnsInv, SubscribersInv, SubscribersKnowSessions
  <2>. QED BY <1>4, <2>8, <2>12 DEF DnsInv
<1>. QED BY <1>7, <1>8

LEMMA ServiceResolvedStep ==
  ASSUME DnsInv, replies # <<>>, NEW n, NEW i, NEW o, replies[1].query = Resolver(n, i), replies[1].what = o,
         ServiceResolved(n, i, o), UNCHANGED <<network, subscribers, enabled>>
  PROVE  DnsInv'
<1>1. /\ enabled /\ Browse \in DOMAIN queries /\ 1 \in 1..Len(replies) /\ Resolver(n, i) \in DOMAIN queries
      /\ Rests(Tail(replies), DOMAIN queries)
  BY FirstReply
<1>2. Found(n, i) BY <1>1, AskedIs DEF DnsInv, BrowserInv
<1>3. n \in DOMAIN services /\ DOMAIN services[n] = {"host", "txt", "interfaces"}
  BY <1>2 DEF Found, DnsInv, BrowserInv, ServicesInv
<1>4. OfferOf(n, o) BY <1>1 DEF DnsInv, BrowserInv, TracedInv
<1>5. PICK service : service = [services[n] EXCEPT !.host = o.host, !.txt = o.txt] OBVIOUS
<1>6. /\ DOMAIN service = {"host", "txt", "interfaces"} /\ service.host = o.host /\ service.txt = o.txt
      /\ service.interfaces = services[n].interfaces
  BY <1>3, <1>5
<1>7. services' = [services EXCEPT ![n] = service] /\ known' = Discovered(n, Description(service))
  BY <1>5 DEF ServiceResolved
<1>8. /\ DOMAIN services' = DOMAIN services /\ services'[n] = service
      /\ \A m \in DOMAIN services : m # n => services'[m] = services[m]
      /\ \A m \in DOMAIN services : services'[m].interfaces = services[m].interfaces
  BY <1>3, <1>6, <1>7
<1>9. \A m, j : Found(m, j)' <=> Found(m, j) BY <1>8 DEF Found
<1>10. /\ \A q : q \in DOMAIN queries' <=> q \in DOMAIN queries \/ q = Addresser(n, i)
       /\ \A q \in DOMAIN queries : queries'[q] = queries[q]
       /\ Addresser(n, i) \notin DOMAIN queries => queries'[Addresser(n, i)] = [told |-> {}, host |-> o.host]
  BY DEF ServiceResolved, Addresser, Put
<1>11. /\ \A m, j : Resolver(m, j)' = Resolver(m, j) /\ Addresser(m, j)' = Addresser(m, j) /\ Browse' = Browse
       /\ enabled' = enabled /\ registered' = registered /\ nextId' = nextId /\ subscribers' = subscribers
       /\ stale' = stale /\ replies' = Tail(replies)
  BY DEF Resolver, Addresser, Browse, Query, network, ServiceResolved
<1>12. QueriesInv'
  <2>1. ASSUME NEW q \in DOMAIN queries'
        PROVE  /\ DOMAIN queries'[q] = {"told", "host"}
               /\ q # Browse => \E m, j : Found(m, j)' /\ q \in {Resolver(m, j), Addresser(m, j)}
    <3>1. CASE q \in DOMAIN queries BY <1>9, <1>10, <3>1 DEF DnsInv, BrowserInv, QueriesInv
    <3>2. CASE q \notin DOMAIN queries
      <4>1. q = Addresser(n, i) /\ DOMAIN queries'[q] = {"told", "host"} BY <1>10, <2>1, <3>2
      <4>. QED BY <1>2, <1>9, <4>1
    <3>. QED BY <3>1, <3>2
  <2>2. ASSUME NEW m, NEW j, Found(m, j)' PROVE Resolver(m, j) \in DOMAIN queries'
    BY <1>9, <1>10, <2>2 DEF DnsInv, BrowserInv, QueriesInv
  <2>3. enabled' /\ Browse \in DOMAIN queries' BY <1>1, <1>10, <1>11
  <2>. QED BY <1>11, <2>1, <2>2, <2>3 DEF QueriesInv
<1>13. ServicesInv'
  <2>1. ASSUME NEW m \in DOMAIN services
        PROVE  /\ m \in Names /\ DOMAIN services'[m] = {"host", "txt", "interfaces"}
               /\ DOMAIN services'[m].interfaces # {}
    BY <1>6, <1>8 DEF DnsInv, BrowserInv, ServicesInv
  <2>. QED BY <1>8, <2>1 DEF ServicesInv
<1>14. RepliesInv' /\ BrowseInv' /\ TracedInv' /\ OrderInv' /\ CurrentInv' /\ ResolvedInv' /\ HostsInv' /\ AddressInv'
  <2>1. PICK kept : kept = DOMAIN queries OBVIOUS
  <2>2. Rests(replies', kept) BY <1>1, <1>11, <2>1
  <2>3. /\ kept \subseteq DOMAIN queries /\ Browse \in kept /\ kept \subseteq DOMAIN queries'
        /\ \A p \in kept : queries'[p] = queries[p]
    BY <1>1, <1>10, <2>1
  <2>4. \A p \in DOMAIN queries' : p \notin kept => p = Addresser(n, i) /\ queries'[p] = [told |-> {}, host |-> o.host]
    BY <1>10, <2>1
  <2>5. \E to : (\A m, j : <<m, j>> \in to <=> Found(m, j)') /\ Leads(to, replies', queries[Browse].told)
    <3>1. PICK from, to :
            /\ \A m, j : <<m, j>> \in from <=> Found(m, j)
            /\ Heard(from, replies[1], to)
            /\ \A m, k : Browse \in k /\ Rests(m, k) => Leads(to, m, queries[Browse].told)
      BY FirstHeard
    <3>2. to = from BY <3>1, QueriesDiffer DEF Heard
    <3>. QED BY <1>9, <2>2, <2>3, <3>1, <3>2
  <2>6. \A m \in DOMAIN services \cap DOMAIN services' :
          IF ForName(replies[1], m)
          THEN services'[m].host = replies[1].what.host /\ services'[m].txt = replies[1].what.txt
          ELSE services'[m].host = services[m].host /\ services'[m].txt = services[m].txt
    <3>1. \A m : ForName(replies[1], m) <=> m = n BY QueriesDiffer DEF ForName
    <3>. QED BY <1>6, <1>8, <3>1
  <2>7. \A m, j : replies[1].query # Addresser(m, j) BY QueriesDiffer
  <2>8. ASSUME NEW m, NEW j, replies[1].query = Resolver(m, j) PROVE Addresser(m, j) \in DOMAIN queries'
    <3>1. Resolver(n, i) = Resolver(m, j) BY <2>8
    <3>2. m = n /\ j = i BY <3>1, QueriesDiffer
    <3>. QED BY <1>10, <3>2
  <2>9. \A m, j : Addresser(m, j) \in DOMAIN queries => Addresser(m, j) \in kept BY <2>1
  <2>10. ASSUME NEW m, NEW j, Addresser(m, j) \in DOMAIN queries', Addresser(m, j) \notin kept
         PROVE  HostOf(m, queries[Addresser(m, j)].host)'
    <3>1. m = n /\ queries'[Addresser(m, j)].host = o.host BY <2>4, <2>10, QueriesDiffer
    <3>2. o \in Offers(n) \cup stale /\ o.name = n BY <1>4 DEF OfferOf
    <3>3. Offers(n)' = Offers(n) BY <1>11 DEF Offers
    <3>. QED BY <1>11, <3>1, <3>2, <3>3 DEF HostOf
  <2>11. \A m, j : Found(m, j) => services[m].interfaces[j] \subseteq services'[m].interfaces[j]
    BY <1>8 DEF Found
  <2>12. \A m \in DOMAIN services \cap DOMAIN services' : \A w : w.name = m => (w \in stale' <=> w \in stale)
    BY <1>11
  <2>13. \A p \in DOMAIN queries' : p \notin kept => queries'[p].told = {} BY <2>4
  <2>. QED BY <1>11, <1>12, <2>2, <2>3, <2>5, <2>6, <2>7, <2>8, <2>9, <2>10, <2>11, <2>12, <2>13, Processed
<1>15. SubscribersInv'
  <2>1. service.host # NoHost BY <1>4, <1>6, NamesAssumption DEF OfferOf
  <2>2. Resolved' = Resolved \cup {n} BY <1>3, <1>8, <2>1 DEF Resolved
  <2>3. DOMAIN known' = Subscribers BY <1>7 DEF Discovered
  <2>4. ASSUME NEW s \in Range(subscribers)
        PROVE  known'[s] = [m \in Resolved' |-> Description(services[m])']
    <3>1. s \in Subscribers /\ known[s] = [m \in Resolved |-> Description(services[m])]
      BY <2>4 DEF DnsInv, SubscribersInv, SubscribersKnowSessions
    <3>2. known'[s] = Put(known[s], n, Description(service)) BY <1>7, <2>4, <3>1 DEF Discovered
    <3>3. known'[s] = [m \in Resolved \cup {n} |-> IF m = n THEN Description(service) ELSE known[s][m]]
      BY <3>1, <3>2 DEF Put
    <3>4. Description(services[n])' = Description(service) BY <1>8 DEF Description
    <3>5. \A m \in Resolved : m # n => known[s][m] = Description(services[m])'
      BY <1>8, <3>1 DEF Description, Resolved
    <3>6. \A m \in Resolved \cup {n} :
            (IF m = n THEN Description(service) ELSE known[s][m]) = Description(services[m])'
      BY <3>4, <3>5
    <3>. QED BY <2>2, <3>3, <3>6
  <2>. QED BY <1>11, <2>3, <2>4 DEF DnsInv, SubscribersInv, SubscribersKnowSessions
<1>16. AdvertiserInv' BY <1>11 DEF DnsInv, AdvertiserInv
<1>. QED BY <1>12, <1>13, <1>14, <1>15, <1>16 DEF DnsInv, BrowserInv

\* A query for addresses that timed out is gone; of an address that came, the service knows afterwards.
LEMMA AddressReplyStep ==
  ASSUME DnsInv, replies # <<>>, NEW n, NEW i, NEW w, replies[1].query = Addresser(n, i), replies[1].what = w,
         AddressReply(n, i, w), UNCHANGED <<network, subscribers, enabled>>
  PROVE  DnsInv'
<1>1. /\ enabled /\ Browse \in DOMAIN queries /\ 1 \in 1..Len(replies) /\ Addresser(n, i) \in DOMAIN queries
      /\ IsList(replies) /\ Rests(Tail(replies), DOMAIN queries)
  BY FirstReply
<1>2. Found(n, i) BY <1>1, AskedIs DEF DnsInv, BrowserInv
<1>3. n \in DOMAIN services /\ DOMAIN services[n] = {"host", "txt", "interfaces"} /\ i \in DOMAIN services[n].interfaces
  BY <1>2 DEF Found, DnsInv, BrowserInv, ServicesInv
<1>4. PICK kept : kept = IF w = {} THEN DOMAIN queries \ {Addresser(n, i)} ELSE DOMAIN queries OBVIOUS
<1>5. /\ kept \subseteq DOMAIN queries /\ Browse \in kept /\ \A m, j : Found(m, j) => Resolver(m, j) \in kept
      /\ w # {} => Addresser(n, i) \in kept
      /\ \A m, j : Addresser(m, j) \in DOMAIN queries /\ ~(m = n /\ j = i) => Addresser(m, j) \in kept
  <2>1. \A m, j : Found(m, j) => Resolver(m, j) \in DOMAIN queries BY DEF DnsInv, BrowserInv, QueriesInv
  <2>2. \A m, j : Resolver(m, j) # Addresser(n, i) BY QueriesDiffer
  <2>3. \A m, j : Addresser(m, j) = Addresser(n, i) => m = n /\ j = i BY QueriesDiffer
  <2>. QED BY <1>1, <1>4, <2>1, <2>2, <2>3, QueriesDiffer
<1>6. /\ \A q : q \in DOMAIN queries' <=> q \in kept
      /\ \A q \in kept : queries'[q] = queries[q]
      /\ Rests(replies', kept)
  <2>1. CASE w = {}
    <3>1. queries' = Kept(kept) /\ replies' = Unanswered(DOMAIN queries') BY <1>4, <2>1 DEF AddressReply, Addresser
    <3>2. (DOMAIN queries') = kept /\ \A q \in kept : queries'[q] = queries[q] BY <1>5, <3>1 DEF Kept
    <3>3. Rests(replies', kept) BY <1>1, <3>1, <3>2, UnansweredRests
    <3>. QED BY <3>2, <3>3
  <2>2. CASE w # {} BY <1>1, <1>4, <2>2 DEF AddressReply
  <2>. QED BY <2>1, <2>2
<1>7. /\ DOMAIN services' = DOMAIN services
      /\ \A m \in DOMAIN services :
           /\ DOMAIN services'[m] = DOMAIN services[m]
           /\ services'[m].host = services[m].host /\ services'[m].txt = services[m].txt
           /\ DOMAIN services'[m].interfaces = DOMAIN services[m].interfaces
           /\ \A j \in DOMAIN services[m].interfaces : services[m].interfaces[j] \subseteq services'[m].interfaces[j]
      /\ w # {} => w \subseteq services'[n].interfaces[i]
  <2>1. CASE w = {}
    <3>1. services' = services BY <2>1 DEF AddressReply
    <3>. QED BY <2>1, <3>1
  <2>2. CASE w # {}
    <3>1. PICK heard, known_ : /\ heard = services[n].interfaces[i] \cup w
                               /\ known_ = [services[n].interfaces EXCEPT ![i] = heard]
      OBVIOUS
    <3>2. /\ DOMAIN known_ = DOMAIN services[n].interfaces /\ known_[i] = heard
          /\ \A j \in DOMAIN services[n].interfaces : j # i => known_[j] = services[n].interfaces[j]
      BY <1>3, <3>1
    <3>3. PICK service : service = [services[n] EXCEPT !.interfaces = known_] OBVIOUS
    <3>4. /\ DOMAIN service = DOMAIN services[n] /\ service.interfaces = known_
          /\ service.host = services[n].host /\ service.txt = services[n].txt
      BY <1>3, <3>3
    <3>5. services' = [services EXCEPT ![n] = service] BY <2>2, <3>1, <3>3 DEF AddressReply
    <3>6. /\ DOMAIN services' = DOMAIN services /\ services'[n] = service
          /\ \A m \in DOMAIN services : m # n => services'[m] = services[m]
      BY <1>3, <3>5
    <3>7. /\ w \subseteq known_[i]
          /\ \A j \in DOMAIN services[n].interfaces : services[n].interfaces[j] \subseteq known_[j]
      BY <3>1, <3>2
    <3>. QED BY <3>2, <3>4, <3>6, <3>7
  <2>. QED BY <2>1, <2>2
<1>8. \A m, j : Found(m, j)' <=> Found(m, j) BY <1>7 DEF Found
<1>9. /\ \A m, j : Resolver(m, j)' = Resolver(m, j) /\ Addresser(m, j)' = Addresser(m, j) /\ Browse' = Browse
      /\ enabled' = enabled /\ registered' = registered /\ nextId' = nextId /\ subscribers' = subscribers
      /\ stale' = stale /\ known' = known
  BY DEF Resolver, Addresser, Browse, Query, network, AddressReply
<1>10. QueriesInv'
  <2>1. ASSUME NEW q \in DOMAIN queries'
        PROVE  /\ DOMAIN queries'[q] = {"told", "host"}
               /\ q # Browse => \E m, j : Found(m, j)' /\ q \in {Resolver(m, j), Addresser(m, j)}
    <3>1. q \in DOMAIN queries /\ queries'[q] = queries[q] BY <1>5, <1>6
    <3>. QED BY <1>8, <3>1 DEF DnsInv, BrowserInv, QueriesInv
  <2>2. ASSUME NEW m, NEW j, Found(m, j)' PROVE Resolver(m, j) \in DOMAIN queries' BY <1>5, <1>6, <1>8, <2>2
  <2>3. enabled' /\ Browse \in DOMAIN queries' BY <1>1, <1>5, <1>6, <1>9
  <2>. QED BY <1>9, <2>1, <2>2, <2>3 DEF QueriesInv
<1>11. ServicesInv' BY <1>7 DEF DnsInv, BrowserInv, ServicesInv
<1>12. RepliesInv' /\ BrowseInv' /\ TracedInv' /\ OrderInv' /\ CurrentInv' /\ ResolvedInv' /\ HostsInv' /\ AddressInv'
  <2>1. kept \subseteq DOMAIN queries' /\ \A p \in DOMAIN queries' : p \notin kept => queries'[p].told = {} BY <1>6
  <2>2. \A m \in DOMAIN services \cap DOMAIN services' : \A v : v.name = m => (v \in stale' <=> v \in stale)
    BY <1>9
  <2>3. \E to : (\A m, j : <<m, j>> \in to <=> Found(m, j)') /\ Leads(to, replies', queries[Browse].told)
    <3>1. PICK from, to :
            /\ \A m, j : <<m, j>> \in from <=> Found(m, j)
            /\ Heard(from, replies[1], to)
            /\ \A m, k : Browse \in k /\ Rests(m, k) => Leads(to, m, queries[Browse].told)
      BY FirstHeard
    <3>2. to = from BY <3>1, QueriesDiffer DEF Heard
    <3>. QED BY <1>5, <1>6, <1>8, <3>1, <3>2
  <2>4. \A m \in DOMAIN services \cap DOMAIN services' :
          services'[m].host = services[m].host /\ services'[m].txt = services[m].txt
    BY <1>7
  <2>5. \A m : ~ForName(replies[1], m) BY QueriesDiffer DEF ForName
  <2>6. \A m, j : replies[1].query # Resolver(m, j) BY QueriesDiffer
  <2>7. ASSUME NEW m, NEW j, Addresser(m, j) \in DOMAIN queries PROVE Addresser(m, j) \in kept \/ TimedOut(m)
    <3>1. CASE ~(m = n /\ j = i) BY <1>5, <2>7, <3>1
    <3>2. CASE m = n /\ j = i /\ w # {} BY <1>5, <3>2
    <3>3. CASE m = n /\ w = {} BY <1>1, <3>3 DEF DnsInv, BrowserInv, AddressInv
    <3>. QED BY <3>1, <3>2, <3>3
  <2>8. \A m, j : Addresser(m, j) \in DOMAIN queries' => Addresser(m, j) \in kept BY <1>6
  <2>9. ASSUME NEW m, NEW j, Found(m, j)
        PROVE  /\ services[m].interfaces[j] \subseteq services'[m].interfaces[j]
               /\ replies[1].query = Addresser(m, j) => replies[1].what \subseteq services'[m].interfaces[j]
    <3>1. services[m].interfaces[j] \subseteq services'[m].interfaces[j] BY <1>7, <2>9 DEF Found
    <3>2. ASSUME replies[1].query = Addresser(m, j) PROVE w \subseteq services'[m].interfaces[j]
      <4>1. Addresser(n, i) = Addresser(m, j) BY <3>2
      <4>2. m = n /\ j = i BY <4>1, QueriesDiffer
      <4>3. {} \subseteq services'[m].interfaces[j] OBVIOUS
      <4>. QED BY <1>7, <4>2, <4>3
    <3>. QED BY <3>1, <3>2
  <2>. QED BY <1>5, <1>6, <1>9, <1>10, <2>1, <2>2, <2>3, <2>4, <2>5, <2>6, <2>7, <2>8, <2>9, Processed
<1>13. SubscribersInv'
  <2>1. Resolved' = Resolved BY <1>7 DEF Resolved
  <2>. QED BY <1>7, <1>9, <2>1, SameSessions DEF DnsInv, Resolved
<1>14. AdvertiserInv' BY <1>9 DEF DnsInv, AdvertiserInv
<1>. QED BY <1>10, <1>11, <1>12, <1>13, <1>14 DEF DnsInv, BrowserInv

LEMMA ProcessResultsStep ==
  ASSUME DnsInv, ProcessResults
  PROVE  DnsInv'
<1>1. replies # <<>> /\ UNCHANGED <<network, subscribers, enabled>> BY DEF ProcessResults
<1>2. Head(replies) = replies[1] /\ replies[1].query \in DOMAIN queries /\ 1 \in 1..Len(replies) BY <1>1, FirstReply
<1>3. PICK q, w : q = replies[1].query /\ w = replies[1].what OBVIOUS
<1>4. q \in DOMAIN queries BY <1>2, <1>3
<1>5. CASE q = Browse
  <2>1. PICK n \in Names : \E i : w = <<n, i>> BY <1>2, <1>3, <1>5 DEF DnsInv, BrowserInv, RepliesInv
  <2>2. PICK i : w = <<n, i>> BY <2>1
  <2>3. q.kind = "browse" /\ w[1] = n /\ w[2] = i BY <1>5, <2>2, QueriesDiffer
  <2>4. CASE replies[1].add
    <3>1. ServiceAdded(n, i) BY <1>2, <1>3, <2>3, <2>4 DEF ProcessResults
    <3>. QED BY <1>1, <1>3, <1>5, <2>2, <2>4, <3>1, ServiceAddedStep
  <2>5. CASE ~replies[1].add
    <3>1. ServiceRemoved(n, i) BY <1>2, <1>3, <2>3, <2>5 DEF ProcessResults
    <3>. QED BY <1>1, <1>3, <1>5, <2>2, <2>5, <3>1, ServiceRemovedStep
  <2>. QED BY <2>4, <2>5
<1>6. CASE q # Browse
  <2>1. PICK n, i : q \in {Resolver(n, i), Addresser(n, i)} BY <1>4, <1>6 DEF DnsInv, BrowserInv, QueriesInv
  <2>2. CASE q = Resolver(n, i)
    <3>1. q.kind = "resolve" /\ q.name = n /\ q.interface = i BY <2>2, QueriesDiffer
    <3>2. ServiceResolved(n, i, w) BY <1>2, <1>3, <3>1 DEF ProcessResults
    <3>. QED BY <1>1, <1>3, <2>2, <3>2, ServiceResolvedStep
  <2>3. CASE q = Addresser(n, i)
    <3>1. q.kind = "address" /\ q.name = n /\ q.interface = i BY <2>3, QueriesDiffer
    <3>2. AddressReply(n, i, w) BY <1>2, <1>3, <3>1 DEF ProcessResults
    <3>. QED BY <1>1, <1>3, <2>3, <3>2, AddressReplyStep
  <2>. QED BY <2>1, <2>2, <2>3
<1>. QED BY <1>5, <1>6

LEMMA DnsStep ==
  ASSUME DnsInv, [DnsNext]_dnsVars
  PROVE  DnsInv'
<1>1. ASSUME NEW name \in Names, NEW host \in Hosts, Register(name, host) PROVE DnsInv' BY <1>1, RegisterStep
<1>2. ASSUME NEW id \in DOMAIN registered, Unregister(id) PROVE DnsInv' BY <1>2, UnregisterStep
<1>3. ASSUME NEW id \in DOMAIN registered, UpdateTxtRecord(id) PROVE DnsInv' BY <1>3, UpdateTxtRecordStep
<1>4. ASSUME NEW interface \in Interfaces, InterfaceChange(interface) PROVE DnsInv' BY <1>4, InterfaceChangeStep
<1>5. ASSUME NEW host \in Hosts, AddressChange(host) PROVE DnsInv' BY <1>5, AddressChangeStep
<1>6. ASSUME NEW q \in DOMAIN queries, Answer(q) PROVE DnsInv' BY <1>6, AnswerStep
<1>7. ASSUME NEW q \in DOMAIN queries, AddressTimeout(q) PROVE DnsInv' BY <1>7, AddressTimeoutStep
<1>8. ASSUME NEW s \in Subscribers, Subscribe(s) PROVE DnsInv' BY <1>8, SubscribeStep
<1>9. ASSUME NEW s \in Subscribers, Unsubscribe(s) PROVE DnsInv' BY <1>9, UnsubscribeStep
<1>10. CASE SetSessionBrowsingEnabled BY <1>10, SetSessionBrowsingStep
<1>11. CASE ProcessResults BY <1>11, ProcessResultsStep
<1>12. CASE ProcessFails BY <1>12, ProcessFailsStep
<1>13. CASE UNCHANGED dnsVars BY <1>13, QuietStep, SubscribersStep DEF DnsInv, dnsVars, network, browser, told
<1>. QED BY <1>1, <1>2, <1>3, <1>4, <1>5, <1>6, <1>7, <1>8, <1>9, <1>10, <1>11, <1>12, <1>13 DEF DnsNext

\* Once nothing is on its way, the browser has the services that are advertised, with their last
\* offers and addresses, and at any time every subscriber of the RAVENNA browser knows the same sessions.
THEOREM DiscoveryStaysCurrent == DnsSpec => []DiscoveryIsCurrent
<1>1. DnsInv /\ [DnsNext]_dnsVars => DnsInv' BY DnsStep
<1>. QED BY <1>1, DnsStarts, DnsInvSuffices, PTL DEF DnsSpec

-----------------------------------------------------------------------------
(***************************************************************************)
(* Who is told what by a node.  What a subscriber knows of a sender, a     *)
(* receiver, the clock or the node is a matter of that part alone, so each *)
(* operator on a part keeps its subscribers informed, and a step changes   *)
(* parts with these operators.  Only for the node it matters which senders *)
(* and receivers there are.                                                *)
(***************************************************************************)
\* What the subscribers of a sender know, and that one with interfaces has an address.
SenderInformed(s) ==
  /\ s = [name |-> s.name, enabled |-> s.enabled, dst |-> s.dst, interfaces |-> s.interfaces,
          subscribers |-> s.subscribers]
  /\ \A o \in DOMAIN s.subscribers : s.subscribers[o] = SenderFacts(s)
  /\ s.dst = NoAddress => s.interfaces = NoInterfaces

\* ... of a receiver,
ReceiverInformed(r) ==
  /\ r = [enabled |-> r.enabled, auto |-> r.auto, sdp |-> r.sdp, params |-> r.params, reader |-> r.reader,
          states |-> r.states, subscribers |-> r.subscribers]
  /\ \A o \in DOMAIN r.subscribers :
       LET heard == r.subscribers[o]
       IN  /\ heard = [params |-> r.params, enabled |-> r.enabled, auto |-> r.auto, sdp |-> r.sdp,
                      states |-> heard.states, misled |-> heard.misled]
           /\ StreamsAreKnown(r, heard)

\* ... of the PTP instance,
ClockInformed(c) ==
  /\ c = [config |-> c.config, parent |-> c.parent, ports |-> c.ports, subscribers |-> c.subscribers,
          foreign |-> c.foreign]
  /\ c.parent = Own \/ c.foreign = c.parent
  /\ \A o \in DOMAIN c.subscribers :
       LET heard == c.subscribers[o]
       IN  /\ heard = [config |-> c.config, parent |-> heard.parent, ports |-> c.ports]
           /\ ParentIsKnown(c, heard.parent)

\* ... and of the node, with these senders and receivers: all but what is known of the NMOS node,
NodeTold(n, sending, receiving) ==
  /\ n = [config |-> n.config, interfaces |-> n.interfaces, nmos |-> n.nmos, status |-> n.status,
          running |-> n.running, subscribers |-> n.subscribers, since |-> n.since, nextId |-> n.nextId]
  /\ n.nmos \in NmosConfigs /\ n.running \in BOOLEAN /\ n.nmos \in n.since
  /\ \A o \in DOMAIN n.subscribers :
       LET heard == n.subscribers[o]
       IN  heard = [senders |-> sending, receivers |-> receiving, config |-> n.config,
                   interfaces |-> n.interfaces, nmos |-> heard.nmos, status |-> n.status]

\* and with that: while it runs everybody knows its configuration.
NodeInformed(n, sending, receiving) ==
  /\ NodeTold(n, sending, receiving)
  /\ n.running \/ n.status \in {"disabled", "error"}
  /\ \A o \in DOMAIN n.subscribers :
       n.subscribers[o].nmos = n.nmos \/ (~n.running /\ n.subscribers[o].nmos \in n.since)

InformedInv ==
  /\ \A id \in DOMAIN senders : SenderInformed(senders[id])
  /\ \A id \in DOMAIN receivers : ReceiverInformed(receivers[id])
  /\ ClockInformed(clock)
  /\ NodeInformed(node, DOMAIN senders, DOMAIN receivers)
  /\ saved = Unknown \/ saved.nmos \in NmosConfigs

LEMMA SenderIsTold ==
  ASSUME NEW s, s = [name |-> s.name, enabled |-> s.enabled, dst |-> s.dst, interfaces |-> s.interfaces,
                     subscribers |-> s.subscribers],
         s.dst = NoAddress => s.interfaces = NoInterfaces
  PROVE  SenderInformed(ToldOfSender(s))
BY DEF SenderInformed, ToldOfSender, SenderFacts

LEMMA SetSenderInforms ==
  ASSUME NEW s, SenderInformed(s), NEW config
  PROVE  SenderInformed(SetSender(s, config))
<1>0. PICK set : set =
        [s EXCEPT !.name = config.name, !.enabled = config.enabled, !.dst = Generated(config.dst, s.interfaces)]
  OBVIOUS
<1>1. set = [name |-> config.name, enabled |-> config.enabled, dst |-> Generated(config.dst, s.interfaces),
             interfaces |-> s.interfaces, subscribers |-> s.subscribers]
  BY <1>0 DEF SenderInformed
<1>2. set.dst = NoAddress => set.interfaces = NoInterfaces
  BY <1>1, AddressAssumption DEF Generated
<1>3. SenderInformed(ToldOfSender(set)) BY <1>1, <1>2, SenderIsTold
<1>. QED BY <1>0, <1>3 DEF SetSender

LEMMA SetSenderInterfacesInforms ==
  ASSUME NEW s, SenderInformed(s), NEW interfaces
  PROVE  SenderInformed(SetSenderInterfaces(s, interfaces))
<1>0. PICK set : set = [s EXCEPT !.interfaces = interfaces, !.dst = Generated(@, interfaces)] OBVIOUS
<1>1. set = [name |-> s.name, enabled |-> s.enabled, dst |-> Generated(s.dst, interfaces),
             interfaces |-> interfaces, subscribers |-> s.subscribers]
  BY <1>0 DEF SenderInformed
<1>2. set.dst = NoAddress => set.interfaces = NoInterfaces
  BY <1>1, AddressAssumption DEF Generated
<1>3. SenderInformed(ToldOfSender(set)) BY <1>1, <1>2, SenderIsTold
<1>4. ASSUME s.interfaces = interfaces \/ set.dst = s.dst PROVE SenderInformed(set)
  <2>1. Generated(s.dst, interfaces) = s.dst BY <1>1, <1>4 DEF Generated, SenderInformed
  <2>. QED BY <1>1, <1>2, <2>1 DEF SenderInformed, SenderFacts
<1>. QED BY <1>0, <1>3, <1>4 DEF SetSenderInterfaces

LEMMA NewSenderInforms ==
  ASSUME NEW config, NEW interfaces
  PROVE  SenderInformed(MakeSender(config, interfaces))
<1>1. SenderInformed(NewSender(interfaces))
  BY AddressAssumption DEF SenderInformed, NewSender, Generated, Nothing
<1>. QED BY <1>1, SetSenderInforms DEF MakeSender

LEMMA SubscribeToSenderInforms ==
  ASSUME NEW s, SenderInformed(s), NEW o
  PROVE  SenderInformed(SubscribeToSender(s, o))
BY DEF SenderInformed, SubscribeToSender, SenderFacts, With

LEMMA UnsubscribeFromSenderInforms ==
  ASSUME NEW s, SenderInformed(s), NEW o
  PROVE  SenderInformed(Unsubscribed(s, o))
BY DEF SenderInformed, Unsubscribed, SenderFacts, Without

LEMMA ApplyReceiverInforms ==
  ASSUME NEW r, ReceiverInformed(r), NEW config
  PROVE  ReceiverInformed(ApplyReceiver(r, config))
<1>. DEFINE params == StreamsOf[config.sdp]
            heard(facts) ==
              [facts EXCEPT !.params = IF params # r.params THEN params ELSE @,
                            !.enabled = config.enabled, !.auto = config.auto, !.sdp = config.sdp]
<1>1. PICK new, reader :
        /\ new = ApplyReceiver(r, config)
        /\ new = [r EXCEPT !.params = params, !.reader = reader,
                           !.enabled = config.enabled, !.auto = config.auto, !.sdp = config.sdp,
                           !.subscribers = [o \in DOMAIN @ |-> heard(@[o])]]
  BY DEF ApplyReceiver
<1>2. new = [enabled |-> config.enabled, auto |-> config.auto, sdp |-> config.sdp, params |-> params,
             reader |-> reader, states |-> r.states,
             subscribers |-> [o \in DOMAIN r.subscribers |-> heard(r.subscribers[o])]]
  BY <1>1 DEF ReceiverInformed
<1>3. ASSUME NEW o \in DOMAIN r.subscribers, NEW new_o, new_o = heard(r.subscribers[o])
      PROVE  new_o = [params |-> params, enabled |-> config.enabled, auto |-> config.auto, sdp |-> config.sdp,
                      states |-> r.subscribers[o].states, misled |-> r.subscribers[o].misled]
  <2>1. PICK facts, p : /\ facts = r.subscribers[o] /\ p = IF params # r.params THEN params ELSE facts.params
                        /\ new_o = [facts EXCEPT !.params = p,
                              !.enabled = config.enabled, !.auto = config.auto, !.sdp = config.sdp]
    BY <1>3
  <2>2. /\ facts = [params |-> facts.params, enabled |-> facts.enabled, auto |-> facts.auto, sdp |-> facts.sdp,
                    states |-> facts.states, misled |-> facts.misled]
        /\ facts.params = r.params
    BY <2>1 DEF ReceiverInformed
  <2>3. p = params BY <2>1, <2>2
  <2>. QED BY <2>1, <2>2, <2>3
<1>. HIDE DEF heard
<1>4. \A o \in DOMAIN r.subscribers :
        heard(r.subscribers[o]) =
          [params |-> params, enabled |-> config.enabled, auto |-> config.auto, sdp |-> config.sdp,
           states |-> r.subscribers[o].states, misled |-> r.subscribers[o].misled]
  BY <1>3
<1>5. ReceiverInformed(new) BY <1>2, <1>4 DEF ReceiverInformed, StreamsAreKnown
<1>. QED BY <1>1, <1>5

LEMMA SetReceiverInforms ==
  ASSUME NEW r, ReceiverInformed(r), NEW config
  PROVE  ReceiverInformed(SetReceiver(r, config))
BY ApplyReceiverInforms DEF SetReceiver

LEMMA NewReceiverInforms ==
  ASSUME NEW config
  PROVE  ReceiverInformed(MakeReceiver(config))
<1>1. ReceiverInformed(NewReceiver) BY DEF ReceiverInformed, NewReceiver, Nothing
<1>. QED BY <1>1, SetReceiverInforms DEF MakeReceiver

LEMMA SubscribeToReceiverInforms ==
  ASSUME NEW r, ReceiverInformed(r), NEW o
  PROVE  ReceiverInformed(SubscribeToReceiver(r, o))
<1>. DEFINE states == StatesTold(r)
            misled == {s \in Streams : StatesTold(r)[s] # r.states[s]}
            facts == [params |-> r.params, enabled |-> r.enabled, auto |-> r.auto, sdp |-> r.sdp,
                      states |-> states, misled |-> misled]
<1>1. \A s \in Streams : s \in misled \/ states[s] = r.states[s] OBVIOUS
<1>2. SubscribeToReceiver(r, o) =
        IF o \in DOMAIN r.subscribers THEN r ELSE [r EXCEPT !.subscribers = With(@, o, facts)]
  BY DEF SubscribeToReceiver
<1>. HIDE DEF misled, states
<1>. QED BY <1>1, <1>2 DEF ReceiverInformed, StreamsAreKnown, With

LEMMA UnsubscribeFromReceiverInforms ==
  ASSUME NEW r, ReceiverInformed(r), NEW o
  PROVE  ReceiverInformed(Unsubscribed(r, o))
BY DEF ReceiverInformed, StreamsAreKnown, Unsubscribed, Without

LEMMA StreamChangeInforms ==
  ASSUME NEW r, ReceiverInformed(r), NEW reader
  PROVE  ReceiverInformed([r EXCEPT !.reader = reader])
BY DEF ReceiverInformed, StreamsAreKnown

LEMMA MaintenanceInforms ==
  ASSUME NEW r, ReceiverInformed(r)
  PROVE  ReceiverInformed(MaintainReceiver(r))
<1>1. PICK states, hears :
        /\ states = Updated(r, r.states)
        /\ hears = ToldOfStates(r, r.subscribers)
  OBVIOUS
<1>2. PICK new : new = [r EXCEPT !.states = states, !.subscribers = hears] OBVIOUS
<1>3. new = MaintainReceiver(r) BY <1>1, <1>2 DEF MaintainReceiver
<1>4. new = [enabled |-> r.enabled, auto |-> r.auto, sdp |-> r.sdp, params |-> r.params, reader |-> r.reader,
             states |-> states, subscribers |-> hears]
  BY <1>2 DEF ReceiverInformed
<1>5. DOMAIN hears = DOMAIN r.subscribers BY <1>1 DEF ToldOfStates
<1>6. ASSUME NEW o \in DOMAIN hears
      PROVE  /\ hears[o] =
                  [params |-> r.params, enabled |-> r.enabled, auto |-> r.auto, sdp |-> r.sdp,
                   states |-> hears[o].states, misled |-> hears[o].misled]
             /\ \A s \in Streams : s \in hears[o].misled \/ hears[o].states[s] = states[s]
  <2>1. PICK heard, learnt, misled :
          /\ heard = r.subscribers[o] /\ learnt = Updated(r, heard.states) /\ misled = heard.misled \ Changed(r)
          /\ hears[o] = [heard EXCEPT !.states = learnt, !.misled = misled]
    BY <1>1, <1>5 DEF ToldOfStates
  <2>2. /\ heard = [params |-> r.params, enabled |-> r.enabled, auto |-> r.auto, sdp |-> r.sdp,
                    states |-> heard.states, misled |-> heard.misled]
        /\ \A s \in Streams : s \in heard.misled \/ heard.states[s] = r.states[s]
    BY <1>5, <2>1 DEF ReceiverInformed, StreamsAreKnown
  <2>3. PICK before, wrong :
          heard = [params |-> r.params, enabled |-> r.enabled, auto |-> r.auto, sdp |-> r.sdp,
                   states |-> before, misled |-> wrong]
    BY <2>2
  <2>4. hears[o] = [params |-> r.params, enabled |-> r.enabled, auto |-> r.auto, sdp |-> r.sdp,
                    states |-> learnt, misled |-> misled]
    <3>1. hears[o] = [heard EXCEPT !.states = learnt, !.misled = misled] BY <2>1
    <3>2. PICK params, on, auto, sdp :
            /\ heard = [params |-> params, enabled |-> on, auto |-> auto, sdp |-> sdp,
                        states |-> before, misled |-> wrong]
            /\ params = r.params /\ on = r.enabled /\ auto = r.auto /\ sdp = r.sdp
      BY <2>3
    <3>3. hears[o] = [params |-> params, enabled |-> on, auto |-> auto, sdp |-> sdp,
                      states |-> learnt, misled |-> misled]
      BY ONLY <3>1, <3>2
    <3>. QED BY <3>2, <3>3
  <2>5. ASSUME NEW s \in Streams, s \notin misled PROVE learnt[s] = states[s]
    BY <1>1, <2>1, <2>2, <2>5 DEF Updated
  <2>6. hears[o].states = learnt /\ hears[o].misled = misled BY <2>4
  <2>. QED BY <2>4, <2>5, <2>6
<1>7. ReceiverInformed(new) BY <1>4, <1>6 DEF ReceiverInformed, StreamsAreKnown
<1>. QED BY <1>3, <1>7

LEMMA SetPortsInforms ==
  ASSUME NEW c, ClockInformed(c), NEW ports
  PROVE  ClockInformed(SetPorts(c, ports))
<1>1. PICK new, hears :
        /\ hears = [o \in DOMAIN c.subscribers |-> [c.subscribers[o] EXCEPT !.ports = ports]]
        /\ new = [c EXCEPT !.ports = ports, !.subscribers = hears]
  OBVIOUS
<1>2. new = SetPorts(c, ports) BY <1>1 DEF SetPorts
<1>3. new = [config |-> c.config, parent |-> c.parent, ports |-> ports, subscribers |-> hears, foreign |-> c.foreign]
  BY <1>1 DEF ClockInformed
<1>4. ASSUME NEW o \in DOMAIN hears
      PROVE  /\ hears[o] = [config |-> c.config, parent |-> hears[o].parent, ports |-> ports]
             /\ ParentIsKnown(c, hears[o].parent)
  BY <1>1 DEF ClockInformed
<1>5. ClockInformed(new) BY <1>3, <1>4 DEF ClockInformed, ParentIsKnown
<1>. QED BY <1>2, <1>5

LEMMA UpdatePortsInforms ==
  ASSUME NEW c, ClockInformed(c), NEW interfaces
  PROVE  ClockInformed(UpdatePorts(c, interfaces))
BY SetPortsInforms DEF UpdatePorts

LEMMA SetClockConfigurationInforms ==
  ASSUME NEW c, ClockInformed(c), NEW config
  PROVE  ClockInformed(SetClockConfiguration(c, config))
<1>1. PICK new, hears :
        /\ hears = [o \in DOMAIN c.subscribers |-> [c.subscribers[o] EXCEPT !.config = config]]
        /\ new = [c EXCEPT !.config = config, !.subscribers = hears]
  OBVIOUS
<1>2. new = SetClockConfiguration(c, config) BY <1>1 DEF SetClockConfiguration
<1>3. new = [config |-> config, parent |-> c.parent, ports |-> c.ports, subscribers |-> hears, foreign |-> c.foreign]
  BY <1>1 DEF ClockInformed
<1>4. ASSUME NEW o \in DOMAIN hears
      PROVE  /\ hears[o] = [config |-> config, parent |-> hears[o].parent, ports |-> c.ports]
             /\ ParentIsKnown(c, hears[o].parent)
  BY <1>1 DEF ClockInformed
<1>5. ClockInformed(new) BY <1>3, <1>4 DEF ClockInformed, ParentIsKnown
<1>. QED BY <1>2, <1>5

LEMMA SetParentInforms ==
  ASSUME NEW c, ClockInformed(c), NEW parent
  PROVE  ClockInformed(SetParent(c, parent))
<1>1. CASE parent = c.parent BY <1>1 DEF SetParent
<1>2. CASE parent # c.parent /\ parent = Own
  <2>1. PICK new : new = [c EXCEPT !.parent = parent] OBVIOUS
  <2>2. new = SetParent(c, parent) BY <1>2, <2>1 DEF SetParent
  <2>3. new = [config |-> c.config, parent |-> parent, ports |-> c.ports, subscribers |-> c.subscribers,
               foreign |-> c.foreign]
    BY <2>1 DEF ClockInformed
  <2>4. ClockInformed(new) BY <1>2, <2>3 DEF ClockInformed, ParentIsKnown
  <2>. QED BY <2>2, <2>4
<1>3. CASE parent # c.parent /\ parent # Own
  <2>1. PICK new, hears :
          /\ hears = [o \in DOMAIN c.subscribers |-> [c.subscribers[o] EXCEPT !.parent = parent]]
          /\ new = [c EXCEPT !.parent = parent, !.foreign = parent, !.subscribers = hears]
    OBVIOUS
  <2>2. new = SetParent(c, parent) BY <1>3, <2>1 DEF SetParent
  <2>3. new = [config |-> c.config, parent |-> parent, ports |-> c.ports, subscribers |-> hears, foreign |-> parent]
    BY <2>1 DEF ClockInformed
  <2>4. ASSUME NEW o \in DOMAIN hears
        PROVE  hears[o] = [config |-> c.config, parent |-> parent, ports |-> c.ports]
    BY <2>1 DEF ClockInformed
  <2>5. ClockInformed(new) BY <2>3, <2>4 DEF ClockInformed, ParentIsKnown
  <2>. QED BY <2>2, <2>5
<1>. QED BY <1>1, <1>2, <1>3

LEMMA SubscribeToClockInforms ==
  ASSUME NEW c, ClockInformed(c), NEW o
  PROVE  ClockInformed(SubscribeToClock(c, o)) /\ ClockInformed(Unsubscribed(c, o))
<1>1. ClockInformed(SubscribeToClock(c, o)) BY DEF ClockInformed, ParentIsKnown, SubscribeToClock, With
<1>2. ClockInformed(Unsubscribed(c, o)) BY DEF ClockInformed, ParentIsKnown, Unsubscribed, Without
<1>. QED BY <1>1, <1>2

-----------------------------------------------------------------------------
\* Everybody is told a field: the others remain.
LEMMA SetStatusTells ==
  ASSUME NEW n, NEW sending, NEW receiving, NodeTold(n, sending, receiving), NEW status
  PROVE  LET new == SetStatus(n, status)
         IN  /\ NodeTold(new, sending, receiving)
             /\ new.nmos = n.nmos /\ new.running = n.running /\ new.since = n.since /\ new.status = status
             /\ DOMAIN new.subscribers = DOMAIN n.subscribers
             /\ \A o \in DOMAIN n.subscribers : new.subscribers[o].nmos = n.subscribers[o].nmos
<1>1. CASE n.status = status BY <1>1 DEF SetStatus
<1>2. CASE n.status # status
  <2>1. PICK new, hears :
          /\ hears = [o \in DOMAIN n.subscribers |-> [n.subscribers[o] EXCEPT !.status = status]]
          /\ new = [n EXCEPT !.status = status, !.subscribers = hears]
    OBVIOUS
  <2>2. new = SetStatus(n, status) BY <1>2, <2>1 DEF SetStatus
  <2>3. new = [config |-> n.config, interfaces |-> n.interfaces, nmos |-> n.nmos, status |-> status,
               running |-> n.running, subscribers |-> hears, since |-> n.since, nextId |-> n.nextId]
    BY <2>1 DEF NodeTold
  <2>4. ASSUME NEW o \in DOMAIN hears
        PROVE  /\ hears[o] = [senders |-> sending, receivers |-> receiving, config |-> n.config,
                              interfaces |-> n.interfaces, nmos |-> hears[o].nmos, status |-> status]
               /\ o \in DOMAIN n.subscribers /\ hears[o].nmos = n.subscribers[o].nmos
    BY <2>1 DEF NodeTold
  <2>5. NodeTold(new, sending, receiving) BY <2>3, <2>4 DEF NodeTold
  <2>6. DOMAIN hears = DOMAIN n.subscribers BY <2>1
  <2>7. /\ new.nmos = n.nmos /\ new.running = n.running /\ new.since = n.since /\ new.status = status
        /\ new.subscribers = hears
    BY <2>3
  <2>. QED BY <2>2, <2>4, <2>5, <2>6, <2>7
<1>. QED BY <1>1, <1>2

LEMMA SetStatusInforms ==
  ASSUME NEW n, NEW sending, NEW receiving, NodeInformed(n, sending, receiving), NEW status,
         n.running \/ status \in {"disabled", "error"}
  PROVE  NodeInformed(SetStatus(n, status), sending, receiving)
BY SetStatusTells DEF NodeInformed

\* A new configuration of the NMOS node, while nobody is told.
LEMMA AdoptsTells ==
  ASSUME NEW n, NEW sending, NEW receiving, NodeTold(n, sending, receiving), NEW nmos \in NmosConfigs,
         NEW running \in BOOLEAN
  PROVE  LET new == Adopts(n, nmos, running)
         IN  /\ NodeTold(new, sending, receiving)
             /\ new.nmos = nmos /\ new.running = running /\ new.since = n.since \cup {nmos}
             /\ new.subscribers = n.subscribers
<1>1. PICK new, since :
        /\ since = n.since \cup {nmos}
        /\ new = [n EXCEPT !.nmos = nmos, !.running = running, !.since = since]
  OBVIOUS
<1>2. new = [config |-> n.config, interfaces |-> n.interfaces, nmos |-> nmos, status |-> n.status,
             running |-> running, subscribers |-> n.subscribers, since |-> since, nextId |-> n.nextId]
  BY <1>1 DEF NodeTold
<1>3. NodeTold(new, sending, receiving) BY <1>1, <1>2 DEF NodeTold
<1>4. new = Adopts(n, nmos, running) BY <1>1 DEF Adopts
<1>5. new.nmos = nmos /\ new.running = running /\ new.since = since /\ new.subscribers = n.subscribers BY <1>2
<1>. QED BY <1>1, <1>3, <1>4, <1>5

\* A node that does not run any more: what its subscribers know is one of those since they were told.
LEMMA HaltsInforms ==
  ASSUME NEW n, NEW sending, NEW receiving, NodeInformed(n, sending, receiving), NEW nmos \in NmosConfigs,
         NEW status \in {"disabled", "error"}
  PROVE  NodeInformed(SetStatus(Adopts(n, nmos, FALSE), status), sending, receiving)
<1>1. NodeTold(n, sending, receiving) /\ n.nmos \in n.since BY DEF NodeInformed, NodeTold
<1>2. PICK set : set = Adopts(n, nmos, FALSE) OBVIOUS
<1>3. /\ NodeTold(set, sending, receiving)
      /\ set.nmos = nmos /\ set.running = FALSE /\ set.since = n.since \cup {nmos} /\ set.subscribers = n.subscribers
  <2>1. PICK off \in BOOLEAN : off = FALSE OBVIOUS
  <2>2. /\ NodeTold(set, sending, receiving)
        /\ set.nmos = nmos /\ set.running = off /\ set.since = n.since \cup {nmos} /\ set.subscribers = n.subscribers
    <3>1. set = Adopts(n, nmos, off) BY <1>2, <2>1
    <3>. QED BY <1>1, <3>1, AdoptsTells
  <2>. QED BY <2>1, <2>2
<1>4. \A o \in DOMAIN set.subscribers : set.subscribers[o].nmos \in set.since BY <1>1, <1>3 DEF NodeInformed
<1>5. PICK new : new = SetStatus(set, status) OBVIOUS
<1>6. /\ NodeTold(new, sending, receiving)
      /\ new.running = FALSE /\ new.since = set.since /\ new.status = status
      /\ DOMAIN new.subscribers = DOMAIN set.subscribers
      /\ \A o \in DOMAIN set.subscribers : new.subscribers[o].nmos = set.subscribers[o].nmos
  BY <1>3, <1>5, SetStatusTells
<1>7. NodeInformed(new, sending, receiving) BY <1>4, <1>6 DEF NodeInformed
<1>. QED BY <1>2, <1>5, <1>7

LEMMA StopInforms ==
  ASSUME NEW n, NEW sending, NEW receiving, NodeInformed(n, sending, receiving)
  PROVE  NodeInformed(Stop(n), sending, receiving)
<1>1. PICK nmos : nmos = [n.nmos EXCEPT !.enabled = FALSE] OBVIOUS
<1>2. n.nmos \in NmosConfigs BY DEF NodeInformed, NodeTold
<1>3. nmos \in NmosConfigs BY <1>1, <1>2 DEF NmosConfigs
<1>4. Stop(n) = SetStatus(Adopts(n, nmos, FALSE), "disabled") BY <1>1 DEF Stop
<1>. QED BY <1>3, <1>4, HaltsInforms

LEMMA TellNmosInforms ==
  ASSUME NEW n, NEW sending, NEW receiving, NodeTold(n, sending, receiving),
         n.running \/ n.status \in {"disabled", "error"}
  PROVE  NodeInformed(TellNmos(n), sending, receiving)
<1>1. PICK new, hears, since :
        /\ hears = [o \in DOMAIN n.subscribers |-> [n.subscribers[o] EXCEPT !.nmos = n.nmos]]
        /\ since = {n.nmos}
        /\ new = [n EXCEPT !.since = since, !.subscribers = hears]
  OBVIOUS
<1>2. new = TellNmos(n) BY <1>1 DEF TellNmos
<1>3. new = [config |-> n.config, interfaces |-> n.interfaces, nmos |-> n.nmos, status |-> n.status,
             running |-> n.running, subscribers |-> hears, since |-> since, nextId |-> n.nextId]
  BY <1>1 DEF NodeTold
<1>4. ASSUME NEW o \in DOMAIN hears
      PROVE  hears[o] = [senders |-> sending, receivers |-> receiving, config |-> n.config,
                         interfaces |-> n.interfaces, nmos |-> n.nmos, status |-> n.status]
  BY <1>1 DEF NodeTold
<1>5. /\ new.nmos = n.nmos /\ new.status = n.status /\ new.running = n.running /\ new.subscribers = hears
      /\ new.since = since
  BY <1>3
<1>6. n.nmos \in NmosConfigs /\ n.running \in BOOLEAN /\ n.nmos \in since BY <1>1 DEF NodeTold
<1>7. NodeTold(new, sending, receiving) BY <1>3, <1>4, <1>6 DEF NodeTold
<1>8. \A o \in DOMAIN hears : hears[o].nmos = n.nmos BY <1>4
<1>9. NodeInformed(new, sending, receiving) BY <1>5, <1>7, <1>8 DEF NodeInformed
<1>. QED BY <1>2, <1>9

LEMMA SetNmosInforms ==
  ASSUME NEW n, NEW sending, NEW receiving, NodeInformed(n, sending, receiving), NEW config \in NmosConfigs,
         NEW starts \in BOOLEAN
  PROVE  NodeInformed(SetNmos(n, config, starts), sending, receiving)
<1>1. config.enabled \in BOOLEAN BY DEF NmosConfigs
<1>2. CASE config = n.nmos BY <1>2 DEF SetNmos
<1>3. CASE config # n.nmos /\ config.enabled /\ ~starts
  <2>1. SetNmos(n, config, starts) = SetStatus(Adopts(n, config, FALSE), "error")
    <3>1. (config.enabled /\ starts) = FALSE BY <1>1, <1>3
    <3>. QED BY <1>3, <3>1 DEF SetNmos
  <2>. QED BY <2>1, HaltsInforms
<1>4. CASE config # n.nmos /\ ~(config.enabled /\ ~starts)
  <2>1. PICK running \in BOOLEAN : running = (config.enabled /\ starts) BY <1>1
  <2>2. PICK status : status = IF config.enabled THEN "connecting" ELSE "disabled" OBVIOUS
  <2>3. PICK set : set = Adopts(n, config, running) OBVIOUS
  <2>4. SetNmos(n, config, starts) = TellNmos(SetStatus(set, status)) BY <1>4, <2>1, <2>2, <2>3 DEF SetNmos
  <2>5. NodeTold(n, sending, receiving) BY DEF NodeInformed
  <2>6. NodeTold(set, sending, receiving) /\ set.running = running BY <2>3, <2>5, AdoptsTells
  <2>7. PICK new : new = SetStatus(set, status) OBVIOUS
  <2>8. NodeTold(new, sending, receiving) /\ new.running = running /\ new.status = status
    BY <2>6, <2>7, SetStatusTells
  <2>9. new.running \/ new.status \in {"disabled", "error"} BY <1>1, <1>4, <2>1, <2>2, <2>8
  <2>. QED BY <2>4, <2>7, <2>8, <2>9, TellNmosInforms
<1>. QED BY <1>2, <1>3, <1>4

LEMMA SendersChangeInforms ==
  ASSUME NEW n, NEW sending, NEW receiving, NodeInformed(n, sending, receiving), NEW gone, NEW new
  PROVE  NodeInformed(SendersChange(n, gone, new), Exchanged(sending, gone, new), receiving)
<1>1. PICK now, hears :
        /\ hears = ToldOfSenders(n.subscribers, gone, new)
        /\ now = [n EXCEPT !.subscribers = hears]
  OBVIOUS
<1>2. now = SendersChange(n, gone, new) BY <1>1 DEF SendersChange
<1>3. now = [config |-> n.config, interfaces |-> n.interfaces, nmos |-> n.nmos, status |-> n.status,
             running |-> n.running, subscribers |-> hears, since |-> n.since, nextId |-> n.nextId]
  BY <1>1 DEF NodeInformed, NodeTold
<1>4. ASSUME NEW o \in DOMAIN hears
      PROVE  /\ hears[o] = [senders |-> Exchanged(sending, gone, new), receivers |-> receiving, config |-> n.config,
                            interfaces |-> n.interfaces, nmos |-> hears[o].nmos, status |-> n.status]
             /\ o \in DOMAIN n.subscribers /\ hears[o].nmos = n.subscribers[o].nmos
  BY <1>1 DEF NodeInformed, NodeTold, ToldOfSenders
<1>5. NodeInformed(now, Exchanged(sending, gone, new), receiving) BY <1>3, <1>4 DEF NodeInformed, NodeTold
<1>. QED BY <1>2, <1>5

LEMMA ReceiversChangeInforms ==
  ASSUME NEW n, NEW sending, NEW receiving, NodeInformed(n, sending, receiving), NEW gone, NEW new
  PROVE  NodeInformed(ReceiversChange(n, gone, new), sending, Exchanged(receiving, gone, new))
<1>1. PICK now, hears :
        /\ hears = ToldOfReceivers(n.subscribers, gone, new)
        /\ now = [n EXCEPT !.subscribers = hears]
  OBVIOUS
<1>2. now = ReceiversChange(n, gone, new) BY <1>1 DEF ReceiversChange
<1>3. now = [config |-> n.config, interfaces |-> n.interfaces, nmos |-> n.nmos, status |-> n.status,
             running |-> n.running, subscribers |-> hears, since |-> n.since, nextId |-> n.nextId]
  BY <1>1 DEF NodeInformed, NodeTold
<1>4. ASSUME NEW o \in DOMAIN hears
      PROVE  /\ hears[o] = [senders |-> sending, receivers |-> Exchanged(receiving, gone, new), config |-> n.config,
                            interfaces |-> n.interfaces, nmos |-> hears[o].nmos, status |-> n.status]
             /\ o \in DOMAIN n.subscribers /\ hears[o].nmos = n.subscribers[o].nmos
  BY <1>1 DEF NodeInformed, NodeTold, ToldOfReceivers
<1>5. NodeInformed(now, sending, Exchanged(receiving, gone, new)) BY <1>3, <1>4 DEF NodeInformed, NodeTold
<1>. QED BY <1>2, <1>5

LEMMA SetInterfacesOfNodeInforms ==
  ASSUME NEW n, NEW sending, NEW receiving, NodeInformed(n, sending, receiving), NEW interfaces
  PROVE  NodeInformed(SetInterfacesOfNode(n, interfaces), sending, receiving)
<1>1. PICK now, hears :
        /\ hears = [o \in DOMAIN n.subscribers |-> [n.subscribers[o] EXCEPT !.interfaces = interfaces]]
        /\ now = [n EXCEPT !.interfaces = interfaces, !.subscribers = hears]
  OBVIOUS
<1>2. now = SetInterfacesOfNode(n, interfaces) BY <1>1 DEF SetInterfacesOfNode
<1>3. now = [config |-> n.config, interfaces |-> interfaces, nmos |-> n.nmos, status |-> n.status,
             running |-> n.running, subscribers |-> hears, since |-> n.since, nextId |-> n.nextId]
  BY <1>1 DEF NodeInformed, NodeTold
<1>4. ASSUME NEW o \in DOMAIN hears
      PROVE  /\ hears[o] = [senders |-> sending, receivers |-> receiving, config |-> n.config,
                            interfaces |-> interfaces, nmos |-> hears[o].nmos, status |-> n.status]
             /\ o \in DOMAIN n.subscribers /\ hears[o].nmos = n.subscribers[o].nmos
  BY <1>1 DEF NodeInformed, NodeTold
<1>5. NodeInformed(now, sending, receiving) BY <1>3, <1>4 DEF NodeInformed, NodeTold
<1>. QED BY <1>2, <1>5

LEMMA SetConfigurationInforms ==
  ASSUME NEW n, NEW sending, NEW receiving, NodeInformed(n, sending, receiving), NEW config
  PROVE  NodeInformed(SetConfiguration(n, config), sending, receiving)
<1>1. CASE n.config = config BY <1>1 DEF SetConfiguration
<1>2. CASE n.config # config
  <2>1. PICK now, hears :
          /\ hears = [o \in DOMAIN n.subscribers |-> [n.subscribers[o] EXCEPT !.config = config]]
          /\ now = [n EXCEPT !.config = config, !.subscribers = hears]
    OBVIOUS
  <2>2. now = SetConfiguration(n, config) BY <1>2, <2>1 DEF SetConfiguration
  <2>3. now = [config |-> config, interfaces |-> n.interfaces, nmos |-> n.nmos, status |-> n.status,
               running |-> n.running, subscribers |-> hears, since |-> n.since, nextId |-> n.nextId]
    BY <2>1 DEF NodeInformed, NodeTold
  <2>4. ASSUME NEW o \in DOMAIN hears
        PROVE  /\ hears[o] = [senders |-> sending, receivers |-> receiving, config |-> config,
                              interfaces |-> n.interfaces, nmos |-> hears[o].nmos, status |-> n.status]
               /\ o \in DOMAIN n.subscribers /\ hears[o].nmos = n.subscribers[o].nmos
    BY <2>1 DEF NodeInformed, NodeTold
  <2>5. NodeInformed(now, sending, receiving) BY <2>3, <2>4 DEF NodeInformed, NodeTold
  <2>. QED BY <2>2, <2>5
<1>. QED BY <1>1, <1>2

LEMMA SubscribeToNodeInforms ==
  ASSUME NEW n, NEW sending, NEW receiving, NodeInformed(n, sending, receiving), NEW o
  PROVE  /\ NodeInformed(SubscribeToNode(n, o, sending, receiving), sending, receiving)
         /\ NodeInformed(Unsubscribed(n, o), sending, receiving)
<1>1. NodeInformed(SubscribeToNode(n, o, sending, receiving), sending, receiving)
  BY DEF NodeInformed, NodeTold, SubscribeToNode, With
<1>2. NodeInformed(Unsubscribed(n, o), sending, receiving) BY DEF NodeInformed, NodeTold, Unsubscribed, Without
<1>. QED BY <1>1, <1>2

LEMMA NextIdInforms ==
  ASSUME NEW n, NEW sending, NEW receiving, NodeInformed(n, sending, receiving), NEW count
  PROVE  NodeInformed(NextId(n, count), sending, receiving)
BY DEF NodeInformed, NodeTold, NextId

-----------------------------------------------------------------------------
LEMMA NodeDoesInforms ==
  ASSUME InformedInv, NEW n, NodeInformed(n, DOMAIN senders, DOMAIN receivers), NodeDoes(n)
  PROVE  InformedInv'
BY DEF InformedInv, NodeDoes

LEMMA ClockDoesInforms ==
  ASSUME InformedInv, NEW c, ClockInformed(c), ClockDoes(c)
  PROVE  InformedInv'
BY DEF InformedInv, ClockDoes

LEMMA SenderDoesInforms ==
  ASSUME InformedInv, NEW id \in DOMAIN senders, NEW s, SenderInformed(s), SenderDoes(id, s)
  PROVE  InformedInv'
<1>1. UNCHANGED <<receivers, node, clock, saved>> /\ senders' = [senders EXCEPT ![id] = s] BY DEF SenderDoes
<1>2. DOMAIN senders' = DOMAIN senders BY <1>1
<1>3. \A k \in DOMAIN senders : senders'[k] = IF k = id THEN s ELSE senders[k] BY <1>1
<1>4. \A k \in DOMAIN senders' : SenderInformed(senders'[k]) BY <1>2, <1>3 DEF InformedInv
<1>. QED BY <1>1, <1>2, <1>4 DEF InformedInv

LEMMA ReceiverDoesInforms ==
  ASSUME InformedInv, NEW id \in DOMAIN receivers, NEW r, ReceiverInformed(r), ReceiverDoes(id, r)
  PROVE  InformedInv'
<1>1. UNCHANGED <<senders, node, clock, saved>> /\ receivers' = [receivers EXCEPT ![id] = r] BY DEF ReceiverDoes
<1>2. DOMAIN receivers' = DOMAIN receivers BY <1>1
<1>3. \A k \in DOMAIN receivers : receivers'[k] = IF k = id THEN r ELSE receivers[k] BY <1>1
<1>4. \A k \in DOMAIN receivers' : ReceiverInformed(receivers'[k]) BY <1>2, <1>3 DEF InformedInv
<1>. QED BY <1>1, <1>2, <1>4 DEF InformedInv

LEMMA CreateSenderInforms ==
  ASSUME InformedInv, NEW config, CreateSender(config)
  PROVE  InformedInv'
<1>1. UNCHANGED <<receivers, clock, saved>> BY DEF CreateSender
<1>2. NodeInformed(NextId(node, 1), DOMAIN senders, DOMAIN receivers) BY NextIdInforms DEF InformedInv
<1>3. CASE IsValidSender(config)
  <2>1. PICK id, s : id = node.nextId /\ s = MakeSender(config, node.interfaces) OBVIOUS
  <2>2. senders' = With(senders, id, s) /\ node' = SendersChange(NextId(node, 1), {}, {id})
    BY <1>3, <2>1 DEF CreateSender
  <2>3. SenderInformed(s) BY <2>1, NewSenderInforms
  <2>4. \A k \in DOMAIN senders' : SenderInformed(senders'[k]) BY <2>2, <2>3 DEF InformedInv, With
  <2>5. DOMAIN senders' = Exchanged(DOMAIN senders, {}, {id}) BY <2>2 DEF With, Exchanged
  <2>6. NodeInformed(node', DOMAIN senders', DOMAIN receivers) BY <1>2, <2>2, <2>5, SendersChangeInforms
  <2>. QED BY <1>1, <2>4, <2>6 DEF InformedInv
<1>4. CASE ~IsValidSender(config)
  <2>1. node' = NextId(node, 1) /\ UNCHANGED senders BY <1>4 DEF CreateSender
  <2>. QED BY <1>1, <1>2, <2>1 DEF InformedInv
<1>. QED BY <1>3, <1>4

LEMMA CreateReceiverInforms ==
  ASSUME InformedInv, NEW config, CreateReceiver(config)
  PROVE  InformedInv'
<1>1. UNCHANGED <<senders, clock, saved>> BY DEF CreateReceiver
<1>2. NodeInformed(NextId(node, 1), DOMAIN senders, DOMAIN receivers) BY NextIdInforms DEF InformedInv
<1>3. PICK id, r : id = node.nextId /\ r = MakeReceiver(config) OBVIOUS
<1>4. receivers' = With(receivers, id, r) /\ node' = ReceiversChange(NextId(node, 1), {}, {id})
  BY <1>3 DEF CreateReceiver
<1>5. ReceiverInformed(r) BY <1>3, NewReceiverInforms
<1>6. \A k \in DOMAIN receivers' : ReceiverInformed(receivers'[k]) BY <1>4, <1>5 DEF InformedInv, With
<1>7. DOMAIN receivers' = Exchanged(DOMAIN receivers, {}, {id}) BY <1>4 DEF With, Exchanged
<1>8. NodeInformed(node', DOMAIN senders, DOMAIN receivers') BY <1>2, <1>4, <1>7, ReceiversChangeInforms
<1>. QED BY <1>1, <1>6, <1>8 DEF InformedInv

LEMMA RemoveSenderInforms ==
  ASSUME InformedInv, NEW id, RemoveSender(id)
  PROVE  InformedInv'
<1>1. UNCHANGED <<receivers, clock, saved>> /\ senders' = Without(senders, {id}) BY DEF RemoveSender
<1>2. \A k \in DOMAIN senders' : SenderInformed(senders'[k]) BY <1>1 DEF InformedInv, Without
<1>3. DOMAIN senders' = Exchanged(DOMAIN senders, {id}, {}) BY <1>1 DEF Without, Exchanged
<1>4. NodeInformed(node', DOMAIN senders', DOMAIN receivers)
  BY <1>3, SendersChangeInforms DEF InformedInv, RemoveSender
<1>. QED BY <1>1, <1>2, <1>4 DEF InformedInv

LEMMA RemoveReceiverInforms ==
  ASSUME InformedInv, NEW id, RemoveReceiver(id)
  PROVE  InformedInv'
<1>1. UNCHANGED <<senders, clock, saved>> /\ receivers' = Without(receivers, {id}) BY DEF RemoveReceiver
<1>2. \A k \in DOMAIN receivers' : ReceiverInformed(receivers'[k]) BY <1>1 DEF InformedInv, Without
<1>3. DOMAIN receivers' = Exchanged(DOMAIN receivers, {id}, {}) BY <1>1 DEF Without, Exchanged
<1>4. NodeInformed(node', DOMAIN senders, DOMAIN receivers')
  BY <1>3, ReceiversChangeInforms DEF InformedInv, RemoveReceiver
<1>. QED BY <1>1, <1>2, <1>4 DEF InformedInv

LEMMA AnnouncedInforms ==
  ASSUME InformedInv, NEW sdp, Announced(sdp)
  PROVE  InformedInv'
<1>1. UNCHANGED <<senders, node, clock, saved>> BY DEF Announced
<1>2. DOMAIN receivers' = DOMAIN receivers BY DEF Announced
<1>3. ASSUME NEW id \in DOMAIN receivers PROVE ReceiverInformed(receivers'[id])
  <2>1. PICK r, config : r = receivers[id] /\ config = [ReceiverFacts(r) EXCEPT !.sdp = sdp] OBVIOUS
  <2>2. ReceiverInformed(r) BY <2>1 DEF InformedInv
  <2>3. receivers'[id] = IF r.enabled /\ r.auto THEN ApplyReceiver(r, config) ELSE r BY <2>1 DEF Announced
  <2>. QED BY <2>2, <2>3, ApplyReceiverInforms
<1>. QED BY <1>1, <1>2, <1>3 DEF InformedInv

LEMMA DoMaintenanceInforms ==
  ASSUME InformedInv, DoMaintenance
  PROVE  InformedInv'
<1>1. UNCHANGED <<senders, node, clock, saved>> BY DEF DoMaintenance
<1>2. receivers' = [id \in DOMAIN receivers |-> MaintainReceiver(receivers[id])] BY DEF DoMaintenance
<1>3. \A id \in DOMAIN receivers' : ReceiverInformed(receivers'[id]) BY <1>2, MaintenanceInforms DEF InformedInv
<1>4. DOMAIN receivers' = DOMAIN receivers BY <1>2
<1>. QED BY <1>1, <1>3, <1>4 DEF InformedInv

LEMMA SetNetworkInterfaceConfigInforms ==
  ASSUME InformedInv, NEW interfaces, SetNetworkInterfaceConfig(interfaces)
  PROVE  InformedInv'
<1>1. UNCHANGED <<receivers, saved>> BY DEF SetNetworkInterfaceConfig
<1>2. CASE node.interfaces = interfaces
  <2>1. UNCHANGED <<senders, node, clock>> BY <1>2 DEF SetNetworkInterfaceConfig
  <2>. QED BY <1>1, <2>1 DEF InformedInv
<1>3. CASE node.interfaces # interfaces
  <2>1. /\ senders' = [id \in DOMAIN senders |-> SetSenderInterfaces(senders[id], interfaces)]
        /\ clock' = UpdatePorts(clock, interfaces)
        /\ node' = SetInterfacesOfNode(node, interfaces)
    BY <1>3 DEF SetNetworkInterfaceConfig
  <2>2. \A id \in DOMAIN senders' : SenderInformed(senders'[id])
    BY <2>1, SetSenderInterfacesInforms DEF InformedInv
  <2>3. DOMAIN senders' = DOMAIN senders BY <2>1
  <2>4. ClockInformed(clock') BY <2>1, UpdatePortsInforms DEF InformedInv
  <2>5. NodeInformed(node', DOMAIN senders, DOMAIN receivers) BY <2>1, SetInterfacesOfNodeInforms DEF InformedInv
  <2>. QED BY <1>1, <2>2, <2>3, <2>4, <2>5 DEF InformedInv
<1>. QED BY <1>2, <1>3

LEMMA SavedNmos ==
  ASSUME NEW sending, NEW receiving, NEW n, NEW c, NodeInformed(n, sending, receiving), NEW s, NEW r
  PROVE  Saved(s, r, n, c).nmos \in NmosConfigs
BY DEF NodeInformed, NodeTold, Saved

LEMMA SaveInforms ==
  ASSUME InformedInv, Save
  PROVE  InformedInv'
<1>1. UNCHANGED <<senders, receivers, node, clock>> BY DEF Save
<1>2. saved'.nmos \in NmosConfigs BY SavedNmos DEF InformedInv, Save
<1>. QED BY <1>1, <1>2 DEF InformedInv

LEMMA StoppedInforms ==
  ASSUME InformedInv, CanRestore, NEW starts \in BOOLEAN
  PROVE  NodeInformed(Stopped(starts), DOMAIN senders, DOMAIN receivers)
<1>1. saved.nmos \in NmosConfigs BY DEF InformedInv, CanRestore
<1>2. NodeInformed(Stop(NextId(node, SavedMembers)), DOMAIN senders, DOMAIN receivers)
  BY NextIdInforms, StopInforms DEF InformedInv
<1>. QED BY <1>1, <1>2, SetNmosInforms DEF Stopped

\* Everything old is gone, and what is new is known.
LEMMA RestoreInforms ==
  ASSUME InformedInv, RestoreSaved
  PROVE  InformedInv'
<1>1. UNCHANGED saved BY DEF RestoreSaved
<1>2. PICK s \in Renumbered(node.nextId, DOMAIN saved.senders),
           r \in Renumbered(node.nextId + Cardinality(DOMAIN saved.senders), DOMAIN saved.receivers) :
       LET stopped == Stopped(TRUE)
           same == node.interfaces = saved.interfaces
           set == IF same THEN stopped ELSE SetInterfacesOfNode(stopped, saved.interfaces)
           swapped == ReceiversChange(SendersChange(set, DOMAIN senders, DOMAIN s), DOMAIN receivers, DOMAIN r)
       IN  /\ senders' = [id \in DOMAIN s |-> MakeSender(saved.senders[s[id]], saved.interfaces)]
           /\ receivers' = [id \in DOMAIN r |-> MakeReceiver(saved.receivers[r[id]])]
           /\ node' = SetConfiguration(swapped, saved.config)
           /\ clock' = SetClockConfiguration(IF same THEN clock ELSE UpdatePorts(clock, saved.interfaces), saved.clock)
  BY DEF RestoreSaved
<1>3. \A id \in DOMAIN senders' : SenderInformed(senders'[id]) BY <1>2, NewSenderInforms
<1>4. \A id \in DOMAIN receivers' : ReceiverInformed(receivers'[id]) BY <1>2, NewReceiverInforms
<1>5. ClockInformed(clock') BY <1>2, UpdatePortsInforms, SetClockConfigurationInforms DEF InformedInv
<1>6. PICK set, n :
        /\ set = IF node.interfaces = saved.interfaces THEN Stopped(TRUE)
                 ELSE SetInterfacesOfNode(Stopped(TRUE), saved.interfaces)
        /\ n = SendersChange(set, DOMAIN senders, DOMAIN s)
  OBVIOUS
<1>7. node' = SetConfiguration(ReceiversChange(n, DOMAIN receivers, DOMAIN r), saved.config) BY <1>2, <1>6
<1>8. NodeInformed(set, DOMAIN senders, DOMAIN receivers)
  <2>1. NodeInformed(Stopped(TRUE), DOMAIN senders, DOMAIN receivers) BY StoppedInforms DEF RestoreSaved
  <2>. QED BY <1>6, <2>1, SetInterfacesOfNodeInforms
<1>9. NodeInformed(n, DOMAIN senders', DOMAIN receivers)
  <2>1. DOMAIN senders' = DOMAIN s BY <1>2
  <2>2. Exchanged(DOMAIN senders, DOMAIN senders, DOMAIN s) = DOMAIN senders' BY <2>1 DEF Exchanged
  <2>3. NodeInformed(SendersChange(set, DOMAIN senders, DOMAIN s),
                     Exchanged(DOMAIN senders, DOMAIN senders, DOMAIN s), DOMAIN receivers)
    BY <1>8, SendersChangeInforms
  <2>. QED BY <1>6, <2>2, <2>3
<1>10. NodeInformed(ReceiversChange(n, DOMAIN receivers, DOMAIN r), DOMAIN senders', DOMAIN receivers')
  <2>1. DOMAIN receivers' = DOMAIN r BY <1>2
  <2>2. Exchanged(DOMAIN receivers, DOMAIN receivers, DOMAIN r) = DOMAIN receivers' BY <2>1 DEF Exchanged
  <2>. QED BY <1>9, <2>2, ReceiversChangeInforms
<1>11. NodeInformed(node', DOMAIN senders', DOMAIN receivers') BY <1>7, <1>10, SetConfigurationInforms
<1>. QED BY <1>1, <1>3, <1>4, <1>5, <1>11 DEF InformedInv

LEMMA SubscribersStart == SubscribersInit => InformedInv
<1>. SUFFICES ASSUME SubscribersInit PROVE InformedInv
  OBVIOUS
<1>1. NodeInformed(NewNode, {}, {}) BY DEF NodeInformed, NodeTold, NewNode, NewNmos, Nothing, NmosConfigs
<1>2. ClockInformed(NewClock) BY DEF ClockInformed, NewClock, Nothing
<1>3. CASE Bare BY <1>1, <1>2, <1>3 DEF Bare, InformedInv, Nothing
<1>4. ASSUME NEW o \in Observers, Busy(o) PROVE InformedInv
  <2>1. PICK s, r :
          /\ s = MakeSender([name |-> "a", enabled |-> FALSE, dst |-> NoAddress], NoInterfaces)
          /\ r = MakeReceiver([enabled |-> TRUE, auto |-> TRUE, sdp |-> NoDescription])
    OBVIOUS
  <2>2. /\ senders = With(Nothing, 1, SubscribeToSender(s, o))
        /\ receivers = With(Nothing, 2, SubscribeToReceiver(r, o))
        /\ node = SubscribeToNode(NextId(NewNode, 2), o, {1}, {2})
        /\ clock = SubscribeToClock(NewClock, o)
        /\ saved = Saved(senders, receivers, node, clock)
    BY <1>4, <2>1 DEF Busy
  <2>3. SenderInformed(SubscribeToSender(s, o)) BY <2>1, NewSenderInforms, SubscribeToSenderInforms
  <2>4. ReceiverInformed(SubscribeToReceiver(r, o)) BY <2>1, NewReceiverInforms, SubscribeToReceiverInforms
  <2>5. DOMAIN senders = {1} /\ DOMAIN receivers = {2} BY <2>2 DEF With, Nothing
  <2>6. senders[1] = SubscribeToSender(s, o) /\ receivers[2] = SubscribeToReceiver(r, o) BY <2>2 DEF With
  <2>7. ClockInformed(clock) BY <1>2, <2>2, SubscribeToClockInforms
  <2>8. NodeInformed(NextId(NewNode, 2), {1}, {2})
    <3>1. NodeInformed(NewNode, {1}, {2}) BY DEF NodeInformed, NodeTold, NewNode, NewNmos, Nothing, NmosConfigs
    <3>. QED BY <3>1, NextIdInforms
  <2>9. NodeInformed(node, {1}, {2}) BY <2>2, <2>8, SubscribeToNodeInforms
  <2>10. saved.nmos \in NmosConfigs BY <2>2, <2>9, SavedNmos
  <2>. QED BY <2>3, <2>4, <2>5, <2>6, <2>7, <2>9, <2>10 DEF InformedInv
<1>. QED BY <1>3, <1>4 DEF SubscribersInit

LEMMA NodeStep ==
  ASSUME InformedInv, SubscribersNext
  PROVE  InformedInv'
<1>1. ASSUME NEW config, CreateSender(config) PROVE InformedInv' BY <1>1, CreateSenderInforms
<1>2. ASSUME NEW config, NEW id \in DOMAIN senders, SenderDoes(id, SetSender(senders[id], config)) PROVE InformedInv'
  BY <1>2, SetSenderInforms, SenderDoesInforms DEF InformedInv
<1>3. ASSUME NEW config, CreateReceiver(config) PROVE InformedInv' BY <1>3, CreateReceiverInforms
<1>4. ASSUME NEW config, NEW id \in DOMAIN receivers, ReceiverDoes(id, SetReceiver(receivers[id], config))
      PROVE  InformedInv'
  BY <1>4, SetReceiverInforms, ReceiverDoesInforms DEF InformedInv
<1>5. ASSUME NEW id \in DOMAIN senders, RemoveSender(id) PROVE InformedInv' BY <1>5, RemoveSenderInforms
<1>6. ASSUME NEW id \in DOMAIN senders, NEW o \in Observers, SenderDoes(id, SubscribeToSender(senders[id], o))
      PROVE  InformedInv'
  BY <1>6, SubscribeToSenderInforms, SenderDoesInforms DEF InformedInv
<1>7. ASSUME NEW id \in DOMAIN senders, NEW o \in Observers, SenderDoes(id, Unsubscribed(senders[id], o))
      PROVE  InformedInv'
  BY <1>7, UnsubscribeFromSenderInforms, SenderDoesInforms DEF InformedInv
<1>8. ASSUME NEW id \in DOMAIN receivers, RemoveReceiver(id) PROVE InformedInv' BY <1>8, RemoveReceiverInforms
<1>9. ASSUME NEW id \in DOMAIN receivers, StreamChanges(id) PROVE InformedInv'
  <2>1. PICK s, state : ReceiverDoes(id, [receivers[id] EXCEPT !.reader[s] = state]) BY <1>9 DEF StreamChanges
  <2>2. PICK reader : reader = [receivers[id].reader EXCEPT ![s] = state] OBVIOUS
  <2>3. ReceiverDoes(id, [receivers[id] EXCEPT !.reader = reader]) BY <2>1, <2>2
  <2>4. ReceiverInformed([receivers[id] EXCEPT !.reader = reader]) BY StreamChangeInforms DEF InformedInv
  <2>. QED BY <2>3, <2>4, ReceiverDoesInforms
<1>10. ASSUME NEW id \in DOMAIN receivers, NEW o \in Observers, ReceiverDoes(id, SubscribeToReceiver(receivers[id], o))
       PROVE  InformedInv'
  BY <1>10, SubscribeToReceiverInforms, ReceiverDoesInforms DEF InformedInv
<1>11. ASSUME NEW id \in DOMAIN receivers, NEW o \in Observers, ReceiverDoes(id, Unsubscribed(receivers[id], o))
       PROVE  InformedInv'
  BY <1>11, UnsubscribeFromReceiverInforms, ReceiverDoesInforms DEF InformedInv
<1>12. ASSUME NEW o \in Observers, NodeDoes(SubscribeToNode(node, o, DOMAIN senders, DOMAIN receivers))
       PROVE  InformedInv'
  BY <1>12, SubscribeToNodeInforms, NodeDoesInforms DEF InformedInv
<1>13. ASSUME NEW o \in Observers, NodeDoes(Unsubscribed(node, o)) PROVE InformedInv'
  BY <1>13, SubscribeToNodeInforms, NodeDoesInforms DEF InformedInv
<1>14. ASSUME NEW o \in Observers, ClockDoes(SubscribeToClock(clock, o)) PROVE InformedInv'
  BY <1>14, SubscribeToClockInforms, ClockDoesInforms DEF InformedInv
<1>15. ASSUME NEW o \in Observers, ClockDoes(Unsubscribed(clock, o)) PROVE InformedInv'
  BY <1>15, SubscribeToClockInforms, ClockDoesInforms DEF InformedInv
<1>16. ASSUME NEW sdp, Announced(sdp) PROVE InformedInv' BY <1>16, AnnouncedInforms
<1>17. CASE DoMaintenance BY <1>17, DoMaintenanceInforms
<1>18. ASSUME NEW interfaces, SetNetworkInterfaceConfig(interfaces) PROVE InformedInv'
  BY <1>18, SetNetworkInterfaceConfigInforms
<1>19. ASSUME NEW config, NodeDoes(SetConfiguration(node, config)) PROVE InformedInv'
  BY <1>19, SetConfigurationInforms, NodeDoesInforms DEF InformedInv
<1>20. ASSUME NEW config, ClockDoes(SetClockConfiguration(clock, config)) PROVE InformedInv'
  BY <1>20, SetClockConfigurationInforms, ClockDoesInforms DEF InformedInv
<1>21. ASSUME NEW config \in NmosConfigs, NEW starts \in BOOLEAN, NodeDoes(SetNmos(node, config, starts))
       PROVE  InformedInv'
  BY <1>21, SetNmosInforms, NodeDoesInforms DEF InformedInv
<1>22. ASSUME NEW parent, ParentChanges(parent) PROVE InformedInv'
  <2>1. CASE parent = clock.parent BY <1>22, <2>1 DEF ParentChanges, subscriberVars, InformedInv
  <2>2. CASE parent # clock.parent
    <3>1. ClockDoes(SetParent(clock, parent)) BY <1>22, <2>2 DEF ParentChanges
    <3>. QED BY <3>1, SetParentInforms, ClockDoesInforms DEF InformedInv
  <2>. QED BY <2>1, <2>2
<1>23. ASSUME NEW p, NEW state, PortChanges(p, state) PROVE InformedInv'
  BY <1>23, SetPortsInforms, ClockDoesInforms DEF PortChanges, InformedInv
<1>24. CASE RegistrationGoesOn
  <2>1. PICK status : NodeDoes(SetStatus(node, status)) BY <1>24 DEF RegistrationGoesOn
  <2>2. NodeInformed(SetStatus(node, status), DOMAIN senders, DOMAIN receivers)
    BY <1>24, SetStatusInforms DEF InformedInv, RegistrationGoesOn
  <2>. QED BY <2>1, <2>2, NodeDoesInforms
<1>25. CASE Save BY <1>25, SaveInforms
<1>26. CASE RestoreSaved BY <1>26, RestoreInforms
<1>27. CASE RestoreFails BY <1>27, StoppedInforms, NodeDoesInforms DEF RestoreFails
<1>. QED
  BY <1>1, <1>2, <1>3, <1>4, <1>5, <1>6, <1>7, <1>8, <1>9, <1>10, <1>11, <1>12, <1>13, <1>14, <1>15, <1>16, <1>17, <1>18,
     <1>19, <1>20, <1>21, <1>22, <1>23, <1>24, <1>25, <1>26, <1>27 DEF SubscribersNext

LEMMA InformedInvSuffices == InformedInv => ObserversKnowTheNode
<1>. SUFFICES ASSUME InformedInv PROVE ObserversKnowTheNode
  OBVIOUS
<1>1. ASSUME NEW id \in DOMAIN receivers, NEW o \in DOMAIN receivers[id].subscribers
      PROVE  LET heard == receivers[id].subscribers[o]
             IN  /\ heard.params = receivers[id].params /\ ReceiverFacts(heard) = ReceiverFacts(receivers[id])
                 /\ StreamsAreKnown(receivers[id], heard)
  <2>1. PICK r, heard : r = receivers[id] /\ heard = r.subscribers[o] OBVIOUS
  <2>2. ReceiverInformed(r) /\ o \in DOMAIN r.subscribers BY <2>1 DEF InformedInv
  <2>3. /\ heard = [params |-> r.params, enabled |-> r.enabled, auto |-> r.auto, sdp |-> r.sdp,
                   states |-> heard.states, misled |-> heard.misled]
        /\ StreamsAreKnown(r, heard)
    BY <2>1, <2>2 DEF ReceiverInformed
  <2>4. heard.params = r.params /\ ReceiverFacts(heard) = ReceiverFacts(r) BY <2>3 DEF ReceiverFacts
  <2>. QED BY <2>1, <2>3, <2>4
<1>2. ASSUME NEW o \in DOMAIN clock.subscribers
      PROVE  LET heard == clock.subscribers[o]
             IN  /\ heard.ports = clock.ports /\ heard.config = clock.config
                 /\ ParentIsKnown(clock, heard.parent)
  BY DEF InformedInv, ClockInformed
<1>3. ASSUME NEW o \in DOMAIN node.subscribers
      PROVE  LET heard == node.subscribers[o]
             IN  /\ heard.senders = DOMAIN senders /\ heard.receivers = DOMAIN receivers
                 /\ heard.config = node.config /\ heard.interfaces = node.interfaces /\ heard.status = node.status
                 /\ NmosIsKnown(node, heard.nmos)
  BY DEF InformedInv, NodeInformed, NodeTold, NmosIsKnown
<1>. QED BY <1>1, <1>2, <1>3 DEF ObserversKnowTheNode, InformedInv, SenderInformed

\* Whatever is set, made, removed, announced, saved and restored, and whoever subscribes when: what an
\* application was told last is what is, by the handlers of RavennaNode, RavennaSender, RavennaReceiver,
\* ptp::Instance and nmos::Node.  They do not tell the configuration of the NMOS node when that stops or
\* cannot start, the parent when that is the own clock, and at first the states of other streams than the
\* first; ObserversKnowTheNode says what an application knows of these instead.
THEOREM ObserversStayInformed == SubscribersSpec => []ObserversKnowTheNode
<1>1. InformedInv /\ [SubscribersNext]_subscriberVars => InformedInv'
  <2>1. InformedInv /\ UNCHANGED subscriberVars => InformedInv' BY DEF InformedInv, subscriberVars
  <2>. QED BY <2>1, NodeStep
<1>. QED BY <1>1, SubscribersStart, InformedInvSuffices, PTL DEF SubscribersSpec
=============================================================================
