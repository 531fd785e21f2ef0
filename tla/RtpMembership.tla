--------------------------- MODULE RtpMembership ---------------------------
(***************************************************************************)
(* The control side of rav::rtp::AudioReceiver: readers are added and      *)
(* removed and the interfaces change, and with them sockets are opened and *)
(* closed, and multicast groups joined and left.  The operating system     *)
(* keeps the memberships of a socket until it is closed.                   *)
(*                                                                         *)
(* These calls come from one thread.  The network and the audio thread     *)
(* only hold shared locks: they can make an exclusive lock time out.       *)
(***************************************************************************)
EXTENDS Integers, Sequences, SequencesExt, FiniteSets

CONSTANTS
  Ids,
  Slots,            \* how many readers there can be: the first Slots numbers
  Sessions,         \* what a stream receives: records of group, port and multicast
  Pairs,            \* the streams of a reader: sequences of sessions or NoSession
  InterfacePairs,   \* the interfaces of the two networks, or NoInterface
  NoId, NoSession, NoInterface, NoPort,
  MaxFaults         \* bound: how many calls of the system fail

ASSUME SlotsAssumption == Slots \in Nat \ {0} /\ Cardinality(Ids) >= Slots /\ NoId \notin Ids

\* Whether an address is multicast shows from the address.
ASSUME SessionsAssumption ==
  /\ NoSession \notin Sessions /\ Pairs \subseteq [1..2 -> Sessions \cup {NoSession}]
  /\ \A a \in Sessions : a.port # NoPort
  /\ \A a, b \in Sessions : a.group = b.group => a.multicast = b.multicast

\* One socket for every stream of every reader.
SocketSlots == 2 * Slots

VARIABLES
  readers,   \* id and streams of each slot, a stream with its session and interface
  sockets,   \* the port of each open socket, NoPort for a closed one
  joined,    \* external: the groups that each socket is a member of, on each interface
  crashed,   \* a socket that is not there was used
  faults,    \* history: what has failed so far
  doubled    \* history: the groups that a reader came or went with twice, as long as they are used

membershipVars == <<readers, sockets, joined, crashed, faults, doubled>>

Kinds == {"none", "join", "leave", "open", "lock reader", "lock socket"}

(***************************************************************************)
(* The helpers work on a record of the state, as several of them follow    *)
(* each other in an operation.  A fault says what fails in the operation.  *)
(***************************************************************************)
World == [readers |-> readers, sockets |-> sockets, joined |-> joined, crashed |-> crashed]

NoStream == [session |-> NoSession, interface |-> NoInterface]
FreeReader == [id |-> NoId, streams |-> <<NoStream, NoStream>>]

MembershipInit ==
  /\ readers = [r \in 1..Slots |-> FreeReader]
  /\ sockets = [s \in 1..SocketSlots |-> NoPort]
  /\ joined = {} /\ crashed = FALSE /\ faults = {} /\ doubled = {}

IsMulticast(stream) == stream.session # NoSession /\ stream.session.multicast
HasInterface(stream) == stream.interface # NoInterface
InGroup(stream, session, interface) ==
  stream.session # NoSession /\ stream.interface = interface
  /\ stream.session.group = session.group /\ stream.session.port = session.port

\* count_multicast_groups
GroupCount(w, session, interface) ==
  Cardinality({p \in (1..Slots) \X (1..2) : InGroup(w.readers[p[1]].streams[p[2]], session, interface)})

\* A group as streams share it, and that of a membership of a socket.
Key(session, interface) == [group |-> session.group, port |-> session.port, interface |-> interface]
KeyOf(w, m) == [group |-> m.group, port |-> w.sockets[m.socket], interface |-> m.interface]

\* The group that a reader has in both its streams, on one interface, and no other reader has.
TwiceBy(w, r) ==
  LET stream == w.readers[r].streams[1]
      Has(q, i) == InGroup(w.readers[q].streams[i], stream.session, stream.interface)
  IN  IF IsMulticast(stream) /\ HasInterface(stream) /\ Has(r, 2) /\ ~\E q \in (1..Slots) \ {r}, i \in 1..2 : Has(q, i)
      THEN {Key(stream.session, stream.interface)} ELSE {}

StillUsed(w, keys) ==
  {key \in keys :
     \/ \E m \in w.joined : KeyOf(w, m) = key
     \/ \E r \in 1..Slots, i \in 1..2 :
          LET stream == w.readers[r].streams[i]
          IN  IsMulticast(stream) /\ Key(stream.session, stream.interface) = key}

Becomes(w, fault, twice) ==
  /\ readers' = w.readers /\ sockets' = w.sockets /\ joined' = w.joined /\ crashed' = w.crashed
  /\ fault # "none" => Cardinality(faults) < MaxFaults
  /\ faults' = faults \cup ({fault} \ {"none"})
  /\ doubled' = StillUsed(w, doubled \cup twice)

\* find_socket
WithPort(w, port) == {s \in 1..SocketSlots : w.sockets[s] = port}

Membership(s, session, interface) == [socket |-> s, group |-> session.group, interface |-> interface]

\* find_or_create_socket: the first closed one, unless it cannot be locked or opened.
OpenSocket(w, port, fault) ==
  LET free == {s \in 1..SocketSlots : w.sockets[s] = NoPort}
  IN  IF WithPort(w, port) # {} \/ free = {} \/ fault \in {"open", "lock socket"}
      THEN w
      ELSE [w EXCEPT !.sockets[Min(free)] = port]

JoinOn(w, s, stream, fault) ==
  IF fault = "join" THEN w ELSE [w EXCEPT !.joined = @ \cup {Membership(s, stream.session, stream.interface)}]

\* Mutant of LeaveIfLast: the group is left by whoever goes first.
LeaveAlways(w, stream, fault) ==
  IF fault = "leave" THEN w
  ELSE [w EXCEPT !.joined = @ \ {Membership(s, stream.session, stream.interface) : s \in WithPort(w, stream.session.port)}]

\* leave_multicast_group_if_last
LeaveIfLast(w, stream, fault) ==
  IF GroupCount(w, stream.session, stream.interface) # 1 \/ fault = "leave" THEN w
  ELSE [w EXCEPT !.joined = @ \ {Membership(s, stream.session, stream.interface) : s \in WithPort(w, stream.session.port)}]

\* count_num_sessions_using_rtp_port
IsUsed(w, port) ==
  \E r \in 1..Slots, i \in 1..2 :
    w.readers[r].streams[i].session # NoSession /\ w.readers[r].streams[i].session.port = port

\* close_unused_sockets: closing a socket ends its memberships.
CloseUnused(w, fault) ==
  LET unused == {s \in 1..SocketSlots : w.sockets[s] # NoPort /\ ~IsUsed(w, w.sockets[s])}
  IN  IF fault = "lock socket" THEN w
      ELSE [w EXCEPT !.sockets = [s \in 1..SocketSlots |-> IF s \in unused THEN NoPort ELSE @[s]],
                     !.joined = {m \in @ : m.socket \notin unused}]
(***************************************************************************)
(* The operations                                                          *)
(***************************************************************************)

\* The last loop of setup_reader, for one stream: both streams are counted
\* already, so that the first one to join finds a count of one, and nobody joins
\* when both are in the same group on one interface.
SetUpStream(w, stream, fault) ==
  IF stream.session = NoSession THEN w
  ELSE LET o == OpenSocket(w, stream.session.port, fault)
           socket == WithPort(o, stream.session.port)
       IN  IF socket # {} /\ IsMulticast(stream) /\ HasInterface(stream)
              /\ GroupCount(o, stream.session, stream.interface) = 1
           THEN JoinOn(o, Min(socket), stream, fault)
           ELSE o

\* add_reader and setup_reader, for a format it supports: nothing that fails
\* there is reported to the caller.
AddReader ==
  \E id \in Ids, pair \in Pairs, interfaces \in InterfacePairs, fault \in {"none", "join", "open", "lock socket"} :
    LET free == {r \in 1..Slots : readers[r].id = NoId}
        streams == [i \in 1..2 |-> [session |-> pair[i], interface |-> interfaces[i]]]
        placed == [World EXCEPT !.readers[Min(free)] = [id |-> id, streams |-> streams]]
    IN  /\ ~crashed
        /\ \A r \in 1..Slots : readers[r].id # id
        /\ free # {}
        /\ Becomes(SetUpStream(SetUpStream(placed, streams[1], fault), streams[2], fault), fault, TwiceBy(placed, Min(free)))

\* The group of a stream that goes.
LeaveStream(w, stream, fault) ==
  IF IsMulticast(stream) /\ HasInterface(stream) THEN LeaveIfLast(w, stream, fault) ELSE w

\* remove_reader and reset_reader: the streams are counted until both have left.
RemoveReader ==
  \E r \in 1..Slots, fault \in {"none", "leave", "lock socket"} :
    LET left == LeaveStream(LeaveStream(World, readers[r].streams[1], fault), readers[r].streams[2], fault)
    IN  /\ ~crashed
        /\ readers[r].id # NoId
        /\ Becomes(CloseUnused([left EXCEPT !.readers[r] = FreeReader], fault), fault, TwiceBy(World, r))

\* Mutant of Rejoin: the group is joined on the new interface whoever else uses the old one.
RejoinWithoutLeave(w, r, i, interface, fault) ==
  LET stream == w.readers[r].streams[i]
      moved == [stream EXCEPT !.interface = interface]
      socket == IF IsMulticast(stream) THEN WithPort(w, stream.session.port) ELSE {}
      alone == IsMulticast(stream) /\ interface # NoInterface /\ GroupCount(w, stream.session, interface) = 0
      joins == IF alone /\ socket # {} THEN JoinOn(w, Min(socket), moved, fault) ELSE w
  IN  IF stream.interface = interface THEN w
      ELSE [joins EXCEPT !.readers[r].streams[i] = moved, !.crashed = @ \/ (alone /\ socket = {})]

\* set_interfaces, for one stream.
Rejoin(w, r, i, interface, fault) ==
  LET stream == w.readers[r].streams[i]
      left == LeaveStream(w, stream, fault)
      without == [left EXCEPT !.readers[r].streams[i].interface = NoInterface]
      moved == [stream EXCEPT !.interface = interface]
      socket == IF IsMulticast(stream) THEN WithPort(w, stream.session.port) ELSE {}
      alone == IsMulticast(stream) /\ interface # NoInterface /\ GroupCount(without, stream.session, interface) = 0
      joins == IF alone /\ socket # {} THEN JoinOn(without, Min(socket), moved, fault) ELSE without
  IN  IF stream.interface = interface THEN w
      ELSE [joins EXCEPT !.readers[r].streams[i] = moved, !.crashed = @ \/ (alone /\ socket = {})]

MoveReader(w, r, interfaces, fault) ==
  Rejoin(Rejoin(w, r, 1, interfaces[1], fault), r, 2, interfaces[2], fault)

\* The loop of set_interfaces over the readers, the free ones as well: what it
\* has come to after each of them.
ReadersMoved(interfaces, fault) ==
  LET w[r \in 0..Slots] == IF r = 0 THEN World ELSE MoveReader(w[r - 1], r, interfaces, fault)
  IN  w

\* set_interfaces.  When a reader cannot be locked it
\* returns with the readers before it changed and the sockets as they are.
SetInterfaces ==
  \E interfaces \in InterfacePairs, fault \in {"none", "join", "leave", "lock reader", "lock socket"}, upTo \in 0..Slots :
    LET moved == ReadersMoved(interfaces, fault)[upTo]
    IN  /\ ~crashed
        /\ (upTo < Slots) <=> (fault = "lock reader")
        /\ Becomes(IF fault = "lock reader" THEN moved ELSE CloseUnused(moved, fault), fault, {})

MembershipNext == AddReader \/ RemoveReader \/ SetInterfaces

MembershipSpec == MembershipInit /\ [][MembershipNext]_membershipVars

(***************************************************************************)
(* Properties                                                              *)
(***************************************************************************)
Wanted(session, interface) ==
  \E r \in 1..Slots, i \in 1..2 : InGroup(readers[r].streams[i], session, interface)

\* No group stays joined that no reader listens to any more, in whatever order
\* readers that share it came and went and moved to other interfaces, unless
\* the system refused to leave it, or the last reader had it in both its streams
\* on one interface: then each of the two finds a count of two in
\* leave_multicast_group_if_last and neither leaves.
JoinedIsWanted ==
  "leave" \notin faults =>
    \A m \in joined : KeyOf(World, m) \notin doubled =>
      \E session \in Sessions :
        session.group = m.group /\ session.port = sockets[m.socket] /\ Wanted(session, m.interface)

\* The group of every stream is joined on its interface, once for all the
\* readers that share it, unless the system refused to open a socket or to join, or
\* the first reader has it in both its streams on one interface: then each of the two
\* finds a count of two in setup_reader and neither joins.
WantedIsJoined ==
  faults \cap {"join", "open", "lock socket"} = {} =>
    \A r \in 1..Slots, i \in 1..2 :
      LET stream == readers[r].streams[i]
      IN  IsMulticast(stream) /\ HasInterface(stream) /\ Key(stream.session, stream.interface) \notin doubled =>
            \E s \in WithPort(World, stream.session.port) :
              Membership(s, stream.session, stream.interface) \in joined

\* Sockets and groups are those in use, nothing less and nothing more, also after a
\* reader that shares them came, went or was given other interfaces.  Not said of a
\* group, until it is used no more, that the only reader of it came or went with in
\* both streams on one interface, which no configuration excludes.
GroupsFollowReaders == JoinedIsWanted /\ WantedIsJoined
=============================================================================
