--------------------------- MODULE RtpLinkProofs ---------------------------
(***************************************************************************)
(* Proofs about a stream from end to end, for any ring, packet and frame   *)
(* sizes, any calls of the applications and any gaps between them:         *)
(*   - the packets that the sender makes carry the frames of their own     *)
(*     time (LinkCarriesFrames);                                           *)
(*   - the receiver's buffer shows what the network brought, silence for   *)
(*     what it did not bring, and its statistics count what came           *)
(*     (ReceiverKeeps), whatever is lost, repeated or overtaken on the     *)
(*     way.                                                                *)
(***************************************************************************)
EXTENDS RtpLink, FiniteSetTheorems, SequenceTheorems, TLAPS

-----------------------------------------------------------------------------
(* Integer division. *)

\* Products grow with a factor.
LEMMA ProductGrows ==
  ASSUME NEW a \in Int, NEW b \in Int, NEW n \in Nat, a <= b
  PROVE  a * n <= b * n
  OBVIOUS

\* Quotient and remainder make up the number.
LEMMA DivMod ==
  ASSUME NEW d \in Int, NEW n \in Nat \ {0}
  PROVE  /\ d \div n \in Int /\ d % n \in 0..(n - 1)
         /\ d = ((d \div n) * n) + (d % n)
  OBVIOUS

\* They are the only ones that do.
LEMMA DivModIs ==
  ASSUME NEW d \in Int, NEW n \in Nat \ {0}, NEW k \in Int, NEW r \in 0..(n - 1), d = k * n + r
  PROVE  d % n = r /\ d \div n = k
<1> DEFINE q == d \div n
           m == d % n
<1>1. q \in Int /\ m \in 0..(n - 1) /\ d = q * n + m
  BY DivMod
<1> HIDE DEF q, m
<1>2. ~(q < k)
  <2> SUFFICES ASSUME q + 1 <= k PROVE FALSE
    BY <1>1
  <2>1. (q + 1) * n <= k * n
    BY <1>1, ProductGrows
  <2>2. (q + 1) * n = q * n + n
    BY <1>1
  <2> QED BY <1>1, <2>1, <2>2
<1>3. ~(k < q)
  <2> SUFFICES ASSUME k + 1 <= q PROVE FALSE
    BY <1>1
  <2>1. (k + 1) * n <= q * n
    BY <1>1, ProductGrows
  <2>2. (k + 1) * n = k * n + n
    BY <1>1
  <2> QED BY <1>1, <2>1, <2>2
<1>4. q = k
  BY <1>1, <1>2, <1>3
<1>5. m = r
  BY <1>1, <1>4
<1> QED BY <1>4, <1>5 DEF q, m

\* A remainder may be taken before a subtraction.
LEMMA ModShift ==
  ASSUME NEW a \in Int, NEW b \in Int, NEW n \in Nat \ {0}
  PROVE  ((a % n) - b) % n = (a - b) % n
<1> DEFINE q == a \div n
           m == a % n
           k == (m - b) \div n
           r == (m - b) % n
<1>1. q \in Int /\ m \in 0..(n - 1) /\ a = q * n + m
  BY DivMod
<1>2. k \in Int /\ r \in 0..(n - 1) /\ m - b = k * n + r
  <2>1. m - b \in Int
    BY <1>1
  <2> HIDE DEF m
  <2> QED BY <2>1, DivMod
<1> HIDE DEF q, m, k, r
<1>3. a - b = (q + k) * n + r
  <2>1. (q + k) * n = q * n + k * n
    BY <1>1, <1>2
  <2> QED BY <1>1, <1>2, <2>1
<1>4. (a - b) % n = r
  BY <1>1, <1>2, <1>3, DivModIs
<1> QED BY <1>4 DEF r, m

-----------------------------------------------------------------------------
(***************************************************************************)
(* The sender's ring buffer                                                *)
(***************************************************************************)
Cells == SendCapacity * Bpf

\* The ring buffer: the next timestamp, and a cell for each byte.
RingOK(ring) ==
  /\ DOMAIN ring = {"capacity", "next", "cells"}
  /\ ring.capacity = SendCapacity /\ ring.next \in Nat
  /\ DOMAIN ring.cells = 0..(Cells - 1)

\* All bytes of the frame at a timestamp belong to it.
Holds(ring, t) == \A i \in 0..(Bpf - 1) : ring.cells[((t * Bpf) + i) % Cells] = t

\* A frame that is held is what read returns for its timestamp.
LEMMA HoldsFrame ==
  ASSUME NEW ring, RingOK(ring), NEW t \in Nat, Holds(ring, t)
  PROVE  FrameAt(ring, t) = {t}
<1>1. 0 \in 0..(Bpf - 1)
  BY PacketAssumption
<1>2. Size(ring) = Cells
  BY DEF RingOK, Size, Cells
<1> QED BY <1>1, <1>2 DEF FrameAt, Holds

\* Timestamps do not wrap as long as they are below the modulus.
LEMMA NoWrap ==
  ASSUME NEW a \in Nat, NEW n \in Nat, a + n < TsMod
  PROVE  Increment(TsMod, a, n) = a + n
<1>1. a + n = 0 * TsMod + (a + n) /\ a + n \in 0..(TsMod - 1) /\ a + n \in Int
  BY PacketAssumption
<1> QED BY <1>1, DivModIs, PacketAssumption DEF Increment

\* Where a byte of a frame lies, seen from the start of what is written.
LEMMA CellOffset ==
  ASSUME NEW ring, RingOK(ring), NEW ts \in Nat, NEW t \in Nat, NEW i \in 0..(Bpf - 1)
  PROVE  /\ ((t * Bpf) + i) % Cells \in 0..(Cells - 1)
         /\ Offset(ring, ts * Bpf, ((t * Bpf) + i) % Cells) = (((t - ts) * Bpf) + i) % Cells
<1>1. Bpf \in Nat \ {0} /\ Cells \in Nat \ {0}
  <2>1. 1 * Bpf <= SendCapacity * Bpf
    BY PacketAssumption, SendAssumption, ProductGrows
  <2> QED BY <2>1, PacketAssumption, SendAssumption DEF Cells
<1> DEFINE a == (t * Bpf) + i
           b == ts * Bpf
<1>2. a \in Int /\ b \in Int /\ a - b = ((t - ts) * Bpf) + i
  <2>1. (t - ts) * Bpf = t * Bpf - ts * Bpf
    BY <1>1
  <2> QED BY <1>1, <2>1
<1>3. Offset(ring, b, a % Cells) = ((a % Cells) - b) % Cells
  BY DEF Offset, RingOK, Size, Cells
<1> HIDE DEF a, b
<1>4. ((a % Cells) - b) % Cells = (a - b) % Cells
  BY <1>1, <1>2, ModShift
<1>5. a % Cells \in 0..(Cells - 1)
  BY <1>1, <1>2, DivMod
<1> QED BY <1>2, <1>3, <1>4, <1>5 DEF a, b

\* What is written is held, and what lay before it stays as far as there is room.
LEMMA WriteHolds ==
  ASSUME NEW ring, RingOK(ring), NEW ts \in Nat, NEW count \in Nat \ {0}, ring.next = ts,
         count <= SendCapacity, ts + count < TsMod, SendCapacity < TsMod \div 2,
         NEW w, w = Write(ring, ts, FramesFrom(ts, count))
  PROVE  /\ RingOK(w) /\ w.next = ts + count
         /\ \A t \in ts..(ts + count - 1) : Holds(w, t)
         /\ \A t \in Nat : ts + count - SendCapacity <= t /\ t < ts /\ Holds(ring, t) => Holds(w, t)
<1> DEFINE frames == FramesFrom(ts, count)
           At(c) == Offset(ring, ts * Bpf, c)
           end == Increment(TsMod, ts, count)
           cells == [c \in 0..(Cells - 1) |-> IF At(c) < count * Bpf THEN frames[(At(c) \div Bpf) + 1] ELSE ring.cells[c]]
<1>0. Bpf \in Nat \ {0} /\ SendCapacity \in Nat \ {0} /\ TsMod \in Nat \ {0} /\ Cells \in Nat \ {0}
  <2>1. 1 * Bpf <= SendCapacity * Bpf
    BY PacketAssumption, SendAssumption, ProductGrows
  <2> QED BY <2>1, PacketAssumption, SendAssumption DEF Cells
<1>1. Len(frames) = count /\ \A j \in 1..count : frames[j] = ts + j - 1
  <2>1. ASSUME NEW j \in 1..count PROVE Increment(TsMod, ts, j - 1) = ts + j - 1
    <3>1. j - 1 \in Nat /\ ts + (j - 1) < TsMod /\ ts + (j - 1) = ts + j - 1
      BY <1>0
    <3> QED BY <3>1, NoWrap
  <2>2. frames = [j \in 1..count |-> ts + j - 1]
    BY <2>1 DEF FramesFrom
  <2>3. frames \in [1..count -> Nat]
    BY <2>2
  <2> QED BY <2>2, <2>3
<1>2. end = ts + count /\ IsGreater(TsMod, end, ts)
  <2>1. end = ts + count
    BY NoWrap
  <2> QED BY <2>1, <1>0 DEF IsGreater, IsOlderThan, Distance
<1>3. w = [ring EXCEPT !.cells = cells, !.next = ts + count]
  <2>1. ring.cells = [c \in 0..(Cells - 1) |-> ring.cells[c]] \/ TRUE
    OBVIOUS
  <2> QED BY <1>1, <1>2 DEF Write, RingOK
<1>4. RingOK(w) /\ w.next = ts + count /\ w.cells = cells
  <2> HIDE DEF cells
  <2>1. DOMAIN cells = 0..(Cells - 1)
    BY DEF cells
  <2> QED BY <1>3, <2>1 DEF RingOK
<1>5. ASSUME NEW t \in Nat, NEW i \in 0..(Bpf - 1)
      PROVE  LET d == ((t - ts) * Bpf) + i
             IN  w.cells[((t * Bpf) + i) % Cells] =
                   IF d % Cells < count * Bpf THEN frames[((d % Cells) \div Bpf) + 1] ELSE ring.cells[((t * Bpf) + i) % Cells]
  <2> DEFINE cell == ((t * Bpf) + i) % Cells
             d == ((t - ts) * Bpf) + i
  <2>1. cell \in 0..(Cells - 1) /\ At(cell) = d % Cells
    BY CellOffset
  <2>2. cells[cell] = IF At(cell) < count * Bpf THEN frames[(At(cell) \div Bpf) + 1] ELSE ring.cells[cell]
    <3> HIDE DEF cell, frames, At
    <3> QED BY <2>1
  <2> HIDE DEF frames, cells, cell, At, d
  <2>3. w.cells[cell] = IF d % Cells < count * Bpf THEN frames[((d % Cells) \div Bpf) + 1] ELSE ring.cells[cell]
    BY <1>4, <2>1, <2>2
  <2> QED BY <2>3 DEF cell, d
<1> HIDE DEF frames, cells, end
<1>6. ASSUME NEW t \in ts..(ts + count - 1) PROVE Holds(w, t)
  <2> SUFFICES ASSUME NEW i \in 0..(Bpf - 1) PROVE w.cells[((t * Bpf) + i) % Cells] = t
    BY DEF Holds
  <2> DEFINE d == ((t - ts) * Bpf) + i
  <2>1. /\ (t - ts) * Bpf \in Nat /\ (t - ts) * Bpf <= (count - 1) * Bpf
        /\ (count - 1) * Bpf = count * Bpf - Bpf /\ count * Bpf <= SendCapacity * Bpf
    BY <1>0, ProductGrows
  <2>2. d \in 0..(Cells - 1) /\ d < count * Bpf
    BY <1>0, <2>1 DEF Cells
  <2>3. d % Cells = d
    <3>1. d = 0 * Cells + d /\ d \in Int
      BY <2>2, <1>0
    <3> HIDE DEF d
    <3> QED BY <3>1, <2>2, <1>0, DivModIs
  <2>4. d \div Bpf = t - ts
    <3>1. d = ((t - ts) * Bpf) + i /\ d \in Int /\ t - ts \in Int
      BY <2>2
    <3> HIDE DEF d
    <3> QED BY <3>1, <1>0, DivModIs
  <2>5. frames[(t - ts) + 1] = t
    BY <1>1
  <2>6. w.cells[((t * Bpf) + i) % Cells] =
        IF d % Cells < count * Bpf THEN frames[((d % Cells) \div Bpf) + 1] ELSE ring.cells[((t * Bpf) + i) % Cells]
    BY <1>5
  <2> HIDE DEF d
  <2> QED BY <2>2, <2>3, <2>4, <2>5, <2>6
<1>7. ASSUME NEW t \in Nat, ts + count - SendCapacity <= t, t < ts, Holds(ring, t) PROVE Holds(w, t)
  <2> SUFFICES ASSUME NEW i \in 0..(Bpf - 1) PROVE w.cells[((t * Bpf) + i) % Cells] = t
    BY DEF Holds
  <2> DEFINE d == ((t - ts) * Bpf) + i
             e == d + Cells
  <2>1. /\ (t - ts) * Bpf \in Int /\ (count - SendCapacity) * Bpf <= (t - ts) * Bpf
        /\ (t - ts) * Bpf <= (-1) * Bpf
    <3>1. t - ts \in Int /\ count - SendCapacity \in Int /\ -1 \in Int /\ Bpf \in Nat
      BY <1>0
    <3>2. count - SendCapacity <= t - ts /\ t - ts <= -1
      BY <1>0, <1>7
    <3>3. (count - SendCapacity) * Bpf <= (t - ts) * Bpf
      BY <3>1, <3>2, ProductGrows
    <3>4. (t - ts) * Bpf <= (-1) * Bpf
      BY <3>1, <3>2, ProductGrows
    <3> QED BY <3>1, <3>3, <3>4
  <2>2. (count - SendCapacity) * Bpf = count * Bpf - Cells /\ count * Bpf \in Nat
    BY <1>0 DEF Cells
  <2>3. e \in 0..(Cells - 1) /\ e >= count * Bpf /\ d \in Int
    BY <1>0, <2>1, <2>2
  <2>4. d % Cells = e
    <3>1. d = (-1) * Cells + e
      BY <2>3, <1>0
    <3> HIDE DEF d, e
    <3> QED BY <3>1, <2>3, <1>0, DivModIs
  <2>5. ring.cells[((t * Bpf) + i) % Cells] = t
    BY <1>7 DEF Holds
  <2>6. w.cells[((t * Bpf) + i) % Cells] =
        IF d % Cells < count * Bpf THEN frames[((d % Cells) \div Bpf) + 1] ELSE ring.cells[((t * Bpf) + i) % Cells]
    BY <1>5
  <2> HIDE DEF d, e
  <2> QED BY <2>2, <2>3, <2>4, <2>5, <2>6
<1> QED BY <1>4, <1>6, <1>7

-----------------------------------------------------------------------------
(***************************************************************************)
(* The sender                                                              *)
(***************************************************************************)

\* The packets that carry the frames of their own time.
Carrying(t, n) == [ts |-> t, seq |-> n, frames |-> [i \in 1..PacketFrames |-> {t + i - 1}]]
Packets == {Carrying(t, n) : t \in Nat, n \in Nat}

\* Times never wrap, and what waits for its packet is at most as much as there is room for,
\* between two calls at most a packet.
WaitingFits ==
  /\ scenario \in Scenarios
  /\ DOMAIN writer = {"ring", "packetTs", "seq", "outgoing"}
  /\ RingOK(writer.ring)
  /\ writer.packetTs \in Nat /\ writer.seq \in Nat
  /\ writer.packetTs <= writer.ring.next /\ writer.ring.next <= scenario.maxTs
  /\ writer.ring.next - writer.packetTs <= SendCapacity
  /\ ~sending => writer.ring.next - writer.packetTs <= PacketFrames

\* The frames from the packet that is being filled on are in their places in the ring.
WaitingIsHeld == \A t \in writer.packetTs..(writer.ring.next - 1) : Holds(writer.ring, t)

\* What has been made carries the frames of its own time.
OutgoingAndWire ==
  /\ writer.outgoing \in Seq(Packets)
  /\ \A s \in Streams : wire[s] \subseteq Packets

\* The inductive invariant.
SenderInv == WaitingFits /\ WaitingIsHeld /\ OutgoingAndWire

\* An empty ring.
LEMMA SenderInvInit == Init => SenderInv
<1> SUFFICES ASSUME Init PROVE SenderInv
  OBVIOUS
<1>1. scenario \in Scenarios /\ scenario.maxTs \in Nat
  BY ScenarioAssumption DEF Init
<1>2. RingOK(NewRing(SendCapacity)) /\ NewRing(SendCapacity).next = 0
  BY DEF RingOK, NewRing, Cells
<1>3. writer = [ring |-> NewRing(SendCapacity), packetTs |-> 0, seq |-> FirstSeq, outgoing |-> <<>>]
  BY DEF Init, SenderInit
<1>4. sending = FALSE /\ wire = [s \in Streams |-> {}]
  BY DEF Init, SenderInit
<1>5. FirstSeq \in Nat
  BY SendAssumption, PacketAssumption DEF Values
<1>6. <<>> \in Seq(Packets)
  OBVIOUS
<1>7. PacketFrames \in Nat /\ SendCapacity \in Nat
  BY PacketAssumption, SendAssumption
<1>8. /\ DOMAIN writer = {"ring", "packetTs", "seq", "outgoing"}
      /\ RingOK(writer.ring) /\ writer.ring.next = 0
      /\ writer.packetTs = 0 /\ writer.seq = FirstSeq /\ writer.outgoing = <<>>
  BY <1>2, <1>3
<1>9. \A t \in writer.packetTs..(writer.ring.next - 1) : Holds(writer.ring, t)
  BY <1>8
<1>10. writer.outgoing \in Seq(Packets)
  BY <1>6, <1>8
<1>11. \A s \in Streams : wire[s] \subseteq Packets
  BY <1>4
<1>12. WaitingFits
  BY <1>1, <1>4, <1>5, <1>7, <1>8 DEF WaitingFits
<1>13. WaitingIsHeld /\ OutgoingAndWire
  BY <1>9, <1>10, <1>11 DEF WaitingIsHeld, OutgoingAndWire
<1> QED BY <1>12, <1>13 DEF SenderInv

\* The audio of a call is behind what is left of the last packet, or starts a new one.
LEMMA SendAudioStep ==
  ASSUME SenderInv, SendAudio
  PROVE  SenderInv'
<1>1. PICK count \in scenario.sends, gap \in scenario.gaps :
        LET from == IF writer.ring.next = 0 THEN StartTs ELSE writer.ring.next + gap
        IN  from + count <= scenario.maxTs /\ Schedule(from, count)
  BY DEF SendAudio
<1> DEFINE ts == IF writer.ring.next = 0 THEN StartTs ELSE writer.ring.next + gap
           expected == writer.ring.next = ts
           before == IF expected THEN writer.ring ELSE WithNext(writer.ring, ts)
           after == Write(before, ts, FramesFrom(ts, count))
           start == IF expected THEN writer.packetTs ELSE ts
<1>2. /\ scenario \in Scenarios /\ count \in Nat \ {0} /\ gap \in Nat /\ ts \in Nat
      /\ count + PacketFrames <= SendCapacity /\ SendCapacity < TsMod \div 2
      /\ scenario.maxTs + PacketFrames < TsMod /\ scenario.maxTs \in Nat
      /\ PacketFrames \in Nat /\ SendCapacity \in Nat /\ TsMod \in Nat
  <2>1. scenario \in Scenarios /\ writer.ring.next \in Nat
    BY DEF SenderInv, WaitingFits, WaitingIsHeld, RingOK
  <2>2. StartTs \in Nat /\ scenario.gaps \subseteq Nat /\ scenario.sends \subseteq Nat \ {0}
    BY <2>1, ScenarioAssumption
  <2>3. /\ count + PacketFrames <= SendCapacity /\ SendCapacity < TsMod \div 2
        /\ scenario.maxTs + PacketFrames < TsMod /\ scenario.maxTs \in Nat
    BY <2>1, ScenarioAssumption
  <2> QED BY <2>1, <2>2, <2>3, PacketAssumption, SendAssumption
<1>3. /\ ts + count <= scenario.maxTs /\ ~sending /\ sending' = TRUE /\ wire' = wire /\ scenario' = scenario
      /\ writer' = [writer EXCEPT !.ring = Write(ClearUntil(before, ts), ts, FramesFrom(ts, count)),
                                  !.packetTs = IF expected THEN @ ELSE ts]
  BY <1>1 DEF Schedule, SendAudio, linkVars
<1>4. RingOK(before) /\ before.next = ts /\ before.cells = writer.ring.cells
  BY <1>2 DEF SenderInv, WaitingFits, RingOK, WithNext
<1>5. ClearUntil(before, ts) = before
  BY <1>4 DEF ClearUntil
<1>6. writer' = [writer EXCEPT !.ring = after, !.packetTs = start]
  <2> HIDE DEF before, ts
  <2> QED BY <1>3, <1>5 DEF SenderInv
<1>7. /\ RingOK(after) /\ after.next = ts + count
      /\ \A t \in ts..(ts + count - 1) : Holds(after, t)
      /\ \A t \in Nat : ts + count - SendCapacity <= t /\ t < ts /\ Holds(before, t) => Holds(after, t)
  <2>1. ts + count < TsMod /\ count <= SendCapacity
    BY <1>2, <1>3
  <2> HIDE DEF before, ts
  <2>2. after = Write(before, ts, FramesFrom(ts, count))
    OBVIOUS
  <2> HIDE DEF after
  <2> QED BY <1>2, <1>4, <2>1, <2>2, WriteHolds
<1>8. /\ start \in Nat /\ start <= ts /\ ts + count - start <= SendCapacity
      /\ \A t \in start..(ts - 1) : Holds(before, t)
  <2>1. CASE expected
    <3>1. start = writer.packetTs /\ before = writer.ring /\ ts = writer.ring.next
      BY <2>1
    <3> HIDE DEF start, before, ts, expected
    <3> QED BY <1>2, <1>3, <3>1 DEF SenderInv, WaitingFits, WaitingIsHeld, RingOK
  <2>2. CASE ~expected
    BY <1>2, <2>2
  <2> QED BY <2>1, <2>2
<1> HIDE DEF before, ts, after, start, expected
<1>9. \A t \in start..(ts + count - 1) : Holds(after, t)
  <2> SUFFICES ASSUME NEW t \in start..(ts + count - 1) PROVE Holds(after, t)
    OBVIOUS
  <2>1. CASE t >= ts
    BY <1>2, <1>7, <1>8, <2>1
  <2>2. CASE t < ts
    BY <1>2, <1>7, <1>8, <2>2
  <2> QED BY <2>1, <2>2, <1>2, <1>8
<1>10. /\ DOMAIN writer' = {"ring", "packetTs", "seq", "outgoing"}
       /\ writer'.ring = after /\ writer'.packetTs = start
       /\ writer'.seq = writer.seq /\ writer'.outgoing = writer.outgoing
  BY <1>6 DEF SenderInv, WaitingFits, WaitingIsHeld, OutgoingAndWire
<1>11. scenario' \in Scenarios /\ writer'.packetTs \in Nat /\ writer'.seq \in Nat /\ sending' = TRUE
  BY <1>2, <1>3, <1>8, <1>10 DEF SenderInv, WaitingFits
<1>12. /\ RingOK(writer'.ring) /\ writer'.ring.next = ts + count /\ ts + count <= scenario'.maxTs
       /\ writer'.packetTs <= ts + count /\ ts + count - writer'.packetTs <= SendCapacity
  BY <1>2, <1>3, <1>7, <1>8, <1>10
<1>13. WaitingFits'
  BY <1>2, <1>8, <1>10, <1>11, <1>12 DEF WaitingFits
<1>14. WaitingIsHeld'
  <2>1. \A t \in start..(after.next - 1) : Holds(after, t)
    BY <1>2, <1>7, <1>8, <1>9
  <2> QED BY <1>10, <2>1 DEF WaitingIsHeld
<1>15. OutgoingAndWire'
  BY <1>3, <1>10 DEF SenderInv, OutgoingAndWire
<1> QED BY <1>13, <1>14, <1>15 DEF SenderInv

\* When a packet is full.
LEMMA FullPacket ==
  ASSUME SenderInv
  PROVE  /\ PacketFrames \in Nat \ {0}
         /\ Increment(TsMod, writer.packetTs, PacketFrames) = writer.packetTs + PacketFrames
         /\ PacketIsFull <=> writer.packetTs + PacketFrames < writer.ring.next
<1>1. scenario.maxTs + PacketFrames < TsMod /\ scenario.maxTs \in Nat
  BY ScenarioAssumption DEF SenderInv, WaitingFits, WaitingIsHeld, OutgoingAndWire
<1>2. PacketFrames \in Nat \ {0} /\ TsMod \in Nat /\ SendCapacity \in Nat
  BY PacketAssumption, SendAssumption
<1>3. PacketFrames <= SendCapacity /\ SendCapacity < TsMod \div 2
  BY ScenarioAssumption
<1>4. /\ writer.packetTs \in Nat /\ writer.ring.next \in Nat /\ writer.packetTs <= writer.ring.next
      /\ writer.ring.next <= scenario.maxTs /\ writer.ring.next - writer.packetTs <= SendCapacity
  BY DEF SenderInv, WaitingFits, WaitingIsHeld, RingOK
<1>5. Increment(TsMod, writer.packetTs, PacketFrames) = writer.packetTs + PacketFrames
  <2>1. writer.packetTs + PacketFrames < TsMod
    BY <1>1, <1>2, <1>4
  <2> QED BY <2>1, <1>2, <1>4, NoWrap
<1> QED BY <1>1, <1>2, <1>3, <1>4, <1>5 DEF PacketIsFull, IsOlderThan, Distance

\* The packet that is made next carries the frames of its own time.
LEMMA NextPacketCarries ==
  ASSUME SenderInv, PacketIsFull
  PROVE  NextPacket \in Packets
<1>1. PacketFrames \in Nat \ {0} /\ writer.packetTs + PacketFrames < writer.ring.next
  BY FullPacket
<1>2. writer.packetTs \in Nat /\ writer.seq \in Nat /\ RingOK(writer.ring) /\ writer.ring.next \in Nat
  BY DEF SenderInv, WaitingFits, WaitingIsHeld, RingOK
<1>3. ASSUME NEW i \in 1..PacketFrames
      PROVE  FrameAt(writer.ring, writer.packetTs + i - 1) = {writer.packetTs + i - 1}
  <2>1. /\ writer.packetTs + i - 1 \in Nat
        /\ writer.packetTs + i - 1 \in writer.packetTs..(writer.ring.next - 1)
    BY <1>1, <1>2
  <2>2. Holds(writer.ring, writer.packetTs + i - 1)
    BY <2>1 DEF SenderInv, WaitingFits, WaitingIsHeld, OutgoingAndWire
  <2> QED BY <1>2, <2>1, <2>2, HoldsFrame
<1>4. Frames(writer.ring, writer.packetTs, PacketFrames) = [i \in 1..PacketFrames |-> {writer.packetTs + i - 1}]
  BY <1>3 DEF Frames
<1>5. NextPacket = [ts |-> writer.packetTs, seq |-> writer.seq,
                    frames |-> [i \in 1..PacketFrames |-> {writer.packetTs + i - 1}]]
  BY <1>4 DEF NextPacket
<1>6. NextPacket = Carrying(writer.packetTs, writer.seq)
  BY <1>5 DEF Carrying
<1> QED BY <1>2, <1>6 DEF Packets

\* A packet is made, there is none to make, and a packet is sent.
LEMMA SenderSteps ==
  ASSUME SenderInv, SenderStep
  PROVE  SenderInv'
<1>0. scenario' = scenario
  BY DEF SenderStep, linkVars
<1>1. CASE SchedulePacket
  <2>1. /\ NextPacket \in Packets /\ PacketFrames \in Nat \ {0}
        /\ writer.packetTs + PacketFrames < writer.ring.next
        /\ Increment(TsMod, writer.packetTs, PacketFrames) = writer.packetTs + PacketFrames
    BY <1>1, NextPacketCarries, FullPacket DEF SchedulePacket
  <2> DEFINE outgoing == IF Len(writer.outgoing) < OutgoingCapacity THEN Append(writer.outgoing, NextPacket) ELSE writer.outgoing
             seq == Increment(SeqNumMod, writer.seq, 1)
  <2>2. outgoing \in Seq(Packets)
    BY <2>1 DEF SenderInv, WaitingFits, WaitingIsHeld, OutgoingAndWire
  <2>3. seq \in Nat
    BY PacketAssumption DEF SenderInv, WaitingFits, Increment
  <2>4. writer' = [writer EXCEPT !.outgoing = outgoing, !.seq = seq, !.packetTs = writer.packetTs + PacketFrames]
    BY <1>1, <2>1 DEF SchedulePacket, SenderInv, WaitingFits
  <2>5. sending /\ sending' = sending /\ wire' = wire
    BY <1>1 DEF SchedulePacket
  <2> HIDE DEF outgoing, seq
  <2>6. /\ DOMAIN writer' = {"ring", "packetTs", "seq", "outgoing"}
        /\ writer'.ring = writer.ring /\ writer'.packetTs = writer.packetTs + PacketFrames
        /\ writer'.seq = seq /\ writer'.outgoing = outgoing
    BY <2>4 DEF SenderInv, WaitingFits, WaitingIsHeld, OutgoingAndWire
  <2>7. \A t \in (writer.packetTs + PacketFrames)..(writer.ring.next - 1) : Holds(writer.ring, t)
    BY <2>1 DEF SenderInv, WaitingFits, WaitingIsHeld, OutgoingAndWire
  <2>8. WaitingFits'
    <3>1. /\ writer.packetTs \in Nat /\ writer.ring.next \in Nat /\ writer.ring.next - writer.packetTs <= SendCapacity
          /\ scenario \in Scenarios /\ writer.ring.next <= scenario.maxTs /\ RingOK(writer.ring)
      BY DEF SenderInv, WaitingFits, RingOK
    <3>2. SendCapacity \in Nat /\ scenario.maxTs \in Nat
      BY <3>1, SendAssumption, ScenarioAssumption
    <3>3. /\ writer.packetTs + PacketFrames \in Nat
          /\ writer.packetTs + PacketFrames <= writer.ring.next
          /\ writer.ring.next - (writer.packetTs + PacketFrames) <= SendCapacity
      BY <2>1, <3>1, <3>2
    <3> QED BY <1>0, <2>3, <2>5, <2>6, <3>1, <3>3 DEF WaitingFits
  <2>9. WaitingIsHeld'
    BY <2>6, <2>7 DEF WaitingIsHeld
  <2>10. OutgoingAndWire'
    BY <2>2, <2>5, <2>6 DEF SenderInv, OutgoingAndWire
  <2> QED BY <2>8, <2>9, <2>10 DEF SenderInv
<1>2. CASE Scheduled
  <2>1. ~(writer.packetTs + PacketFrames < writer.ring.next) /\ PacketFrames \in Nat
    BY <1>2, FullPacket DEF Scheduled
  <2>2. writer' = writer /\ wire' = wire /\ sending' = FALSE
    BY <1>2 DEF Scheduled
  <2>3. WaitingFits'
    BY <1>0, <2>1, <2>2 DEF SenderInv, WaitingFits, RingOK
  <2>4. WaitingIsHeld' /\ OutgoingAndWire'
    BY <2>2 DEF SenderInv, WaitingIsHeld, OutgoingAndWire
  <2> QED BY <2>3, <2>4 DEF SenderInv
<1>3. CASE SendOutgoingPacket
  <2>1. /\ writer.outgoing # <<>> /\ sending' = sending
        /\ writer' = [writer EXCEPT !.outgoing = Tail(@)]
        /\ wire' = [s \in Streams |-> wire[s] \cup {Head(writer.outgoing)}]
    BY <1>3 DEF SendOutgoingPacket
  <2>2. Tail(writer.outgoing) \in Seq(Packets) /\ Head(writer.outgoing) \in Packets
    BY <2>1 DEF SenderInv, WaitingFits, WaitingIsHeld, OutgoingAndWire
  <2>3. \A s \in Streams : wire'[s] \subseteq Packets
    BY <2>1, <2>2 DEF SenderInv, WaitingFits, WaitingIsHeld, OutgoingAndWire
  <2>4. /\ DOMAIN writer' = {"ring", "packetTs", "seq", "outgoing"}
        /\ writer'.ring = writer.ring /\ writer'.packetTs = writer.packetTs
        /\ writer'.seq = writer.seq /\ writer'.outgoing = Tail(writer.outgoing)
    BY <2>1 DEF SenderInv, WaitingFits, WaitingIsHeld, OutgoingAndWire
  <2>5. WaitingFits'
    BY <1>0, <2>1, <2>4 DEF SenderInv, WaitingFits
  <2>6. WaitingIsHeld'
    BY <2>4 DEF SenderInv, WaitingIsHeld
  <2>7. OutgoingAndWire'
    BY <2>2, <2>3, <2>4 DEF OutgoingAndWire
  <2> QED BY <2>5, <2>6, <2>7 DEF SenderInv
<1> QED BY <1>1, <1>2, <1>3 DEF SenderStep

\* Packets carry the frames of their own time, however the calls of the application cut
\* the audio, where it left gaps and which packets found no room, for any sizes.
THEOREM LinkCarriesFrames == Spec => []PacketsCarryTheirFrames
<1>1. SenderInv /\ [Next]_vars => SenderInv'
  <2> SUFFICES ASSUME SenderInv, [Next]_vars PROVE SenderInv'
    OBVIOUS
  <2>1. CASE SendAudio
    BY <2>1, SendAudioStep
  <2>2. CASE SenderStep
    BY <2>2, SenderSteps
  <2>3. CASE UNCHANGED <<senderVars, scenario>>
    BY <2>3 DEF senderVars, SenderInv, WaitingFits, WaitingIsHeld, OutgoingAndWire
  <2> QED BY <2>1, <2>2, <2>3 DEF Next, PacketArrives, NetworkThread, ReadAudio, vars, linkVars
<1>2. SenderInv => PacketsCarryTheirFrames
  <2> SUFFICES ASSUME SenderInv, NEW s \in Streams, NEW p \in wire[s], NEW i \in 1..PacketFrames
               PROVE  p.frames[i] = {p.ts + i - 1}
    BY DEF PacketsCarryTheirFrames
  <2>1. p \in Packets
    BY DEF SenderInv, OutgoingAndWire
  <2>2. PICK t \in Nat, n \in Nat : p = Carrying(t, n)
    BY <2>1 DEF Packets
  <2> QED BY <2>2 DEF Carrying
<1> QED BY SenderInvInit, <1>1, <1>2, PTL DEF Spec

-----------------------------------------------------------------------------
(***************************************************************************)
(* Numbers, and sequences of them                                          *)
(***************************************************************************)

\* Pairs of numbers of which the first is less.
NumbersBelow == {p \in Nat \X Nat : p[1] < p[2]}

\* Numbers do not descend for ever.
LEMMA BelowIsWellFounded == IsWellFoundedOn(NumbersBelow, Nat)
<1>1. OpToRel(<, Nat) = NumbersBelow BY DEF OpToRel, NumbersBelow
<1>. QED BY NatLessThanWellFounded, <1>1, Zenon

\* Some numbers have a least one.
LEMMA Smallest ==
  ASSUME NEW S, S \subseteq Nat, S # {}
  PROVE  \E n \in S : \A m \in S : n <= m
<1>1. PICK n \in S : \A m \in S : <<m, n>> \notin NumbersBelow
  BY BelowIsWellFounded, WFMin, Zenon
<1>2. n \in Nat /\ \A m \in S : m \in Nat /\ ~(m < n) BY <1>1 DEF NumbersBelow
<1>. QED BY <1>2

\* A set that holds zero, and with each number the next, holds all of them.
LEMMA Induction ==
  ASSUME NEW S, 0 \in S, \A n \in Nat : n \in S => n + 1 \in S
  PROVE  Nat \subseteq S
<1>. DEFINE T == {n \in Nat : n \notin S}
<1>1. SUFFICES ASSUME T # {} PROVE FALSE
  OBVIOUS
<1>2. PICK n \in T : \A m \in T : n <= m
  <2>1. T \subseteq Nat OBVIOUS
  <2>. HIDE DEF T
  <2>. QED BY <1>1, <2>1, Smallest
<1>3. n \in Nat /\ n # 0 /\ n \notin S OBVIOUS
<1>4. n - 1 \in Nat /\ (n - 1) + 1 = n BY <1>3
<1>5. n - 1 \notin S BY <1>3, <1>4
<1>. QED BY <1>2, <1>4, <1>5

\* The least of some numbers.
LEMMA MinOfSome ==
  ASSUME NEW S, S \subseteq Nat, S # {}
  PROVE  Min(S) \in S /\ \A n \in S : Min(S) <= n
BY Smallest DEF Min

\* A part of a sequence.
LEMMA Cuts ==
  ASSUME NEW S, NEW s \in Seq(S), NEW m \in Nat, NEW n \in Nat, n <= Len(s), m >= 1
  PROVE  /\ SubSeq(s, m, n) \in Seq(S)
         /\ Len(SubSeq(s, m, n)) = (IF m <= n THEN n - m + 1 ELSE 0)
         /\ \A i \in 1..Len(SubSeq(s, m, n)) : SubSeq(s, m, n)[i] = s[m + i - 1]
<1>1. \A i \in m..n : s[i] \in S OBVIOUS
<1>. QED BY <1>1, SubSeqProperties

\* A byte of a frame among frames in a row.
LEMMA ByteOfFrame ==
  ASSUME NEW j \in Nat, NEW i \in 0..(Bpf - 1), NEW count \in Nat
  PROVE  (j * Bpf) + i < count * Bpf <=> j < count
<1>1. Bpf \in Nat \ {0} BY PacketAssumption
<1>2. j * Bpf \in Nat /\ count * Bpf \in Nat BY <1>1
<1>3. CASE j < count
  <2>1. j + 1 <= count /\ j + 1 \in Nat BY <1>3
  <2>2. (j + 1) * Bpf <= count * Bpf BY <1>1, <2>1, ProductGrows
  <2>3. (j + 1) * Bpf = j * Bpf + Bpf BY <1>1
  <2>. QED BY <1>1, <1>2, <1>3, <2>2, <2>3
<1>4. CASE ~(j < count)
  <2>1. count * Bpf <= j * Bpf BY <1>1, <1>4, ProductGrows
  <2>. QED BY <1>1, <1>2, <1>4, <2>1
<1>. QED BY <1>3, <1>4

\* The frame that a byte belongs to.
LEMMA FrameOfByte ==
  ASSUME NEW j \in Nat, NEW i \in 0..(Bpf - 1)
  PROVE  ((j * Bpf) + i) \div Bpf = j
<1>1. Bpf \in Nat \ {0} BY PacketAssumption
<1>. DEFINE d == (j * Bpf) + i
<1>2. d \in Int /\ d = j * Bpf + i BY <1>1
<1>. HIDE DEF d
<1>3. d \div Bpf = j BY <1>1, <1>2, DivModIs
<1>. QED BY <1>3 DEF d

\* The remainder of what is less than the divisor.
LEMMA SmallRemainder ==
  ASSUME NEW n \in Nat \ {0}, NEW k \in Nat, k < n
  PROVE  k % n = k
<1>1. k = 0 * n + k /\ k \in 0..(n - 1) /\ 0 \in Int /\ k \in Int OBVIOUS
<1>. QED BY <1>1, DivModIs

\* The remainder of what is not more than the divisor away from zero.
LEMMA NearRemainder ==
  ASSUME NEW n \in Nat \ {0}, NEW k \in Int, -n <= k, k < n
  PROVE  k % n = IF k >= 0 THEN k ELSE k + n
<1>1. CASE k >= 0
  <2>1. k = 0 * n + k /\ k \in 0..(n - 1) /\ 0 \in Int BY <1>1
  <2>2. k % n = k BY <2>1, DivModIs
  <2>. QED BY <1>1, <2>2
<1>2. CASE k < 0
  <2>1. k = (-1) * n + (k + n) /\ k + n \in 0..(n - 1) /\ -1 \in Int BY <1>2
  <2>2. k % n = k + n BY <2>1, DivModIs
  <2>. QED BY <1>2, <2>2
<1>. QED BY <1>1, <1>2

\* The order of times that are less than half the range apart is that of numbers.
LEMMA OrderOfTimes ==
  ASSUME NEW a \in Nat, NEW b \in Nat, Near(TsMod, a, b)
  PROVE  (IsOlderThan(TsMod, a, b) <=> a < b) /\ (IsGreater(TsMod, a, b) <=> a > b)
BY PacketAssumption DEF IsOlderThan, IsGreater, Distance, Near

\* Subtracting what leaves the same remainder.
LEMMA SameRemainder ==
  ASSUME NEW n \in Nat \ {0}, NEW a \in Int, NEW b \in Int, a % n = b % n, NEW c \in Int
  PROVE  (c - a) % n = (c - b) % n
<1>. DEFINE qa == a \div n
            qb == b \div n
            q == (c - a) \div n
            m == (c - a) % n
<1>1. qa \in Int /\ a = qa * n + (a % n) /\ a % n \in 0..(n - 1) BY DivMod
<1>2. qb \in Int /\ b = qb * n + (b % n) BY DivMod
<1>3. q \in Int /\ m \in 0..(n - 1) /\ c - a = q * n + m
  <2>1. c - a \in Int OBVIOUS
  <2>. QED BY <2>1, DivMod
<1>. HIDE DEF qa, qb, q, m
<1>4. c - b = (q + (qa - qb)) * n + m
  <2>1. (q + (qa - qb)) * n = q * n + (qa * n - qb * n) BY <1>1, <1>2, <1>3
  <2>2. q * n \in Int /\ qa * n \in Int /\ qb * n \in Int BY <1>1, <1>2, <1>3
  <2>. QED BY <1>1, <1>2, <1>3, <2>1, <2>2
<1>5. q + (qa - qb) \in Int /\ c - b \in Int BY <1>1, <1>2, <1>3
<1>6. (c - b) % n = m BY <1>3, <1>4, <1>5, DivModIs
<1>. QED BY <1>6 DEF m

-----------------------------------------------------------------------------
(***************************************************************************)
(* The receiver's ring buffer: what it shows after reading, clearing and   *)
(* writing                                                                 *)
(***************************************************************************)

\* The ring buffer of the reader: the next timestamp, and a cell for each byte.
ReaderCells == ReceiveCapacity * Bpf
ReaderRing(ring) ==
  /\ DOMAIN ring = {"capacity", "next", "cells"}
  /\ ring.capacity = ReceiveCapacity /\ ring.next \in Nat
  /\ DOMAIN ring.cells = 0..(ReaderCells - 1)

\* All bytes of the frame at a timestamp are the same.
Shows(ring, t, value) == \A i \in 0..(Bpf - 1) : ring.cells[((t * Bpf) + i) % ReaderCells] = value

\* A frame of which all bytes are the same is what read returns for its timestamp.
LEMMA ShownFrame ==
  ASSUME NEW ring, ReaderRing(ring), NEW t \in Int, NEW value, Shows(ring, t, value)
  PROVE  FrameAt(ring, t) = {value}
<1>1. 0 \in 0..(Bpf - 1) BY PacketAssumption
<1>2. Size(ring) = ReaderCells BY DEF ReaderRing, Size, ReaderCells
<1>. QED BY <1>1, <1>2 DEF FrameAt, Shows

\* Where a byte of a frame lies in a ring, seen from the start of what is read, written or cleared.
LEMMA PlaceOf ==
  ASSUME NEW ring, ReaderRing(ring), NEW ts \in Nat, NEW t \in Int, NEW i \in 0..(Bpf - 1)
  PROVE  /\ ((t * Bpf) + i) % ReaderCells \in 0..(ReaderCells - 1)
         /\ Offset(ring, ts * Bpf, ((t * Bpf) + i) % ReaderCells) = (((t - ts) % ReceiveCapacity) * Bpf) + i
<1>0. PICK n \in Nat \ {0} : n = ReceiveCapacity BY ReceiverAssumption
<1>1. Bpf \in Nat \ {0} BY PacketAssumption
<1>. DEFINE size == n * Bpf
            a == (t * Bpf) + i
            b == ts * Bpf
            q == (t - ts) \div n
            m == (t - ts) % n
            r == (m * Bpf) + i
<1>2. size \in Nat \ {0}
  <2>1. 1 * Bpf <= n * Bpf BY <1>1, ProductGrows
  <2>. QED BY <1>1, <2>1
<1>3. q \in Int /\ m \in 0..(n - 1) /\ t - ts = q * n + m
  <2>1. t - ts \in Int OBVIOUS
  <2>. QED BY <2>1, DivMod
<1>4. a \in Int /\ b \in Int BY <1>1
<1>. HIDE DEF q, m
<1>5. a - b = q * size + r
  <2>1. a - b = (t - ts) * Bpf + i
    <3>1. (t - ts) * Bpf = t * Bpf - ts * Bpf BY <1>1
    <3>. QED BY <1>1, <3>1
  <2>2. (q * n + m) * Bpf = q * n * Bpf + m * Bpf BY <1>1, <1>3
  <2>3. q * n * Bpf = q * (n * Bpf) BY <1>1, <1>3
  <2>. QED BY <1>1, <1>3, <2>1, <2>2, <2>3
<1>6. r \in 0..(size - 1)
  <2>1. m \in Nat /\ m < n BY <1>3
  <2>2. (m * Bpf) + i < n * Bpf BY <2>1, ByteOfFrame
  <2>. QED BY <1>1, <2>1, <2>2
<1>7. a % size \in 0..(size - 1) BY <1>2, <1>4, DivMod
<1>8. Offset(ring, b, a % size) = ((a % size) - b) % size BY <1>0 DEF Offset, ReaderRing, Size
<1>. HIDE DEF a, b, size, r
<1>9. ((a % size) - b) % size = (a - b) % size BY <1>2, <1>4, ModShift
<1>10. (a - b) % size = r
  <2>1. a - b \in Int BY <1>4
  <2>. QED BY <1>2, <1>3, <1>5, <1>6, <2>1, DivModIs
<1>11. Offset(ring, b, a % size) = r BY <1>8, <1>9, <1>10
<1>12. size = ReaderCells /\ m = (t - ts) % ReceiveCapacity BY <1>0 DEF size, m, ReaderCells
<1>. QED BY <1>7, <1>11, <1>12 DEF r, a, b

\* Cells of a ring that are replaced where they lie less than some frames behind a timestamp.
LEMMA Replaced ==
  ASSUME NEW ring, ReaderRing(ring), NEW ts \in Nat, NEW count \in Nat, NEW v, ReaderRing(v),
         NEW new, v.cells = [c \in 0..(ReaderCells - 1) |->
                               IF Offset(ring, ts * Bpf, c) < count * Bpf
                               THEN new[Offset(ring, ts * Bpf, c) \div Bpf] ELSE ring.cells[c]],
         NEW t \in Int
  PROVE  /\ (t - ts) % ReceiveCapacity < count => Shows(v, t, new[(t - ts) % ReceiveCapacity])
         /\ ~((t - ts) % ReceiveCapacity < count) =>
              \A value : (Shows(ring, t, value) => Shows(v, t, value))
<1>. DEFINE at == (t - ts) % ReceiveCapacity
<1>1. ReceiveCapacity \in Nat \ {0} /\ Size(ring) = ReceiveCapacity * Bpf
  BY ReceiverAssumption DEF ReaderRing, Size
<1>2. at \in Nat
  <2>1. t - ts \in Int OBVIOUS
  <2>. QED BY <1>1, <2>1, DivMod
<1>3. ASSUME NEW i \in 0..(Bpf - 1)
      PROVE  LET cell == ((t * Bpf) + i) % ReaderCells
             IN  v.cells[cell] = IF at < count THEN new[at] ELSE ring.cells[cell]
  <2>. DEFINE cell == ((t * Bpf) + i) % ReaderCells
              place == (at * Bpf) + i
  <2>1. cell \in 0..(ReaderCells - 1) /\ Offset(ring, ts * Bpf, cell) = place BY PlaceOf
  <2>. HIDE DEF cell, at, place
  <2>2. v.cells[cell] = IF place < count * Bpf THEN new[place \div Bpf] ELSE ring.cells[cell] BY <2>1
  <2>3. (place < count * Bpf <=> at < count) /\ place \div Bpf = at
    BY <1>2, ByteOfFrame, FrameOfByte DEF place
  <2>. QED BY <2>2, <2>3 DEF cell
<1>. HIDE DEF at
<1>4. at < count => Shows(v, t, new[at]) BY <1>3 DEF Shows
<1>5. ~(at < count) => \A value : (Shows(ring, t, value) => Shows(v, t, value)) BY <1>3 DEF Shows
<1>. QED BY <1>4, <1>5 DEF at

\* How far behind a position a byte lies, in frames.
LEMMA CellsBack ==
  ASSUME NEW ring, ReaderRing(ring), NEW ts \in Nat, NEW c \in 0..(ReaderCells - 1)
  PROVE  Offset(ring, ts * Bpf, c) \div Bpf \in Nat
<1>1. ReceiveCapacity \in Nat \ {0} /\ Bpf \in Nat \ {0} /\ Size(ring) = ReaderCells
  BY ReceiverAssumption, PacketAssumption DEF ReaderRing, Size, ReaderCells
<1>2. ReaderCells \in Nat \ {0}
  <2>1. 1 * Bpf <= ReceiveCapacity * Bpf BY <1>1, ProductGrows
  <2>. QED BY <1>1, <2>1 DEF ReaderCells
<1>3. c - ts * Bpf \in Int BY <1>1
<1>4. (c - ts * Bpf) % ReaderCells \in Nat BY <1>2, <1>3, DivMod
<1>. DEFINE d == (c - ts * Bpf) % ReaderCells
<1>. HIDE DEF d
<1>5. d \in Nat => d \div Bpf \in Nat BY <1>1
<1>. QED BY <1>1, <1>4, <1>5 DEF d, Offset

\* Cells of a ring that are silenced where they lie less than some frames behind a timestamp.
LEMMA Silenced ==
  ASSUME NEW ring, ReaderRing(ring), NEW ts \in Nat, NEW count \in Nat, NEW v, ReaderRing(v),
         v.cells = [c \in 0..(ReaderCells - 1) |->
                      IF Offset(ring, ts * Bpf, c) < count * Bpf THEN Ground ELSE ring.cells[c]],
         NEW t \in Int
  PROVE  /\ (t - ts) % ReceiveCapacity < count => Shows(v, t, Ground)
         /\ ~((t - ts) % ReceiveCapacity < count) =>
              \A value : (Shows(ring, t, value) => Shows(v, t, value))
<1>. DEFINE new == [j \in Nat |-> Ground]
<1>1. ReceiveCapacity \in Nat \ {0} /\ Bpf \in Nat \ {0} /\ Size(ring) = ReaderCells
  BY ReceiverAssumption, PacketAssumption DEF ReaderRing, Size, ReaderCells
<1>2. ASSUME NEW c \in 0..(ReaderCells - 1) PROVE Offset(ring, ts * Bpf, c) \div Bpf \in Nat BY CellsBack
<1>3. v.cells = [c \in 0..(ReaderCells - 1) |->
                   IF Offset(ring, ts * Bpf, c) < count * Bpf
                   THEN new[Offset(ring, ts * Bpf, c) \div Bpf] ELSE ring.cells[c]]
  BY <1>2
<1>4. (t - ts) % ReceiveCapacity \in Nat
  <2>1. t - ts \in Int OBVIOUS
  <2>. QED BY <1>1, <2>1, DivMod
<1>5. new[(t - ts) % ReceiveCapacity] = Ground BY <1>4
<1>. HIDE DEF new
<1>6. /\ (t - ts) % ReceiveCapacity < count => Shows(v, t, new[(t - ts) % ReceiveCapacity])
      /\ ~((t - ts) % ReceiveCapacity < count) =>
           \A value : (Shows(ring, t, value) => Shows(v, t, value))
  BY <1>3, Replaced, Zenon
<1>. QED BY <1>5, <1>6

\* Reading leaves silence, in the place of every frame that lies there.
ReadOver(v, ring, ts, count) ==
  /\ ReaderRing(v) /\ v.next = ring.next
  /\ \A t \in Int : /\ (t - ts) % ReceiveCapacity < count => Shows(v, t, Ground)
                    /\ ~((t - ts) % ReceiveCapacity < count) =>
                         \A value : (Shows(ring, t, value) => Shows(v, t, value))

\* WithoutRead does so.
LEMMA Reading ==
  ASSUME NEW ring, ReaderRing(ring), NEW ts \in Nat, NEW count \in Nat,
         NEW v, v = WithoutRead(ring, ts, count)
  PROVE  ReadOver(v, ring, ts, count)
<1>. DEFINE cells == [c \in 0..(ReaderCells - 1) |->
                       IF Offset(ring, ts * Bpf, c) < count * Bpf THEN Ground ELSE ring.cells[c]]
<1>1. v = [ring EXCEPT !.cells = cells] BY DEF WithoutRead, ReaderRing
<1>2. ReaderRing(v) /\ v.next = ring.next /\ v.cells = cells
  <2>1. DOMAIN cells = 0..(ReaderCells - 1) OBVIOUS
  <2>. HIDE DEF cells
  <2>. QED BY <1>1, <2>1 DEF ReaderRing
<1>3. ReaderRing(v) /\ v.cells = [c \in 0..(ReaderCells - 1) |->
                       IF Offset(ring, ts * Bpf, c) < count * Bpf THEN Ground ELSE ring.cells[c]]
  BY <1>2
<1>. HIDE DEF cells
<1>4. ASSUME NEW t \in Int
      PROVE  /\ (t - ts) % ReceiveCapacity < count => Shows(v, t, Ground)
             /\ ~((t - ts) % ReceiveCapacity < count) =>
                  \A value : (Shows(ring, t, value) => Shows(v, t, value))
  BY <1>3, Silenced, Zenon
<1>. QED BY <1>2, <1>4 DEF ReadOver

\* The place of a gap is what the code computes.
GapFits(from, to) ==
  to > from => ((from * Bpf) % TsMod) % ReaderCells = (from * Bpf) % ReaderCells /\ (to - from) * Bpf < TsMod

\* Filling a gap leaves silence in the gap, and what lies in the rest of the buffer.
LEMMA Clearing ==
  ASSUME NEW ring, ReaderRing(ring), NEW ts \in Nat, Near(TsMod, ts, ring.next), GapFits(ring.next, ts),
         NEW v, v = ClearUntil(ring, ts)
  PROVE  /\ ReaderRing(v) /\ v.next = IF ts > ring.next THEN ts ELSE ring.next
         /\ \A t \in ring.next..(v.next - 1) : Shows(v, t, Ground)
         /\ \A t \in Int : v.next - ReceiveCapacity <= t /\ t < ring.next =>
              \A value : (Shows(ring, t, value) => Shows(v, t, value))
<1>1. ReceiveCapacity \in Nat \ {0} /\ Bpf \in Nat \ {0} /\ TsMod \in Nat \ {0} /\ Size(ring) = ReaderCells
  BY ReceiverAssumption, PacketAssumption DEF ReaderRing, Size, ReaderCells
<1>2. ts \in Nat /\ ring.next \in Nat /\ Near(TsMod, ring.next, ts) BY DEF ReaderRing, Near
<1>3. CASE ts <= ring.next
  <2>1. ring.next = ts \/ IsGreater(TsMod, ring.next, ts)
    <3>1. IsGreater(TsMod, ring.next, ts) <=> ring.next > ts BY <1>2, OrderOfTimes
    <3>. QED BY <1>2, <1>3, <3>1
  <2>2. v = ring BY <2>1 DEF ClearUntil
  <2>. QED BY <1>2, <1>3, <2>2
<1>4. CASE ts > ring.next
  <2>. DEFINE gap == ts - ring.next
              count == IF gap < ReceiveCapacity THEN gap ELSE ReceiveCapacity
              cells == [c \in 0..(ReaderCells - 1) |->
                         IF Offset(ring, ring.next * Bpf, c) < count * Bpf THEN Ground ELSE ring.cells[c]]
  <2>1. ~(ring.next = ts \/ IsGreater(TsMod, ring.next, ts)) /\ Distance(TsMod, ring.next, ts) = gap
    <3>1. IsGreater(TsMod, ring.next, ts) <=> ring.next > ts BY <1>2, OrderOfTimes
    <3>. QED BY <1>2, <1>4, <3>1 DEF Distance
  <2>2. gap \in Nat \ {0} /\ count \in Nat /\ count <= gap /\ count <= ReceiveCapacity BY <1>1, <1>2, <1>4
  <2>3. \A c \in Int : Offset(ring, (ring.next * Bpf) % TsMod, c) = Offset(ring, ring.next * Bpf, c)
    <3>. DEFINE x == ring.next * Bpf
    <3>1. x \in Int /\ x % TsMod \in Int /\ ReaderCells \in Nat \ {0}
      <4>1. x \in Int BY <1>1, <1>2
      <4>2. 1 * Bpf <= ReceiveCapacity * Bpf BY <1>1, ProductGrows
      <4>. HIDE DEF x
      <4>3. x % TsMod \in Int BY <1>1, <4>1, DivMod
      <4>. QED BY <1>1, <4>1, <4>2, <4>3 DEF ReaderCells
    <3>2. (x % TsMod) % ReaderCells = x % ReaderCells BY <1>2, <1>4 DEF GapFits
    <3>. HIDE DEF x
    <3>3. \A c \in Int : (c - (x % TsMod)) % ReaderCells = (c - x) % ReaderCells BY <3>1, <3>2, SameRemainder
    <3>. QED BY <1>1, <3>3 DEF Offset, x
  <2>4. (gap * Bpf) % TsMod = gap * Bpf
    <3>1. gap * Bpf \in Nat /\ gap * Bpf < TsMod BY <1>1, <1>2, <1>4, <2>2 DEF GapFits
    <3>. HIDE DEF gap
    <3>. QED BY <1>1, <3>1, SmallRemainder
  <2>5. Lesser(gap * Bpf, Size(ring)) = count * Bpf
    <3>1. CASE gap < ReceiveCapacity
      <4>1. gap + 1 <= ReceiveCapacity /\ gap + 1 \in Int BY <1>1, <2>2, <3>1
      <4>2. count = gap BY <3>1
      <4>. HIDE DEF gap, count
      <4>3. (gap + 1) * Bpf <= ReceiveCapacity * Bpf BY <1>1, <4>1, ProductGrows
      <4>4. (gap + 1) * Bpf = gap * Bpf + Bpf /\ gap * Bpf \in Int /\ ReceiveCapacity * Bpf \in Int BY <1>1, <2>2
      <4>. QED BY <1>1, <4>2, <4>3, <4>4 DEF Lesser, ReaderCells
    <3>2. CASE ~(gap < ReceiveCapacity)
      <4>1. ReceiveCapacity <= gap BY <1>1, <2>2, <3>2
      <4>2. count = ReceiveCapacity BY <3>2
      <4>. HIDE DEF gap, count
      <4>3. ReceiveCapacity * Bpf <= gap * Bpf BY <1>1, <2>2, <4>1, ProductGrows
      <4>4. gap * Bpf \in Int /\ ReceiveCapacity * Bpf \in Int BY <1>1, <2>2
      <4>. QED BY <1>1, <4>2, <4>3, <4>4 DEF Lesser, ReaderCells
    <3>. QED BY <3>1, <3>2
  <2>6. v = [ring EXCEPT !.cells = cells, !.next = ts]
    <3>. DEFINE start == (ring.next * Bpf) % TsMod
                made == [c \in 0..(ReaderCells - 1) |->
                          IF Offset(ring, start, c) < count * Bpf THEN Ground ELSE ring.cells[c]]
    <3>. HIDE DEF gap, count
    <3>1. v = [ring EXCEPT !.cells = made, !.next = ts] BY <2>1, <2>4, <2>5 DEF ClearUntil, ReaderRing
    <3>2. \A c \in 0..(ReaderCells - 1) : Offset(ring, start, c) = Offset(ring, ring.next * Bpf, c)
      <4>1. 0..(ReaderCells - 1) \subseteq Int OBVIOUS
      <4>. QED BY <2>3, <4>1
    <3>. HIDE DEF start
    <3>3. made = cells BY <3>2
    <3>. QED BY <3>1, <3>3
  <2>7. ReaderRing(v) /\ v.next = ts /\ v.cells = cells
    <3>1. DOMAIN cells = 0..(ReaderCells - 1) OBVIOUS
    <3>. HIDE DEF cells
    <3>. QED BY <1>2, <2>6, <3>1 DEF ReaderRing
  <2>8. ASSUME NEW t \in Int
        PROVE  /\ (t - ring.next) % ReceiveCapacity < count => Shows(v, t, Ground)
               /\ ~((t - ring.next) % ReceiveCapacity < count) =>
                    \A value : (Shows(ring, t, value) => Shows(v, t, value))
    <3>. HIDE DEF gap, count
    <3>. QED BY <1>2, <2>2, <2>7, Silenced
  <2>9. ASSUME NEW t \in ring.next..(v.next - 1) PROVE Shows(v, t, Ground)
    <3>1. t - ring.next \in Nat /\ t - ring.next < gap /\ t \in Int BY <1>2, <2>7
    <3>2. (t - ring.next) % ReceiveCapacity < count
      <4>1. CASE gap < ReceiveCapacity
        <5>1. (t - ring.next) % ReceiveCapacity = t - ring.next
          <6>1. t - ring.next < ReceiveCapacity BY <1>1, <3>1, <4>1, <2>2
          <6>. QED BY <1>1, <3>1, <6>1, SmallRemainder
        <5>. QED BY <3>1, <4>1, <5>1
      <4>2. CASE ~(gap < ReceiveCapacity)
        <5>0. t - ring.next \in Int BY <3>1
        <5>1. (t - ring.next) % ReceiveCapacity \in 0..(ReceiveCapacity - 1) BY <1>1, <5>0, DivMod
        <5>. QED BY <1>1, <4>2, <5>1
      <4>. QED BY <4>1, <4>2
    <3>. QED BY <2>8, <3>1, <3>2
  <2>10. ASSUME NEW t \in Int, v.next - ReceiveCapacity <= t, t < ring.next, NEW value, Shows(ring, t, value)
         PROVE  Shows(v, t, value)
    <3>1. t - ring.next \in Int /\ -ReceiveCapacity <= t - ring.next /\ t - ring.next < 0 /\ gap < ReceiveCapacity
      BY <1>1, <1>2, <1>4, <2>7, <2>10
    <3>2. (t - ring.next) % ReceiveCapacity = t - ring.next + ReceiveCapacity
      <4>. DEFINE d == t - ring.next
      <4>1. d \in Int /\ -ReceiveCapacity <= d /\ d < 0 /\ d < ReceiveCapacity /\ ~(d >= 0) BY <1>1, <3>1
      <4>. HIDE DEF d
      <4>2. d % ReceiveCapacity = d + ReceiveCapacity BY <1>1, <4>1, NearRemainder
      <4>. QED BY <4>2 DEF d
    <3>3. ~((t - ring.next) % ReceiveCapacity < count) BY <1>1, <1>2, <2>7, <2>10, <3>1, <3>2
    <3>. HIDE DEF count
    <3>. QED BY <2>8, <2>10, <3>3
  <2>. QED BY <1>4, <2>7, <2>9, <2>10
<1>. QED BY <1>2, <1>3, <1>4

\* Writing a packet of which all frames lie in the buffer leaves it in its place, and the rest where it was.
LEMMA Writing ==
  ASSUME NEW ring, ReaderRing(ring), NEW ts \in Nat, NEW frames, Len(frames) = PacketFrames,
         \A j \in 1..PacketFrames : frames[j] = {ts + j - 1},
         Near(TsMod, ts + PacketFrames, ring.next), ts + PacketFrames < TsMod,
         NEW v, v = Write(ring, ts, frames)
  PROVE  /\ ReaderRing(v) /\ v.next = IF ts + PacketFrames > ring.next THEN ts + PacketFrames ELSE ring.next
         /\ v.next - ReceiveCapacity <= ts =>
              /\ \A t \in PacketTimes([ts |-> ts]) : Shows(v, t, {t})
              /\ \A t \in Int : v.next - ReceiveCapacity <= t /\ t < v.next /\ t \notin PacketTimes([ts |-> ts]) =>
                   \A value : (Shows(ring, t, value) => Shows(v, t, value))
<1>1. /\ ReceiveCapacity \in Nat \ {0} /\ Bpf \in Nat \ {0} /\ TsMod \in Nat \ {0} /\ PacketFrames \in Nat \ {0}
      /\ Size(ring) = ReaderCells
  BY ReceiverAssumption, PacketAssumption DEF ReaderRing, Size, ReaderCells
<1>2. ring.next \in Nat /\ DOMAIN ring.cells = 0..(ReaderCells - 1) BY DEF ReaderRing
<1>. DEFINE new == [j \in Nat |-> frames[j + 1]]
            end == ts + PacketFrames
            cells == [c \in 0..(ReaderCells - 1) |->
                       IF Offset(ring, ts * Bpf, c) < PacketFrames * Bpf
                       THEN frames[(Offset(ring, ts * Bpf, c) \div Bpf) + 1] ELSE ring.cells[c]]
<1>3. Increment(TsMod, ts, PacketFrames) = end
  <2>. QED BY <1>1, NoWrap
<1>4. IsGreater(TsMod, end, ring.next) <=> end > ring.next
  <2>1. end \in Nat BY <1>1
  <2>. QED BY <1>1, <1>2, <2>1, OrderOfTimes
<1>. DEFINE next == IF end > ring.next THEN end ELSE ring.next
<1>5. v = [ring EXCEPT !.cells = cells, !.next = next]
  <2>. HIDE DEF end
  <2>. QED BY <1>2, <1>3, <1>4 DEF Write
<1>6. ReaderRing(v) /\ v.next = next /\ v.cells = cells
  <2>1. DOMAIN cells = 0..(ReaderCells - 1) /\ next \in Nat BY <1>1, <1>2
  <2>. HIDE DEF cells, next
  <2>. QED BY <1>5, <2>1 DEF ReaderRing
<1>7. v.cells = [c \in 0..(ReaderCells - 1) |->
                   IF Offset(ring, ts * Bpf, c) < PacketFrames * Bpf
                   THEN new[Offset(ring, ts * Bpf, c) \div Bpf] ELSE ring.cells[c]]
  <2>1. ASSUME NEW c \in 0..(ReaderCells - 1)
        PROVE  new[Offset(ring, ts * Bpf, c) \div Bpf] = frames[(Offset(ring, ts * Bpf, c) \div Bpf) + 1]
    <3>1. Offset(ring, ts * Bpf, c) \div Bpf \in Nat BY CellsBack
    <3>. QED BY <3>1
  <2>. HIDE DEF new
  <2>. QED BY <1>6, <2>1
<1>8. ASSUME NEW t \in Int
      PROVE  /\ (t - ts) % ReceiveCapacity < PacketFrames => Shows(v, t, new[(t - ts) % ReceiveCapacity])
             /\ ~((t - ts) % ReceiveCapacity < PacketFrames) =>
                  \A value : (Shows(ring, t, value) => Shows(v, t, value))
  <2>1. ReaderRing(v) /\ PacketFrames \in Nat BY <1>1, <1>6
  <2>. HIDE DEF new, cells, next, end
  <2>2. ASSUME NEW n \in Nat, NEW x, ReaderRing(x),
               x.cells = [c \in 0..(ReaderCells - 1) |->
                           IF Offset(ring, ts * Bpf, c) < n * Bpf THEN new[Offset(ring, ts * Bpf, c) \div Bpf] ELSE ring.cells[c]]
        PROVE  /\ (t - ts) % ReceiveCapacity < n => Shows(x, t, new[(t - ts) % ReceiveCapacity])
               /\ ~((t - ts) % ReceiveCapacity < n) =>
                    \A value : (Shows(ring, t, value) => Shows(x, t, value))
    BY <2>2, Replaced, Zenon
  <2>. QED BY <1>7, <2>1, <2>2, Zenon
<1>9. ASSUME v.next - ReceiveCapacity <= ts
      PROVE  PacketFrames <= ReceiveCapacity /\ v.next - ts <= ReceiveCapacity /\ v.next >= end /\ v.next \in Nat
  BY <1>1, <1>2, <1>6, <1>9
<1>10. \A t : (t \in PacketTimes([ts |-> ts]) <=> t \in ts..(ts + PacketFrames - 1)) BY DEF PacketTimes
<1>11. ASSUME v.next - ReceiveCapacity <= ts, NEW t \in PacketTimes([ts |-> ts]) PROVE Shows(v, t, {t})
  <2>1. t - ts \in Nat /\ t - ts < PacketFrames /\ t - ts < ReceiveCapacity /\ t \in Int BY <1>1, <1>9, <1>10, <1>11
  <2>2. (t - ts) % ReceiveCapacity = t - ts BY <1>1, <2>1, SmallRemainder
  <2>3. new[t - ts] = {t}
    <3>1. (t - ts) + 1 \in 1..PacketFrames /\ ts + ((t - ts) + 1) - 1 = t BY <1>1, <2>1
    <3>2. frames[(t - ts) + 1] = {ts + ((t - ts) + 1) - 1} BY <3>1
    <3>. QED BY <2>1, <3>1, <3>2
  <2>. HIDE DEF new
  <2>. QED BY <1>8, <2>1, <2>2, <2>3
<1>12. ASSUME v.next - ReceiveCapacity <= ts, NEW t \in Int, v.next - ReceiveCapacity <= t, t < v.next,
              t \notin PacketTimes([ts |-> ts]), NEW value, Shows(ring, t, value)
       PROVE  Shows(v, t, value)
  <2>1. /\ PacketFrames <= ReceiveCapacity /\ v.next - ts <= ReceiveCapacity /\ v.next >= ts + PacketFrames /\ v.next \in Nat
    BY <1>9, <1>12
  <2>2. t < ts \/ t >= ts + PacketFrames BY <1>1, <1>10, <1>12
  <2>. DEFINE d == t - ts
  <2>3. d \in Int /\ -ReceiveCapacity <= d /\ d < ReceiveCapacity
    BY <1>1, <1>12, <2>1
  <2>4. IF d >= 0 THEN d >= PacketFrames ELSE d + ReceiveCapacity >= PacketFrames
    BY <1>1, <1>12, <2>1, <2>2
  <2>5. ~(d % ReceiveCapacity < PacketFrames)
    <3>. HIDE DEF d
    <3>1. d % ReceiveCapacity = IF d >= 0 THEN d ELSE d + ReceiveCapacity BY <1>1, <2>3, NearRemainder
    <3>. QED BY <1>1, <2>3, <2>4, <3>1
  <2>. HIDE DEF new
  <2>. QED BY <1>8, <1>12, <2>5 DEF d
<1>. QED BY <1>6, <1>11, <1>12

\* What is read lies in the places of the frames that are read.
LEMMA PlacesRead ==
  ASSUME NEW ts \in Nat, NEW count \in Nat, NEW t \in Int
  PROVE  (\E r \in ts..(ts + count - 1) : (r - t) % ReceiveCapacity = 0) <=> (t - ts) % ReceiveCapacity < count
<1>1. PICK n \in Nat \ {0} : n = ReceiveCapacity BY ReceiverAssumption
<1>. DEFINE m == (t - ts) % n
            q == (t - ts) \div n
<1>2. q \in Int /\ m \in 0..(n - 1) /\ t - ts = q * n + m
  <2>1. t - ts \in Int OBVIOUS
  <2>. QED BY <2>1, DivMod
<1>3. m = (t - ts) % ReceiveCapacity BY <1>1
<1>. HIDE DEF m, q
<1>4. ASSUME m < count PROVE \E r \in ts..(ts + count - 1) : (r - t) % n = 0
  <2>1. ts + m \in ts..(ts + count - 1) /\ (ts + m) - t \in Int BY <1>2, <1>4
  <2>2. (ts + m) - t = (-q) * n + 0 /\ -q \in Int /\ 0 \in 0..(n - 1) BY <1>2
  <2>3. ((ts + m) - t) % n = 0 BY <2>1, <2>2, DivModIs
  <2>. QED BY <2>1, <2>3
<1>5. ASSUME NEW r \in ts..(ts + count - 1), (r - t) % n = 0 PROVE m < count
  <2>. DEFINE p == (r - t) \div n
              j == r - ts
  <2>1. p \in Int /\ r - t = p * n + 0
    <3>1. r - t \in Int OBVIOUS
    <3>. QED BY <1>5, <3>1, DivMod
  <2>. HIDE DEF p
  <2>2. j \in Nat /\ j < count OBVIOUS
  <2>3. j = (p + q) * n + m /\ p + q \in Int
    <3>1. (p + q) * n = p * n + q * n BY <1>2, <2>1
    <3>. QED BY <1>2, <2>1, <3>1
  <2>. HIDE DEF j
  <2>4. j % n = m BY <1>2, <2>2, <2>3, DivModIs
  <2>5. j % n <= j
    <3>1. j \div n \in Int /\ j % n \in 0..(n - 1) /\ j = ((j \div n) * n) + (j % n)
      <4>1. j \in Int BY <2>2
      <4>. QED BY <4>1, DivMod
    <3>2. CASE j < n BY <2>2, <3>2, SmallRemainder
    <3>3. CASE ~(j < n) BY <2>2, <3>1, <3>3
    <3>. QED BY <3>2, <3>3
  <2>. QED BY <1>2, <2>2, <2>4, <2>5
<1>. QED BY <1>1, <1>3, <1>4, <1>5

-----------------------------------------------------------------------------
(***************************************************************************)
(* One packet, the packets of a stream, and those of all streams: what a   *)
(* call of the reader has merged shows in the buffer                       *)
(***************************************************************************)

\* What the buffer shows of its newest frames: those of some times, and else silence.
Window(ring, times) ==
  \A t \in (ring.next - ReceiveCapacity)..(ring.next - 1) : Shows(ring, t, IF t \in times THEN {t} ELSE Ground)

\* The reader in the course of a call.
ReaderShape(r) ==
  /\ DOMAIN r = {"ring", "mostRecent", "late", "next"}
  /\ ReaderRing(r.ring)
  /\ r.mostRecent \in Nat \cup {NoTime}
  /\ r.late \in Seq(Nat)
  /\ r.next \in Nat

\* The packets that end before a time, and times that fit in 32 bits.
Sent(top) == {p \in Packets : p.ts + PacketFrames <= top}
Bound(top) == top \in Nat /\ top < TsMod

\* The frames that a packet brings: none when it is too late.
Carried(packet, next) == IF packet.ts + PacketFrames > next THEN PacketTimes(packet) ELSE {}

\* A packet has as many frames as it should, each of its own time.
LEMMA PacketFields ==
  ASSUME NEW p \in Packets
  PROVE  /\ p.ts \in Nat /\ p.seq \in Nat /\ Len(p.frames) = PacketFrames
         /\ \A j \in 1..PacketFrames : p.frames[j] = {p.ts + j - 1}
<1>1. PICK t \in Nat, n \in Nat : p = Carrying(t, n) BY DEF Packets
<1>2. p.ts = t /\ p.seq = n /\ p.frames = [i \in 1..PacketFrames |-> {t + i - 1}] BY <1>1 DEF Carrying
<1>3. PacketFrames \in Nat BY PacketAssumption
<1>4. Len([i \in 1..PacketFrames |-> {t + i - 1}]) = PacketFrames
  <2>. DEFINE f == [i \in 1..PacketFrames |-> {t + i - 1}]
              S == {{x} : x \in Int}
  <2>1. f \in [1..PacketFrames -> S] OBVIOUS
  <2>. HIDE DEF S
  <2>2. f \in Seq(S) /\ DOMAIN f = 1..PacketFrames
    <3>. HIDE DEF f
    <3>. QED BY <1>3, <2>1
  <2>. HIDE DEF f
  <2>3. Len(f) = PacketFrames BY <1>3, <2>2
  <2>. QED BY <2>3 DEF f
<1>. QED BY <1>2, <1>4

\* Whether a packet is too late for the time that is read next.
LEMMA LateWhen ==
  ASSUME NEW top, Bound(top), NEW r, r.next \in Nat, NEW p \in Sent(top), Near(TsMod, p.ts + PacketFrames, r.next)
  PROVE  TooLate(r, p) <=> p.ts + PacketFrames <= r.next
<1>. DEFINE end == p.ts + PacketFrames
<1>1. p.ts \in Nat /\ end <= top /\ PacketFrames \in Nat /\ top \in Nat /\ TsMod \in Nat \ {0} /\ top < TsMod
  BY PacketFields, PacketAssumption DEF Sent, Bound
<1>2. end \in Nat /\ end < TsMod BY <1>1
<1>3. Increment(TsMod, p.ts, PacketFrames) = end BY <1>1, <1>2, NoWrap
<1>. HIDE DEF end
<1>4. IsOlderThan(TsMod, end, r.next) <=> end < r.next
  <2>1. Near(TsMod, end, r.next) BY DEF end
  <2>. QED BY <1>2, <2>1, OrderOfTimes
<1>5. TooLate(r, p) <=> end = r.next \/ IsOlderThan(TsMod, end, r.next) BY <1>3 DEF TooLate, IsAtMost
<1>6. TooLate(r, p) <=> end <= r.next BY <1>2, <1>4, <1>5
<1>. QED BY <1>6 DEF end

\* The newest timestamp.
LEMMA NewestIs ==
  ASSUME NEW r, ReaderShape(r), NEW p \in Packets, r.mostRecent # NoTime,
         NEW v, v = Newest(r, p)
  PROVE  ReaderShape(v) /\ v.mostRecent # NoTime /\ v.ring = r.ring /\ v.next = r.next /\ v.late = r.late
<1>1. p.ts \in Nat /\ Len(p.frames) = PacketFrames /\ PacketFrames \in Nat \ {0} /\ TsMod \in Nat \ {0} /\ NoTime \notin Nat
  BY PacketFields, PacketAssumption, ReceiverAssumption
<1>2. LastTs(p) \in Nat BY <1>1 DEF LastTs, Increment
<1>3. PICK m \in Nat : v = [r EXCEPT !.mostRecent = m]
  <2>1. r.mostRecent \in Nat BY DEF ReaderShape
  <2>. QED BY <1>2, <2>1 DEF Newest
<1>4. /\ DOMAIN v = DOMAIN r /\ v.ring = r.ring /\ v.next = r.next /\ v.late = r.late
      /\ v.mostRecent = m
  BY <1>3 DEF ReaderShape
<1>. QED BY <1>1, <1>4 DEF ReaderShape

\* Clearing and writing leave a ring, whatever the times.
LEMMA RingStays ==
  ASSUME NEW ring, ReaderRing(ring), NEW ts \in Nat, NEW frames, Len(frames) = PacketFrames
  PROVE  ReaderRing(ClearUntil(ring, ts)) /\ ReaderRing(Write(ring, ts, frames))
<1>1. ReaderRing(ClearUntil(ring, ts))
  <2>1. CASE ring.next = ts \/ IsGreater(TsMod, ring.next, ts) BY <2>1 DEF ClearUntil
  <2>2. CASE ~(ring.next = ts \/ IsGreater(TsMod, ring.next, ts))
    <3>1. PICK cells : /\ ClearUntil(ring, ts) = [ring EXCEPT !.cells = cells, !.next = ts]
                       /\ DOMAIN cells = DOMAIN ring.cells
      <4>. DEFINE bytes == (Distance(TsMod, ring.next, ts) * Bpf) % TsMod
                  start == (ring.next * Bpf) % TsMod
                  made == [c \in DOMAIN ring.cells |->
                            IF Offset(ring, start, c) < Lesser(bytes, Size(ring)) THEN Ground ELSE ring.cells[c]]
      <4>1. ClearUntil(ring, ts) = [ring EXCEPT !.cells = made, !.next = ts] BY <2>2 DEF ClearUntil, ReaderRing
      <4>2. DOMAIN made = DOMAIN ring.cells OBVIOUS
      <4>. HIDE DEF made
      <4>. QED BY <4>1, <4>2
    <3>. QED BY <3>1 DEF ReaderRing
  <2>. QED BY <2>1, <2>2
<1>2. ReaderRing(Write(ring, ts, frames))
  <2>. DEFINE end == Increment(TsMod, ts, PacketFrames)
  <2>1. end \in Nat BY PacketAssumption DEF Increment
  <2>2. PICK cells, next : /\ Write(ring, ts, frames) = [ring EXCEPT !.cells = cells, !.next = next]
                           /\ DOMAIN cells = DOMAIN ring.cells /\ next \in {end, ring.next}
    <3>. DEFINE made == [c \in DOMAIN ring.cells |->
                          IF Offset(ring, ts * Bpf, c) < PacketFrames * Bpf
                          THEN frames[(Offset(ring, ts * Bpf, c) \div Bpf) + 1] ELSE ring.cells[c]]
                then == IF IsGreater(TsMod, end, ring.next) THEN end ELSE ring.next
    <3>1. Write(ring, ts, frames) = [ring EXCEPT !.cells = made, !.next = then] BY DEF Write, ReaderRing
    <3>2. DOMAIN made = DOMAIN ring.cells /\ then \in {end, ring.next} OBVIOUS
    <3>. HIDE DEF made, then
    <3>. QED BY <3>1, <3>2
  <2>. HIDE DEF end
  <2>. QED BY <2>1, <2>2 DEF ReaderRing
<1>. QED BY <1>1, <1>2

\* A packet, once the reader has begun, leaves a reader and the time that is read next.
LEMMA AcceptKeeps ==
  ASSUME NEW r, ReaderShape(r), r.mostRecent # NoTime, NEW p \in Packets, NEW v, v = Accept(r, p)
  PROVE  ReaderShape(v) /\ v.mostRecent # NoTime /\ v.next = r.next
<1>. DEFINE n == Newest(r, p)
            late == IF TooLate(n, p) \/ IsOlderThan(TsMod, p.ts, n.next) THEN Append(n.late, p.seq) ELSE n.late
            c == ClearUntil(r.ring, p.ts)
            w == Write(c, p.ts, p.frames)
<1>1. p.ts \in Nat /\ p.seq \in Nat /\ Len(p.frames) = PacketFrames BY PacketFields
<1>2. Started(r, p) = r BY DEF Started
<1>3. ReaderShape(n) /\ n.mostRecent # NoTime /\ n.ring = r.ring /\ n.next = r.next /\ n.late = r.late
  BY <1>1, NewestIs
<1>4. late \in Seq(Nat)
  <2>. HIDE DEF n
  <2>. QED BY <1>1, <1>3 DEF ReaderShape
<1>5. v = IF TooLate(n, p) THEN [n EXCEPT !.late = late]
          ELSE [n EXCEPT !.late = late, !.ring = Write(ClearUntil(@, p.ts), p.ts, p.frames)]
  BY <1>2 DEF Accept
<1>. HIDE DEF n, late
<1>6. ReaderRing(w)
  <2>1. ReaderRing(r.ring) BY DEF ReaderShape
  <2>2. ReaderRing(c) BY <1>1, <2>1, RingStays
  <2>. HIDE DEF c
  <2>. QED BY <1>1, <2>2, RingStays
<1>7. v = [n EXCEPT !.late = late] \/ v = [n EXCEPT !.late = late, !.ring = w] BY <1>3, <1>5
<1>. HIDE DEF c, w
<1>8. /\ DOMAIN v = DOMAIN n /\ v.next = r.next /\ v.late = late /\ v.mostRecent = n.mostRecent
      /\ v.ring = r.ring \/ v.ring = w
  BY <1>3, <1>7 DEF ReaderShape
<1>. QED BY <1>3, <1>4, <1>6, <1>8 DEF ReaderShape

\* A packet whose time and place are what the code computes.
LEMMA AcceptStep ==
  ASSUME NEW top, Bound(top), NEW r, ReaderShape(r), r.mostRecent # NoTime, NEW p \in Sent(top), IsMeant(r, p),
         NEW v, v = Accept(r, p)
  PROVE  /\ v.ring.next \in Nat /\ v.ring.next >= r.ring.next
         /\ \A t \in Carried(p, r.next) : t < v.ring.next
         /\ \A times : /\ \A t \in times : t < r.ring.next
                       /\ Window(r.ring, times)
                       /\ \A t \in Carried(p, r.next) : v.ring.next - ReceiveCapacity <= t
                       => Window(v.ring, times \cup Carried(p, r.next))
<1>. DEFINE n == Newest(r, p)
            late == IF TooLate(n, p) \/ IsOlderThan(TsMod, p.ts, n.next) THEN Append(n.late, p.seq) ELSE n.late
<1>1. p \in Packets /\ p.ts \in Nat /\ p.seq \in Nat /\ p.ts + PacketFrames <= top /\ Len(p.frames) = PacketFrames
  BY PacketFields DEF Sent
<1>2. Started(r, p) = r BY DEF Started
<1>3. ReaderShape(n) /\ n.mostRecent # NoTime /\ n.ring = r.ring /\ n.next = r.next /\ n.late = r.late
  BY <1>1, NewestIs
<1>4. /\ Near(TsMod, p.ts + PacketFrames, r.next)
      /\ p.ts + PacketFrames > r.next =>
           /\ Near(TsMod, p.ts, r.ring.next) /\ Near(TsMod, p.ts + PacketFrames, r.ring.next)
           /\ GapFits(r.ring.next, p.ts)
  BY <1>2 DEF IsMeant, GapFits, ReaderCells
<1>5. TooLate(n, p) <=> p.ts + PacketFrames <= r.next
  <2>. HIDE DEF n
  <2>1. n.next \in Nat BY <1>3 DEF ReaderShape
  <2>. QED BY <1>3, <1>4, <2>1, LateWhen
<1>6. top \in Nat /\ top < TsMod /\ PacketFrames \in Nat \ {0} /\ r.next \in Nat /\ r.ring.next \in Nat
  BY PacketAssumption DEF Bound, ReaderShape, ReaderRing
<1>7. v = IF TooLate(n, p) THEN [n EXCEPT !.late = late]
          ELSE [n EXCEPT !.late = late, !.ring = Write(ClearUntil(@, p.ts), p.ts, p.frames)]
  BY <1>2 DEF Accept
<1>. HIDE DEF n, late
<1>8. CASE TooLate(n, p)
  <2>1. v = [n EXCEPT !.late = late] BY <1>7, <1>8
  <2>2. v.ring = r.ring BY <1>3, <2>1 DEF ReaderShape
  <2>4. Carried(p, r.next) = {} BY <1>1, <1>5, <1>6, <1>8 DEF Carried
  <2>5. \A times : times \cup Carried(p, r.next) = times BY <2>4
  <2>. QED BY <1>6, <2>2, <2>4, <2>5
<1>9. CASE ~TooLate(n, p)
  <2>. DEFINE c == ClearUntil(r.ring, p.ts)
              w == Write(c, p.ts, p.frames)
  <2>1. v = [n EXCEPT !.late = late, !.ring = w] BY <1>3, <1>7, <1>9
  <2>2. /\ Near(TsMod, p.ts, r.ring.next) /\ Near(TsMod, p.ts + PacketFrames, r.ring.next)
        /\ GapFits(r.ring.next, p.ts) /\ ReaderRing(r.ring)
    BY <1>1, <1>4, <1>5, <1>6, <1>9 DEF ReaderShape
  <2>3. /\ ReaderRing(c) /\ c.next = IF p.ts > r.ring.next THEN p.ts ELSE r.ring.next
        /\ \A t \in r.ring.next..(c.next - 1) : Shows(c, t, Ground)
        /\ \A t \in Int : c.next - ReceiveCapacity <= t /\ t < r.ring.next =>
             \A value : (Shows(r.ring, t, value) => Shows(c, t, value))
    <3>. HIDE DEF c
    <3>1. c = ClearUntil(r.ring, p.ts) BY DEF c
    <3>. QED BY <1>1, <2>2, <3>1, Clearing
  <2>. HIDE DEF c
  <2>4. c.next \in Nat /\ c.next >= r.ring.next /\ c.next >= p.ts BY <1>1, <1>6, <2>3
  <2>5. /\ ReaderRing(w) /\ w.next = IF p.ts + PacketFrames > c.next THEN p.ts + PacketFrames ELSE c.next
        /\ w.next - ReceiveCapacity <= p.ts =>
              /\ \A t \in PacketTimes([ts |-> p.ts]) : Shows(w, t, {t})
              /\ \A t \in Int : w.next - ReceiveCapacity <= t /\ t < w.next /\ t \notin PacketTimes([ts |-> p.ts]) =>
                   \A value : (Shows(c, t, value) => Shows(w, t, value))
    <3>. HIDE DEF w
    <3>1. w = Write(c, p.ts, p.frames) BY DEF w
    <3>2. Near(TsMod, p.ts + PacketFrames, c.next) /\ p.ts + PacketFrames < TsMod
      <4>. DEFINE half == TsMod \div 2
      <4>1. half \in Int /\ (p.ts + PacketFrames) - r.ring.next < half /\ r.ring.next - (p.ts + PacketFrames) < half
        BY <2>2, PacketAssumption DEF Near
      <4>2. c.next = p.ts \/ c.next = r.ring.next BY <2>3
      <4>3. (p.ts + PacketFrames) - c.next < half /\ c.next - (p.ts + PacketFrames) < half
        <5>. HIDE DEF half
        <5>1. CASE c.next = r.ring.next BY <4>1, <5>1
        <5>2. CASE c.next = p.ts /\ p.ts > r.ring.next
          <6>1. c.next - (p.ts + PacketFrames) < 0 /\ (p.ts + PacketFrames) - c.next = PacketFrames
                /\ PacketFrames <= (p.ts + PacketFrames) - r.ring.next
            BY <1>1, <1>6, <5>2
          <6>2. 0 < half BY <1>1, <1>6, <4>1, <5>2
          <6>. QED BY <1>1, <1>6, <4>1, <5>2, <6>1, <6>2
        <5>. QED BY <2>3, <5>1, <5>2
      <4>4. p.ts + PacketFrames < TsMod BY <1>1, <1>6, PacketAssumption
      <4>. QED BY <4>3, <4>4 DEF Near
    <3>3. \A j \in 1..PacketFrames : p.frames[j] = {p.ts + j - 1} BY <1>1, PacketFields
    <3>4. ASSUME NEW ts \in Nat, NEW frames, Len(frames) = PacketFrames,
                 \A j \in 1..PacketFrames : frames[j] = {ts + j - 1},
                 Near(TsMod, ts + PacketFrames, c.next), ts + PacketFrames < TsMod, NEW x, x = Write(c, ts, frames)
          PROVE  /\ ReaderRing(x) /\ x.next = IF ts + PacketFrames > c.next THEN ts + PacketFrames ELSE c.next
                 /\ x.next - ReceiveCapacity <= ts =>
                       /\ \A t \in PacketTimes([ts |-> ts]) : Shows(x, t, {t})
                       /\ \A t \in Int : x.next - ReceiveCapacity <= t /\ t < x.next /\ t \notin PacketTimes([ts |-> ts]) =>
                            \A value : (Shows(c, t, value) => Shows(x, t, value))
      <4>1. ReaderRing(c) BY <2>3
      <4>. QED BY ONLY <3>4, <4>1, Writing
    <3>. QED BY <1>1, <3>1, <3>2, <3>3, <3>4, Zenon
  <2>. HIDE DEF w
  <2>6. w.next \in Nat /\ w.next >= c.next /\ w.next >= p.ts + PacketFrames BY <1>1, <1>6, <2>4, <2>5
  <2>7. v.ring = w BY <1>3, <2>1 DEF ReaderShape
  <2>9. Carried(p, r.next) = PacketTimes(p) /\ PacketTimes([ts |-> p.ts]) = PacketTimes(p)
        /\ PacketTimes(p) = p.ts..(p.ts + PacketFrames - 1)
    BY <1>1, <1>5, <1>6, <1>9 DEF Carried, PacketTimes
  <2>10. \A t \in Carried(p, r.next) : t < w.next BY <1>1, <1>6, <2>6, <2>9
  <2>11. ASSUME NEW times, \A t \in times : t < r.ring.next, Window(r.ring, times),
                \A t \in Carried(p, r.next) : w.next - ReceiveCapacity <= t
         PROVE  Window(w, times \cup Carried(p, r.next))
    <3>0. ReceiveCapacity \in Nat \ {0} BY ReceiverAssumption
    <3>1. w.next - ReceiveCapacity <= p.ts
      <4>1. p.ts \in PacketTimes(p) BY <1>1, <1>6, <2>9
      <4>. QED BY <2>9, <2>11, <4>1
    <3>2. SUFFICES ASSUME NEW t \in (w.next - ReceiveCapacity)..(w.next - 1)
                   PROVE  Shows(w, t, IF t \in times \cup PacketTimes(p) THEN {t} ELSE Ground)
      BY <2>9 DEF Window
    <3>3. t \in Int /\ w.next - ReceiveCapacity <= t /\ t < w.next BY <2>6, <3>0, <3>2
    <3>4. CASE t \in PacketTimes(p)
      <4>1. Shows(w, t, {t}) BY <2>5, <2>9, <3>1, <3>4
      <4>. QED BY <3>4, <4>1
    <3>5. CASE t \notin PacketTimes(p)
      <4>1. \A value : (Shows(c, t, value) => Shows(w, t, value)) BY <2>5, <2>9, <3>1, <3>3, <3>5
      <4>2. t < c.next BY <1>1, <1>6, <2>4, <2>5, <2>6, <2>9, <3>3, <3>5
      <4>3. CASE t >= r.ring.next
        <5>1. t \in r.ring.next..(c.next - 1) BY <1>6, <2>4, <3>3, <4>2, <4>3
        <5>2. Shows(c, t, Ground) BY <2>3, <5>1
        <5>3. t \notin times BY <1>6, <2>11, <3>3, <4>3
        <5>. QED BY <3>5, <4>1, <5>2, <5>3
      <4>4. CASE ~(t >= r.ring.next)
        <5>1. /\ t \in (r.ring.next - ReceiveCapacity)..(r.ring.next - 1)
              /\ c.next - ReceiveCapacity <= t /\ t < r.ring.next
          BY <1>6, <2>4, <2>6, <3>0, <3>3, <4>4
        <5>2. Shows(r.ring, t, IF t \in times THEN {t} ELSE Ground) BY <2>11, <5>1 DEF Window
        <5>3. Shows(c, t, IF t \in times THEN {t} ELSE Ground) BY <2>3, <3>3, <5>1, <5>2
        <5>. QED BY <3>5, <4>1, <5>3
      <4>. QED BY <4>3, <4>4
    <3>. QED BY <3>4, <3>5
  <2>12. v.ring.next \in Nat /\ v.ring.next >= r.ring.next BY <1>6, <2>4, <2>6, <2>7
  <2>. QED BY <2>7, <2>10, <2>11, <2>12
<1>. QED BY <1>8, <1>9

\* The reader in the course of a call that starts to read at some time: while times and places are
\* what the code computes, it shows what it showed before, of the times given, and what the call
\* brought so far, unless that reaches back too far.
Progress(r, next, fine, times, brought) ==
  /\ ReaderShape(r)
  /\ IF r.mostRecent = NoTime
     THEN times = {} /\ brought = {} /\ \A c \in 0..(ReaderCells - 1) : r.ring.cells[c] = Ground
     ELSE /\ r.next = next
          /\ \A t \in times \cup brought : t \in Nat
          /\ fine => /\ \A t \in times \cup brought : t < r.ring.next
                     /\ (\A t \in brought : r.ring.next - ReceiveCapacity <= t) => Window(r.ring, times \cup brought)

\* The first packet of all.
LEMMA StartedIs ==
  ASSUME NEW r, ReaderShape(r), r.mostRecent = NoTime,
         \A c \in 0..(ReaderCells - 1) : r.ring.cells[c] = Ground,
         NEW p \in Packets, NEW v, v = Started(r, p)
  PROVE  /\ ReaderShape(v) /\ v.mostRecent # NoTime /\ v.next = p.ts /\ v.ring.next = p.ts
         /\ Window(v.ring, {})
         /\ Accept(r, p) = Accept(v, p) /\ IsMeant(r, p) = IsMeant(v, p)
<1>1. /\ p.ts \in Nat /\ Len(p.frames) = PacketFrames
      /\ PacketFrames \in Nat \ {0} /\ TsMod \in Nat \ {0} /\ NoTime \notin Nat
  BY PacketFields, PacketAssumption, ReceiverAssumption
<1>2. LastTs(p) \in Nat BY <1>1 DEF LastTs, Increment
<1>. DEFINE ring == [r.ring EXCEPT !.next = p.ts]
<1>3. v = [r EXCEPT !.mostRecent = LastTs(p), !.ring = ring, !.next = p.ts] BY DEF Started, WithNext
<1>4. /\ DOMAIN v = DOMAIN r /\ v.ring = ring /\ v.next = p.ts /\ v.late = r.late /\ v.mostRecent = LastTs(p)
  <2>. HIDE DEF ring
  <2>. QED BY <1>3 DEF ReaderShape
<1>5. ReaderRing(ring) /\ ring.next = p.ts /\ ring.cells = r.ring.cells
  BY <1>1 DEF ReaderRing, ReaderShape
<1>. HIDE DEF ring
<1>6. ReaderShape(v) BY <1>1, <1>2, <1>4, <1>5 DEF ReaderShape
<1>7. Window(v.ring, {})
  <2>1. ASSUME NEW t \in (p.ts - ReceiveCapacity)..(p.ts - 1), NEW i \in 0..(Bpf - 1)
        PROVE  ((t * Bpf) + i) % ReaderCells \in 0..(ReaderCells - 1)
    <3>1. t \in Int BY <1>1, ReceiverAssumption
    <3>. QED BY <1>1, <1>5, <3>1, PlaceOf
  <2>. QED BY <1>4, <1>5, <2>1 DEF Window, Shows
<1>8. Accept(r, p) = Accept(v, p) /\ IsMeant(r, p) = IsMeant(v, p)
  <2>1. Started(r, p) = v OBVIOUS
  <2>2. Started(v, p) = v BY <1>1, <1>2, <1>4 DEF Started
  <2>. QED BY <2>1, <2>2 DEF Accept, IsMeant
<1>. QED BY <1>1, <1>2, <1>4, <1>5, <1>6, <1>7, <1>8

\* One packet, once the reader has begun.
LEMMA BegunProgress ==
  ASSUME NEW top, Bound(top), NEW r, NEW next, NEW fine, NEW times, NEW brought,
         Progress(r, next, fine, times, brought), r.mostRecent # NoTime,
         NEW p \in Sent(top), fine => IsMeant(r, p)
  PROVE  /\ Progress(Accept(r, p), next, fine, times, brought \cup Carried(p, next))
         /\ Accept(r, p).mostRecent # NoTime
<1>1. /\ ReaderShape(r) /\ r.next = next /\ \A t \in times \cup brought : t \in Nat
      /\ fine => /\ \A t \in times \cup brought : t < r.ring.next
                 /\ (\A t \in brought : r.ring.next - ReceiveCapacity <= t) => Window(r.ring, times \cup brought)
  BY DEF Progress
<1>2. PICK v : v = Accept(r, p) OBVIOUS
<1>. DEFINE carried == Carried(p, next)
            more == brought \cup carried
<1>3. p \in Packets /\ p.ts \in Nat /\ PacketFrames \in Nat BY PacketFields, PacketAssumption DEF Sent
<1>4. ReaderShape(v) /\ v.mostRecent # NoTime /\ v.next = next BY <1>1, <1>2, <1>3, AcceptKeeps
<1>5. \A t \in carried : t \in Nat BY <1>3 DEF Carried, PacketTimes
<1>. HIDE DEF carried
<1>6. times \cup more = (times \cup brought) \cup carried OBVIOUS
<1>7. \A t \in times \cup more : t \in Nat BY <1>1, <1>5, <1>6
<1>8. ASSUME fine
      PROVE  /\ \A t \in times \cup more : t < v.ring.next
             /\ (\A t \in more : v.ring.next - ReceiveCapacity <= t) => Window(v.ring, times \cup more)
  <2>1. /\ v.ring.next \in Nat /\ v.ring.next >= r.ring.next
        /\ \A t \in Carried(p, r.next) : t < v.ring.next
        /\ \A set : /\ \A t \in set : t < r.ring.next
                    /\ Window(r.ring, set)
                    /\ \A t \in Carried(p, r.next) : v.ring.next - ReceiveCapacity <= t
                    => Window(v.ring, set \cup Carried(p, r.next))
    BY <1>1, <1>2, <1>8, AcceptStep
  <2>2. Carried(p, r.next) = carried BY <1>1 DEF carried
  <2>3. r.ring.next \in Nat /\ ReceiveCapacity \in Nat BY <1>1, ReceiverAssumption DEF ReaderShape, ReaderRing
  <2>4. \A t \in times \cup more : t < v.ring.next
    <3>1. ASSUME NEW t \in times \cup brought PROVE t < v.ring.next BY <1>1, <1>8, <2>1, <2>3
    <3>. QED BY <1>6, <2>1, <2>2, <3>1
  <2>5. ASSUME \A t \in more : v.ring.next - ReceiveCapacity <= t PROVE Window(v.ring, times \cup more)
    <3>1. ASSUME NEW t \in brought PROVE r.ring.next - ReceiveCapacity <= t
      <4>1. t \in Nat /\ v.ring.next - ReceiveCapacity <= t BY <1>1, <2>5
      <4>. QED BY <2>1, <2>3, <4>1
    <3>2. Window(r.ring, times \cup brought) BY <1>1, <1>8, <3>1
    <3>3. \A t \in carried : v.ring.next - ReceiveCapacity <= t BY <2>5
    <3>4. Window(v.ring, (times \cup brought) \cup carried) BY <1>1, <1>8, <2>1, <2>2, <3>2, <3>3
    <3>. QED BY <1>6, <3>4
  <2>. QED BY <2>4, <2>5
<1>9. Progress(v, next, fine, times, more)
  <2>. HIDE DEF more
  <2>. QED BY <1>4, <1>7, <1>8 DEF Progress
<1>. QED BY <1>2, <1>4, <1>9 DEF carried

\* One packet, which may be the first.
LEMMA AcceptProgress ==
  ASSUME NEW top, Bound(top), NEW r, NEW next, NEW fine, NEW times, NEW brought,
         Progress(r, next, fine, times, brought),
         NEW p \in Sent(top), r.mostRecent = NoTime => next = p.ts, fine => IsMeant(r, p)
  PROVE  /\ Progress(Accept(r, p), next, fine, times, brought \cup Carried(p, next))
         /\ Accept(r, p).mostRecent # NoTime
<1>1. CASE r.mostRecent = NoTime
  <2>1. ReaderShape(r) /\ times = {} /\ brought = {} /\ \A c \in 0..(ReaderCells - 1) : r.ring.cells[c] = Ground
    BY <1>1 DEF Progress
  <2>2. PICK b : b = Started(r, p) OBVIOUS
  <2>3. /\ ReaderShape(b) /\ b.mostRecent # NoTime /\ b.next = p.ts /\ b.ring.next = p.ts
        /\ Window(b.ring, {})
        /\ Accept(r, p) = Accept(b, p) /\ IsMeant(r, p) = IsMeant(b, p)
    <3>1. p \in Packets BY DEF Sent
    <3>. QED BY <1>1, <2>1, <2>2, <3>1, StartedIs
  <2>4. Progress(b, next, fine, times, brought) BY <1>1, <2>1, <2>3 DEF Progress
  <2>5. fine => IsMeant(b, p) BY <2>3
  <2>6. /\ Progress(Accept(b, p), next, fine, times, brought \cup Carried(p, next))
        /\ Accept(b, p).mostRecent # NoTime
    BY <2>3, <2>4, <2>5, BegunProgress
  <2>. QED BY <2>3, <2>6
<1>2. CASE r.mostRecent # NoTime BY <1>2, BegunProgress
<1>. QED BY <1>1, <1>2

\* The times of the frames that some packets bring.
TimesOf(popped, n, next) == UNION {Carried(popped[j], next) : j \in 1..n}

\* The reader after each packet of a stream is Accept of the reader before it.
LEMMA AcceptedIs ==
  ASSUME NEW r, NEW popped, Len(popped) \in Nat
  PROVE  Accepted(r, popped) =
           [i \in 0..Len(popped) |->
              IF i = 0 THEN [r EXCEPT !.late = <<>>] ELSE Accept(Accepted(r, popped)[i - 1], popped[i])]
<1>. DEFINE Step(g, i) == IF i = 0 THEN [r EXCEPT !.late = <<>>] ELSE Accept(g[i - 1], popped[i])
            S == {n \in Nat : \E g : g = [i \in 0..n |-> Step(g, i)]}
<1>1. 0 \in S
  <2>. DEFINE g == [i \in 0..0 |-> [r EXCEPT !.late = <<>>]]
  <2>1. g = [i \in 0..0 |-> Step(g, i)] OBVIOUS
  <2>. QED BY <2>1
<1>2. ASSUME NEW n \in Nat, n \in S PROVE n + 1 \in S
  <2>1. PICK g : g = [i \in 0..n |-> Step(g, i)] BY <1>2
  <2>. DEFINE h == [i \in 0..(n + 1) |-> IF i <= n THEN g[i] ELSE Accept(g[n], popped[n + 1])]
  <2>2. ASSUME NEW i \in 0..(n + 1) PROVE h[i] = Step(h, i)
    <3>1. CASE i = 0 BY <2>1, <3>1
    <3>2. CASE i # 0 /\ i <= n
      <4>1. h[i] = g[i] /\ g[i] = Step(g, i) BY <2>1, <3>2
      <4>2. h[i - 1] = g[i - 1] BY <3>2
      <4>. QED BY <3>2, <4>1, <4>2
    <3>3. CASE i = n + 1
      <4>1. h[i] = Accept(g[n], popped[i]) BY <3>3
      <4>2. h[i - 1] = g[n] BY <3>3
      <4>. QED BY <3>3, <4>1, <4>2
    <3>. QED BY <3>1, <3>2, <3>3
  <2>3. h = [i \in 0..(n + 1) |-> Step(h, i)] BY <2>2
  <2>. HIDE DEF h, Step
  <2>4. \E f : f = [i \in 0..(n + 1) |-> Step(f, i)] BY <2>3
  <2>5. n + 1 \in Nat OBVIOUS
  <2>. QED BY <2>4, <2>5
<1>3. Nat \subseteq S
  <2>. HIDE DEF S
  <2>. QED BY <1>1, <1>2, Induction
<1>4. Len(popped) \in S BY <1>3
<1>5. PICK g : g = [i \in 0..Len(popped) |-> Step(g, i)] BY <1>4
<1>6. Accepted(r, popped) = CHOOSE f : f = [i \in 0..Len(popped) |-> Step(f, i)] BY DEF Accepted
<1>. QED BY <1>5, <1>6

\* The reader after each stream is AfterStream of the reader before it.
LEMMA MergedIs ==
  ASSUME NEW r
  PROVE  Merged(r) = [s \in 0..Cardinality(Streams) |-> IF s = 0 THEN r ELSE AfterStream(Merged(r)[s - 1], s)]
<1>. DEFINE Step(g, i) == IF i = 0 THEN r ELSE AfterStream(g[i - 1], i)
            S == {n \in Nat : \E g : g = [i \in 0..n |-> Step(g, i)]}
<1>1. 0 \in S
  <2>. DEFINE g == [i \in 0..0 |-> r]
  <2>1. g = [i \in 0..0 |-> Step(g, i)] OBVIOUS
  <2>. QED BY <2>1
<1>2. ASSUME NEW n \in Nat, n \in S PROVE n + 1 \in S
  <2>1. PICK g : g = [i \in 0..n |-> Step(g, i)] BY <1>2
  <2>. DEFINE h == [i \in 0..(n + 1) |-> IF i <= n THEN g[i] ELSE AfterStream(g[n], n + 1)]
  <2>2. ASSUME NEW i \in 0..(n + 1) PROVE h[i] = Step(h, i)
    <3>1. CASE i = 0 BY <2>1, <3>1
    <3>2. CASE i # 0 /\ i <= n
      <4>1. h[i] = g[i] /\ g[i] = Step(g, i) BY <2>1, <3>2
      <4>2. h[i - 1] = g[i - 1] BY <3>2
      <4>. QED BY <3>2, <4>1, <4>2
    <3>3. CASE i = n + 1
      <4>1. h[i] = AfterStream(g[n], i) BY <3>3
      <4>2. h[i - 1] = g[n] BY <3>3
      <4>. QED BY <3>3, <4>1, <4>2
    <3>. QED BY <3>1, <3>2, <3>3
  <2>3. h = [i \in 0..(n + 1) |-> Step(h, i)] BY <2>2
  <2>. HIDE DEF h, Step
  <2>4. \E f : f = [i \in 0..(n + 1) |-> Step(f, i)] BY <2>3
  <2>5. n + 1 \in Nat OBVIOUS
  <2>. QED BY <2>4, <2>5
<1>3. Nat \subseteq S
  <2>. HIDE DEF S
  <2>. QED BY <1>1, <1>2, Induction
<1>4. Cardinality(Streams) \in S BY <1>3, ReceiverAssumption
<1>5. PICK g : g = [i \in 0..Cardinality(Streams) |-> Step(g, i)] BY <1>4
<1>6. Merged(r) = CHOOSE f : f = [i \in 0..Cardinality(Streams) |-> Step(f, i)] BY DEF Merged
<1>. QED BY <1>5, <1>6

\* A new call, or stream, starts with no late packets.
LEMMA ForgetsLate ==
  ASSUME NEW r, NEW next, NEW fine, NEW times, NEW brought,
         Progress(r, next, fine, times, brought)
  PROVE  /\ Progress([r EXCEPT !.late = <<>>], next, fine, times, brought)
         /\ [r EXCEPT !.late = <<>>].mostRecent = r.mostRecent
<1>1. PICK v : v = [r EXCEPT !.late = <<>>] OBVIOUS
<1>2. ReaderShape(r) BY DEF Progress
<1>3. DOMAIN v = DOMAIN r /\ v.ring = r.ring /\ v.next = r.next /\ v.late = <<>> /\ v.mostRecent = r.mostRecent
  BY <1>1, <1>2 DEF ReaderShape
<1>4. ReaderShape(v) BY <1>2, <1>3 DEF ReaderShape
<1>5. Progress(v, next, fine, times, brought) BY <1>3, <1>4 DEF Progress
<1>. QED BY <1>1, <1>3, <1>5

\* The packets of a stream: the reader has begun after them, if there are any.
StreamMerged(v, r, popped, next, fine, times, brought) ==
  /\ Progress(v, next, fine, times, brought \cup TimesOf(popped, Len(popped), next))
  /\ v.mostRecent = NoTime => r.mostRecent = NoTime /\ Len(popped) = 0

\* The packets of one stream are merged one after the other.
LEMMA StreamProgress ==
  ASSUME NEW top, Bound(top), NEW r, NEW next, NEW fine, NEW times, NEW brought,
         Progress(r, next, fine, times, brought),
         NEW popped \in Seq(Sent(top)),
         r.mostRecent = NoTime /\ Len(popped) # 0 => next = popped[1].ts,
         fine => \A i \in 1..Len(popped) : IsMeant(Accepted(r, popped)[i - 1], popped[i])
  PROVE  StreamMerged(Accepted(r, popped)[Len(popped)], r, popped, next, fine, times, brought)
<1>. DEFINE after == Accepted(r, popped)
            Fine(n) == /\ Progress(after[n], next, fine, times, brought \cup TimesOf(popped, n, next))
                       /\ after[n].mostRecent = NoTime => r.mostRecent = NoTime /\ n = 0
            S == {n \in Nat : n <= Len(popped) => Fine(n)}
<1>1. Len(popped) \in Nat /\ \A i \in 1..Len(popped) : popped[i] \in Sent(top) OBVIOUS
<1>2. after = [i \in 0..Len(popped) |->
                 IF i = 0 THEN [r EXCEPT !.late = <<>>] ELSE Accept(after[i - 1], popped[i])]
  BY <1>1, AcceptedIs
<1>0. fine => \A i \in 1..Len(popped) : IsMeant(after[i - 1], popped[i]) OBVIOUS
<1>. HIDE DEF after
<1>3. 0 \in S
  <2>1. after[0] = [r EXCEPT !.late = <<>>] BY <1>1, <1>2
  <2>2. brought \cup TimesOf(popped, 0, next) = brought BY DEF TimesOf
  <2>3. /\ Progress([r EXCEPT !.late = <<>>], next, fine, times, brought)
        /\ [r EXCEPT !.late = <<>>].mostRecent = r.mostRecent
    BY ForgetsLate
  <2>4. Fine(0) BY <2>1, <2>2, <2>3
  <2>. HIDE DEF Fine
  <2>. QED BY <2>4
<1>4. ASSUME NEW n \in Nat, n \in S PROVE n + 1 \in S
  <2>1. SUFFICES ASSUME n + 1 <= Len(popped) PROVE Fine(n + 1)
    OBVIOUS
  <2>2. Fine(n) BY <1>1, <1>4, <2>1
  <2>3. after[n + 1] = Accept(after[n], popped[n + 1])
    <3>1. n + 1 \in 0..Len(popped) /\ n + 1 # 0 /\ (n + 1) - 1 = n BY <1>1, <2>1
    <3>. QED BY <1>2, <3>1
  <2>4. popped[n + 1] \in Sent(top) BY <1>1, <2>1
  <2>5. after[n].mostRecent = NoTime => next = popped[n + 1].ts BY <2>1, <2>2
  <2>. DEFINE so == brought \cup TimesOf(popped, n, next)
  <2>6. so \cup Carried(popped[n + 1], next) = brought \cup TimesOf(popped, n + 1, next)
    <3>1. TimesOf(popped, n + 1, next) = TimesOf(popped, n, next) \cup Carried(popped[n + 1], next)
      <4>1. 1..(n + 1) = (1..n) \cup {n + 1} OBVIOUS
      <4>. QED BY <4>1 DEF TimesOf
    <3>. QED BY <3>1
  <2>. HIDE DEF so
  <2>7. Progress(after[n], next, fine, times, so) BY <2>2 DEF so
  <2>8. /\ Progress(Accept(after[n], popped[n + 1]), next, fine, times, so \cup Carried(popped[n + 1], next))
        /\ Accept(after[n], popped[n + 1]).mostRecent # NoTime
    <3>1. fine => IsMeant(after[n], popped[n + 1])
      <4>1. n + 1 \in 1..Len(popped) /\ (n + 1) - 1 = n BY <1>1, <2>1
      <4>. QED BY <1>0, <4>1
    <3>. QED BY <2>4, <2>5, <2>7, <3>1, AcceptProgress
  <2>. QED BY <2>3, <2>6, <2>8
<1>5. Nat \subseteq S
  <2>. HIDE DEF S
  <2>. QED BY <1>3, <1>4, Induction
<1>6. Fine(Len(popped))
  <2>. HIDE DEF Fine
  <2>. QED BY <1>1, <1>5
<1>. QED BY <1>6 DEF after, StreamMerged

\* The packets that a call takes out of the fifos, of the first streams.
TimesFrom(n, next) == UNION {TimesOf(Popped(s), Len(Popped(s)), next) : s \in 1..n}

\* The fifos hold packets that were sent.
PacketsWaiting(top) ==
  /\ DOMAIN stream = Streams
  /\ \A s \in Streams : /\ DOMAIN stream[s] = {"packets", "tooOld", "stats", "state"}
                        /\ stream[s].packets \in Seq(Sent(top)) /\ stream[s].tooOld \in Seq(Nat)

\* What a call takes from a fifo are packets that were sent.
LEMMA PoppedIs ==
  ASSUME NEW top, PacketsWaiting(top), NEW s \in Streams
  PROVE  Popped(s) \in Seq(Sent(top))
<1>1. stream[s].packets \in Seq(Sent(top)) BY DEF PacketsWaiting
<1>2. Len(stream[s].packets) \in Nat BY <1>1
<1>3. PoppedCount(s) \in Nat /\ PoppedCount(s) <= Len(stream[s].packets)
  <2>. DEFINE len == Len(stream[s].packets)
  <2>1. len \in Nat BY <1>2
  <2>. HIDE DEF len
  <2>2. (len + 1) \div 2 \in Nat /\ (len + 1) \div 2 <= len BY <2>1
  <2>. QED BY <2>2 DEF PoppedCount, len
<1>4. SubSeq(stream[s].packets, 1, PoppedCount(s)) \in Seq(Sent(top)) BY <1>1, <1>3, Cuts
<1>. QED BY <1>4 DEF Popped

\* All of them.
LEMMA MergedProgress ==
  ASSUME NEW top, Bound(top), PacketsWaiting(top), NEW at, NEW fine, NEW times,
         Progress(ReaderAt(at), Start(at), fine, times, {}), fine => AllMeant(ReaderAt(at))
  PROVE  \A n \in 0..Cardinality(Streams) :
           Progress(Merged(ReaderAt(at))[n], Start(at), fine, times, TimesFrom(n, Start(at)))
<1>. DEFINE next == Start(at)
            r == ReaderAt(at)
            after == Merged(r)
            Fine(n) == /\ Progress(after[n], next, fine, times, TimesFrom(n, next))
                       /\ after[n].mostRecent = NoTime =>
                            r.mostRecent = NoTime /\ \A s \in 1..n : Popped(s) = <<>>
            S == {n \in Nat : n <= Cardinality(Streams) => Fine(n)}
<1>1. Cardinality(Streams) \in Nat /\ Streams = 1..Cardinality(Streams) BY ReceiverAssumption
<1>2. after = [s \in 0..Cardinality(Streams) |-> IF s = 0 THEN r ELSE AfterStream(after[s - 1], s)] BY MergedIs
<1>3. reader.mostRecent = NoTime /\ {s \in Streams : Popped(s) # <<>>} # {} =>
        next = Head(Popped(Min({s \in Streams : Popped(s) # <<>>}))).ts
  BY DEF Start
<1>4. r.mostRecent = reader.mostRecent BY DEF ReaderAt
<1>5. Progress(r, next, fine, times, {}) OBVIOUS
<1>0. fine => \A s \in Streams : \A i \in 1..Len(Popped(s)) : IsMeant(Accepted(after[s - 1], Popped(s))[i - 1], Popped(s)[i])
  BY DEF AllMeant
<1>. HIDE DEF after, next, r
<1>6. 0 \in S
  <2>1. after[0] = r BY <1>1, <1>2
  <2>2. TimesFrom(0, next) = {} BY DEF TimesFrom
  <2>3. Fine(0) BY <1>5, <2>1, <2>2
  <2>. HIDE DEF Fine
  <2>. QED BY <2>3
<1>7. ASSUME NEW n \in Nat, n \in S PROVE n + 1 \in S
  <2>1. SUFFICES ASSUME n + 1 <= Cardinality(Streams) PROVE Fine(n + 1)
    OBVIOUS
  <2>2. Fine(n) BY <1>1, <1>7, <2>1
  <2>. DEFINE popped == Popped(n + 1)
              so == TimesFrom(n, next)
  <2>3. n + 1 \in Streams BY <1>1, <2>1
  <2>4. popped \in Seq(Sent(top)) BY <2>3, PoppedIs
  <2>5. after[n + 1] = Accepted(after[n], popped)[Len(popped)]
    <3>1. n + 1 \in 0..Cardinality(Streams) /\ n + 1 # 0 /\ (n + 1) - 1 = n BY <1>1, <2>1
    <3>. QED BY <1>2, <3>1 DEF AfterStream
  <2>6. after[n].mostRecent = NoTime /\ popped # <<>> => next = popped[1].ts
    <3>1. SUFFICES ASSUME after[n].mostRecent = NoTime, popped # <<>> PROVE next = popped[1].ts
      OBVIOUS
    <3>. DEFINE some == {s \in Streams : Popped(s) # <<>>}
    <3>2. n + 1 \in some BY <2>3, <3>1
    <3>3. some \subseteq Nat BY <1>1
    <3>4. \A s \in 1..n : s \notin some BY <2>2, <3>1
    <3>5. Min(some) = n + 1
      <4>. HIDE DEF some
      <4>1. Min(some) \in some /\ \A m \in some : Min(some) <= m BY <3>2, <3>3, MinOfSome
      <4>2. Min(some) \in Nat /\ Min(some) <= n + 1 BY <3>2, <3>3, <4>1
      <4>3. Min(some) \in 1..Cardinality(Streams) BY <1>1, <4>1 DEF some
      <4>4. ~(Min(some) <= n)
        <5>1. SUFFICES ASSUME Min(some) <= n PROVE FALSE OBVIOUS
        <5>2. Min(some) \in 1..n BY <4>2, <4>3, <5>1
        <5>. QED BY <3>4, <4>1, <5>2
      <4>. QED BY <4>2, <4>4
    <3>6. next = Head(Popped(Min(some))).ts BY <1>3, <1>4, <2>2, <3>1, <3>2
    <3>7. next = Head(popped).ts BY <3>5, <3>6
    <3>8. Head(popped) = popped[1]
      <4>. HIDE DEF popped
      <4>. QED BY <2>4, <3>1
    <3>. QED BY <3>7, <3>8
  <2>. HIDE DEF popped
  <2>7. so \cup TimesOf(popped, Len(popped), next) = TimesFrom(n + 1, next)
    <3>1. 1..(n + 1) = (1..n) \cup {n + 1} OBVIOUS
    <3>. QED BY <3>1 DEF TimesFrom, popped
  <2>. HIDE DEF so
  <2>8. Progress(after[n], next, fine, times, so) BY <2>2 DEF so
  <2>9. /\ Progress(after[n + 1], next, fine, times, so \cup TimesOf(popped, Len(popped), next))
        /\ after[n + 1].mostRecent = NoTime => after[n].mostRecent = NoTime /\ popped = <<>>
    <3>1. ASSUME NEW b, NEW u, NEW q \in Seq(Sent(top)), Progress(b, next, fine, times, u),
                 b.mostRecent = NoTime /\ Len(q) # 0 => next = q[1].ts,
                 fine => \A i \in 1..Len(q) : IsMeant(Accepted(b, q)[i - 1], q[i])
          PROVE  StreamMerged(Accepted(b, q)[Len(q)], b, q, next, fine, times, u)
      BY <3>1, StreamProgress, Zenon
    <3>2. Len(popped) # 0 => popped # <<>> OBVIOUS
    <3>3. Len(popped) = 0 => popped = <<>> BY <2>4
    <3>5. fine => \A i \in 1..Len(popped) : IsMeant(Accepted(after[n], popped)[i - 1], popped[i])
      <4>1. (n + 1) - 1 = n BY <1>7
      <4>. QED BY <1>0, <2>3, <4>1 DEF popped
    <3>4. StreamMerged(after[n + 1], after[n], popped, next, fine, times, so)
      BY <2>4, <2>5, <2>6, <2>8, <3>1, <3>2, <3>5, Zenon
    <3>. QED BY <3>3, <3>4 DEF StreamMerged
  <2>10. after[n + 1].mostRecent = NoTime => r.mostRecent = NoTime /\ \A s \in 1..(n + 1) : Popped(s) = <<>>
    BY <2>2, <2>9 DEF popped
  <2>. QED BY <2>7, <2>9, <2>10
<1>8. Nat \subseteq S
  <2>. HIDE DEF S
  <2>. QED BY <1>6, <1>7, Induction
<1>9. ASSUME NEW n \in 0..Cardinality(Streams) PROVE Fine(n)
  <2>. HIDE DEF Fine
  <2>. QED BY <1>1, <1>8
<1>. QED BY <1>9 DEF after, next, r

\* They bring what the history says.
LEMMA BroughtIs ==
  ASSUME NEW top, PacketsWaiting(top), NEW next
  PROVE  Brought(next) = TimesFrom(Cardinality(Streams), next)
<1>1. Streams = 1..Cardinality(Streams) BY ReceiverAssumption
<1>2. ASSUME NEW s \in Streams
      PROVE  ToSet(Popped(s)) = {Popped(s)[j] : j \in 1..Len(Popped(s))}
  <2>1. Popped(s) \in Seq(Sent(top)) BY PoppedIs
  <2>2. DOMAIN Popped(s) = 1..Len(Popped(s)) BY <2>1
  <2>. QED BY <2>2 DEF ToSet
<1>3. ASSUME NEW t PROVE t \in Brought(next) <=> t \in TimesFrom(Cardinality(Streams), next)
  <2>1. t \in Brought(next) <=>
          \E s \in Streams : \E j \in 1..Len(Popped(s)) :
            Popped(s)[j].ts + PacketFrames > next /\ t \in PacketTimes(Popped(s)[j])
    BY <1>2 DEF Brought
  <2>2. t \in TimesFrom(Cardinality(Streams), next) <=>
          \E s \in Streams : \E j \in 1..Len(Popped(s)) : t \in Carried(Popped(s)[j], next)
    <3>1. ASSUME NEW p, NEW n PROVE t \in TimesOf(p, n, next) <=> \E j \in 1..n : t \in Carried(p[j], next)
      BY DEF TimesOf
    <3>2. t \in TimesFrom(Cardinality(Streams), next) <=>
            \E s \in 1..Cardinality(Streams) : t \in TimesOf(Popped(s), Len(Popped(s)), next)
      BY DEF TimesFrom
    <3>. QED BY <1>1, <3>1, <3>2
  <2>3. ASSUME NEW p PROVE t \in Carried(p, next) <=> p.ts + PacketFrames > next /\ t \in PacketTimes(p)
    BY DEF Carried
  <2>. QED BY <2>1, <2>2, <2>3
<1>. QED BY <1>3

-----------------------------------------------------------------------------
(***************************************************************************)
(* The inductive invariant of the receiver's buffer                        *)
(***************************************************************************)

\* No packet reaches behind the last timestamp.
PacketsInTime ==
  /\ writer.outgoing \in Seq(Sent(scenario.maxTs))
  /\ \A s \in Streams : wire[s] \subseteq Sent(scenario.maxTs)

\* The buffer shows what has arrived, and else silence, as far as it reaches.
BufferShows ==
  /\ DOMAIN reader = {"ring", "mostRecent", "next"}
  /\ ReaderRing(reader.ring)
  /\ reader.mostRecent \in Nat \cup {NoTime}
  /\ reader.next \in Nat
  /\ IF reader.mostRecent = NoTime
     THEN arrived = {} /\ \A c \in 0..(ReaderCells - 1) : reader.ring.cells[c] = Ground
     ELSE /\ \A t \in arrived : t \in Nat
          /\ ~overrun /\ ~mistaken => (\A t \in arrived : t < reader.ring.next) /\ Window(reader.ring, arrived)

\* The inductive invariant.
ReaderInv == scenario \in Scenarios /\ PacketsInTime /\ PacketsWaiting(scenario.maxTs) /\ BufferShows

\* Nothing has arrived, and the buffer is silent.
LEMMA ReaderInvInit == Init => ReaderInv
<1>. SUFFICES ASSUME Init PROVE ReaderInv OBVIOUS
<1>1. scenario \in Scenarios /\ scenario.maxTs \in Nat /\ ReceiveCapacity \in Nat \ {0} /\ NoTime \notin Nat
  BY ScenarioAssumption, ReceiverAssumption DEF Init
<1>2. PacketsInTime
  <2>1. writer.outgoing = <<>> /\ wire = [s \in Streams |-> {}] BY DEF Init, SenderInit
  <2>2. <<>> \in Seq(Sent(scenario.maxTs)) OBVIOUS
  <2>. QED BY <2>1, <2>2 DEF PacketsInTime
<1>3. PacketsWaiting(scenario.maxTs)
  <2>1. stream = [s \in Streams |-> NewStream] BY DEF Init, ReceiverInit
  <2>2. <<>> \in Seq(Sent(scenario.maxTs)) /\ <<>> \in Seq(Nat) OBVIOUS
  <2>3. /\ DOMAIN NewStream = {"packets", "tooOld", "stats", "state"}
        /\ NewStream.packets = <<>> /\ NewStream.tooOld = <<>>
    BY DEF NewStream
  <2>. QED BY <2>1, <2>2, <2>3 DEF PacketsWaiting
<1>4. BufferShows
  <2>1. /\ reader = [ring |-> NewRing(ReceiveCapacity), mostRecent |-> NoTime, next |-> 0]
        /\ arrived = {}
    BY DEF Init, ReceiverInit
  <2>2. NewRing(ReceiveCapacity) =
          [capacity |-> ReceiveCapacity, next |-> 0, cells |-> [i \in 0..(ReaderCells - 1) |-> Ground]]
    BY DEF NewRing, ReaderCells
  <2>3. ReaderRing(NewRing(ReceiveCapacity)) /\ NewRing(ReceiveCapacity).next = 0
        /\ \A c \in 0..(ReaderCells - 1) : NewRing(ReceiveCapacity).cells[c] = Ground
    BY <2>2 DEF ReaderRing
  <2>. QED BY <1>1, <2>1, <2>3 DEF BufferShows
<1>. QED BY <1>1, <1>2, <1>3, <1>4 DEF ReaderInv

\* The sender's own steps.
LEMMA SentInTime ==
  ASSUME SenderInv, ReaderInv, SendAudio \/ SenderStep
  PROVE  ReaderInv'
<1>1. UNCHANGED <<receiverVars, linkVars>> BY DEF SendAudio, SenderStep
<1>2. DOMAIN writer = {"ring", "packetTs", "seq", "outgoing"} BY DEF SenderInv, WaitingFits
<1>3. scenario.maxTs \in Nat /\ PacketFrames \in Nat
  BY ScenarioAssumption, PacketAssumption DEF ReaderInv
<1>4. writer.outgoing \in Seq(Sent(scenario.maxTs)) /\ \A s \in Streams : wire[s] \subseteq Sent(scenario.maxTs)
  BY DEF ReaderInv, PacketsInTime
<1>5. PacketsInTime'
  <2>1. CASE SendAudio
    <3>1. writer'.outgoing = writer.outgoing /\ wire' = wire
      BY <1>2, <2>1 DEF SendAudio, Schedule
    <3>. QED BY <1>1, <1>4, <3>1 DEF PacketsInTime, linkVars
  <2>2. CASE SchedulePacket
    <3>1. /\ NextPacket \in Packets /\ writer.packetTs + PacketFrames < writer.ring.next
      BY <2>2, NextPacketCarries, FullPacket DEF SchedulePacket
    <3>2. NextPacket \in Sent(scenario.maxTs)
      <4>1. writer.ring.next \in Nat /\ writer.ring.next <= scenario.maxTs /\ writer.packetTs \in Nat
        BY DEF SenderInv, WaitingFits, RingOK
      <4>2. NextPacket.ts = writer.packetTs BY DEF NextPacket
      <4>. QED BY <1>3, <3>1, <4>1, <4>2 DEF Sent
    <3>. DEFINE outgoing == IF Len(writer.outgoing) < OutgoingCapacity
                            THEN Append(writer.outgoing, NextPacket) ELSE writer.outgoing
    <3>3. outgoing \in Seq(Sent(scenario.maxTs))
      <4>. DEFINE set == Sent(scenario.maxTs)
                  packet == NextPacket
      <4>1. packet \in set /\ writer.outgoing \in Seq(set) BY <1>4, <3>2
      <4>. HIDE DEF set, packet
      <4>2. Append(writer.outgoing, packet) \in Seq(set) BY <4>1
      <4>. QED BY <4>1, <4>2 DEF set, packet
    <3>4. writer'.outgoing = outgoing /\ wire' = wire
      <4>1. writer' = [writer EXCEPT !.outgoing = outgoing, !.seq = Increment(SeqNumMod, @, 1),
                                     !.packetTs = Increment(TsMod, @, PacketFrames)]
        BY <2>2 DEF SchedulePacket
      <4>. HIDE DEF outgoing
      <4>. QED BY <1>2, <2>2, <4>1 DEF SchedulePacket
    <3>. HIDE DEF outgoing
    <3>. QED BY <1>1, <1>4, <3>3, <3>4 DEF PacketsInTime, linkVars
  <2>3. CASE Scheduled
    <3>1. writer'.outgoing = writer.outgoing /\ wire' = wire BY <2>3 DEF Scheduled
    <3>. QED BY <1>1, <1>4, <3>1 DEF PacketsInTime, linkVars
  <2>4. CASE SendOutgoingPacket
    <3>1. /\ writer.outgoing # <<>> /\ writer'.outgoing = Tail(writer.outgoing)
          /\ wire' = [s \in Streams |-> wire[s] \cup {Head(writer.outgoing)}]
      BY <1>2, <2>4 DEF SendOutgoingPacket
    <3>2. Head(writer.outgoing) \in Sent(scenario.maxTs) /\ Tail(writer.outgoing) \in Seq(Sent(scenario.maxTs))
      <4>. DEFINE set == Sent(scenario.maxTs)
      <4>1. writer.outgoing \in Seq(set) BY <1>4
      <4>. HIDE DEF set
      <4>2. Head(writer.outgoing) \in set /\ Tail(writer.outgoing) \in Seq(set) BY <3>1, <4>1
      <4>. QED BY <4>2 DEF set
    <3>3. \A s \in Streams : wire'[s] \subseteq Sent(scenario.maxTs) BY <1>4, <3>1, <3>2
    <3>. QED BY <1>1, <3>1, <3>2, <3>3 DEF PacketsInTime, linkVars
  <2>. QED BY <2>1, <2>2, <2>3, <2>4 DEF SenderStep
<1>6. PacketsWaiting(scenario.maxTs)' /\ BufferShows'
  BY <1>1 DEF ReaderInv, PacketsWaiting, BufferShows, receiverVars, linkVars
<1>. QED BY <1>1, <1>5, <1>6 DEF ReaderInv, linkVars

\* A packet that arrives waits in its fifo.
LEMMA ArrivesInTime ==
  ASSUME ReaderInv, PacketArrives
  PROVE  ReaderInv'
<1>0. PICK s \in Streams : \E packet \in wire[s] : ReceivePacket(s, packet) BY DEF PacketArrives
<1>1. PICK packet \in wire[s] : ReceivePacket(s, packet) BY <1>0
<1>2. UNCHANGED <<senderVars, scenario, arrived, overrun, mistaken, reader>> BY <1>1 DEF PacketArrives, ReceivePacket
<1>3. PacketsInTime' /\ BufferShows' /\ (scenario \in Scenarios)'
  BY <1>2 DEF ReaderInv, PacketsInTime, BufferShows, senderVars
<1>. DEFINE set == Sent(scenario.maxTs)
            packets == IF Len(stream[s].packets) < FifoCapacity THEN Append(stream[s].packets, packet) ELSE stream[s].packets
<1>4. packet \in set BY DEF ReaderInv, PacketsInTime
<1>5. /\ DOMAIN stream = Streams
      /\ \A r \in Streams : /\ DOMAIN stream[r] = {"packets", "tooOld", "stats", "state"}
                            /\ stream[r].packets \in Seq(set) /\ stream[r].tooOld \in Seq(Nat)
  BY DEF ReaderInv, PacketsWaiting
<1>. HIDE DEF set
<1>6. packets \in Seq(set) BY <1>4, <1>5
<1>7. PICK state : stream' = [stream EXCEPT ![s] = [stream[s] EXCEPT !.packets = packets, !.state = state]]
  <2>1. stream' = [stream EXCEPT ![s].packets = packets, ![s].state = ActiveState(s)]
    BY <1>1 DEF ReceivePacket
  <2>. HIDE DEF packets
  <2>2. stream' = [stream EXCEPT ![s] = [stream[s] EXCEPT !.packets = packets, !.state = ActiveState(s)]]
    BY <1>5, <2>1
  <2>. QED BY <2>2
<1>. HIDE DEF packets
<1>8. PacketsWaiting(scenario.maxTs)'
  <2>1. /\ DOMAIN stream' = Streams
        /\ \A r \in Streams : /\ DOMAIN stream'[r] = {"packets", "tooOld", "stats", "state"}
                              /\ stream'[r].packets \in Seq(set) /\ stream'[r].tooOld \in Seq(Nat)
    BY <1>5, <1>6, <1>7
  <2>. QED BY <1>2, <2>1 DEF PacketsWaiting, set
<1>. QED BY <1>3, <1>8 DEF ReaderInv

\* The rest of the network thread touches no packet.
LEMMA NetworkInTime ==
  ASSUME ReaderInv, NetworkThread
  PROVE  ReaderInv'
<1>1. UNCHANGED <<senderVars, linkVars, reader>> BY DEF NetworkThread, FinishPacket, Maintenance, Silence
<1>2. PacketsInTime' /\ BufferShows' /\ (scenario \in Scenarios)'
  BY <1>1 DEF ReaderInv, PacketsInTime, BufferShows, senderVars, linkVars
<1>. DEFINE set == Sent(scenario.maxTs)
<1>3. /\ DOMAIN stream = Streams
      /\ \A r \in Streams : /\ DOMAIN stream[r] = {"packets", "tooOld", "stats", "state"}
                            /\ stream[r].packets \in Seq(set) /\ stream[r].tooOld \in Seq(Nat)
  BY DEF ReaderInv, PacketsWaiting
<1>. HIDE DEF set
<1>4. /\ DOMAIN stream' = Streams
      /\ \A r \in Streams : /\ DOMAIN stream'[r] = {"packets", "tooOld", "stats", "state"}
                            /\ stream'[r].packets \in Seq(set) /\ stream'[r].tooOld \in Seq(Nat)
  <2>1. CASE FinishPacket
    <3>1. PICK stats, state, s : 
            stream' = [stream EXCEPT ![s].state = state, ![s].tooOld = <<>>, ![s].stats = stats]
      <4>1. stream' = [stream EXCEPT
              ![storing.s].state = storing.state, ![storing.s].tooOld = <<>>,
              ![storing.s].stats = UpdateStats(AfterMarks(stream[storing.s].stats, stream[storing.s].tooOld), storing.seq)]
        BY <2>1 DEF FinishPacket
      <4>. QED BY <4>1
    <3>2. <<>> \in Seq(Nat) OBVIOUS
    <3>. QED BY <1>3, <3>1, <3>2
  <2>2. CASE Maintenance
    <3>1. stream' = [s \in Streams |-> [stream[s] EXCEPT !.state = ActiveState(s)]] BY <2>2 DEF Maintenance
    <3>. QED BY <1>3, <3>1
  <2>3. CASE \E s \in Streams : Silence(s)
    <3>1. stream' = stream BY <2>3 DEF Silence
    <3>. QED BY <1>3, <3>1
  <2>. QED BY <2>1, <2>2, <2>3 DEF NetworkThread
<1>5. PacketsWaiting(scenario.maxTs)' BY <1>1, <1>4 DEF PacketsWaiting, set, linkVars
<1>. QED BY <1>2, <1>5 DEF ReaderInv

\* What the fifos hold after a call.
LEMMA DrainedIs ==
  ASSUME NEW set, NEW st, DOMAIN st = {"packets", "tooOld", "stats", "state"},
         st.packets \in Seq(set), st.tooOld \in Seq(Nat),
         NEW late \in Seq(Nat), NEW popped \in Nat, NEW v, v = Drained(st, late, popped)
  PROVE  /\ DOMAIN v = {"packets", "tooOld", "stats", "state"}
         /\ v.packets \in Seq(set) /\ v.tooOld \in Seq(Nat)
         /\ v.stats = st.stats
<1>1. CASE st.state = "no_consumer"
  <2>1. v = [st EXCEPT !.packets = <<>>, !.tooOld = <<>>] BY <1>1 DEF Drained
  <2>2. <<>> \in Seq(set) /\ <<>> \in Seq(Nat) OBVIOUS
  <2>. QED BY <2>1, <2>2
<1>2. CASE st.state # "no_consumer"
  <2>. DEFINE all == st.tooOld \o late
              top == Min({FifoCapacity, Len(all)})
              packets == SubSeq(st.packets, popped + 1, Len(st.packets))
              marks == SubSeq(all, 1, top)
  <2>1. v = [st EXCEPT !.packets = packets, !.tooOld = marks] BY <1>2 DEF Drained
  <2>2. packets \in Seq(set)
    <3>1. popped + 1 \in Nat /\ popped + 1 >= 1 /\ Len(st.packets) \in Nat OBVIOUS
    <3>. QED BY <3>1, Cuts
  <2>3. all \in Seq(Nat) /\ Len(all) \in Nat OBVIOUS
  <2>. HIDE DEF all
  <2>4. top \in Nat /\ top <= Len(all)
    <3>. DEFINE both == {FifoCapacity, Len(all)}
    <3>1. both \subseteq Nat /\ both # {} /\ Len(all) \in both BY <2>3, ReceiverAssumption
    <3>. HIDE DEF both
    <3>2. Min(both) \in both /\ Min(both) <= Len(all) BY <3>1, MinOfSome
    <3>. QED BY <3>1, <3>2 DEF both
  <2>. HIDE DEF top
  <2>5. marks \in Seq(Nat) BY <2>3, <2>4, Cuts
  <2>. HIDE DEF packets, marks
  <2>. QED BY <2>1, <2>2, <2>5
<1>. QED BY <1>1, <1>2

\* Where a call starts, and what the reader shows then.
LEMMA CallStarts ==
  ASSUME ReaderInv, NEW at \in Seeks
  PROVE  Progress(ReaderAt(at), Start(at), ~overrun /\ ~mistaken, arrived, {})
<1>. DEFINE r == ReaderAt(at)
<1>1. scenario.maxTs \in Nat /\ NoTime \notin Nat
  BY ScenarioAssumption, ReceiverAssumption DEF ReaderInv
<1>2. /\ DOMAIN r = {"ring", "mostRecent", "late", "next"}
      /\ r.ring = reader.ring /\ r.mostRecent = reader.mostRecent /\ r.late = <<>>
      /\ r.next = IF at = NoTime THEN reader.next ELSE at
  BY DEF ReaderAt
<1>3. ReaderRing(reader.ring) /\ reader.mostRecent \in Nat \cup {NoTime} /\ reader.next \in Nat
  BY DEF ReaderInv, BufferShows
<1>4. r.next \in Nat
  BY <1>1, <1>2, <1>3 DEF Seeks
<1>5. <<>> \in Seq(Nat) OBVIOUS
<1>. HIDE DEF r
<1>6. ReaderShape(r) BY <1>2, <1>3, <1>4, <1>5 DEF ReaderShape
<1>7. CASE reader.mostRecent = NoTime
  <2>1. arrived = {} /\ \A c \in 0..(ReaderCells - 1) : reader.ring.cells[c] = Ground
    BY <1>7 DEF ReaderInv, BufferShows
  <2>. QED BY <1>2, <1>6, <1>7, <2>1 DEF Progress, r
<1>8. CASE reader.mostRecent # NoTime
  <2>1. /\ \A t \in arrived : t \in Nat
        /\ ~overrun /\ ~mistaken => (\A t \in arrived : t < reader.ring.next) /\ Window(reader.ring, arrived)
    BY <1>8 DEF ReaderInv, BufferShows
  <2>2. Start(at) = r.next BY <1>8 DEF Start, r
  <2>3. arrived \cup {} = arrived OBVIOUS
  <2>4. Progress(r, Start(at), ~overrun /\ ~mistaken, arrived, {}) BY <1>2, <1>6, <1>8, <2>1, <2>2, <2>3 DEF Progress
  <2>. QED BY <2>4 DEF r
<1>. QED BY <1>7, <1>8

\* The reader's call.
LEMMA ReadsInTime ==
  ASSUME ReaderInv, ReadAudio
  PROVE  ReaderInv'
<1>1. PICK count \in scenario.reads, at \in Seeks, delay \in scenario.delays :
        /\ ReadData(at, count, delay)
        /\ LET next == Start(at)
               brought == Brought(next)
               edge == reader'.ring.next
               isRead(t) == reader'.next # next /\ \E r \in next..(next + count - 1) : (r - t) % ReceiveCapacity = 0
           IN  /\ next + count <= scenario.maxTs
               /\ arrived' = {t \in arrived \cup brought : edge - t <= ReceiveCapacity /\ ~isRead(t)}
               /\ overrun' = (overrun \/ \E t \in {u \in arrived : u >= next} \cup brought : edge - t > ReceiveCapacity)
               /\ mistaken' = (mistaken \/ ~AllMeant(ReaderAt(at)))
  BY DEF ReadAudio
<1>2. UNCHANGED <<senderVars, scenario, got>> BY DEF ReadAudio
<1>. DEFINE top == scenario.maxTs
            next == Start(at)
            brought == Brought(next)
            merged == Merged(ReaderAt(at))
            r == merged[Cardinality(Streams)]
            reads == CanRead(r, count, delay)
            fine == ~overrun /\ ~mistaken'
<1>3. /\ top \in Nat /\ count \in Nat /\ ReceiveCapacity \in Nat \ {0} /\ NoTime \notin Nat
      /\ Cardinality(Streams) \in Nat /\ Streams = 1..Cardinality(Streams)
      /\ TsMod \in Nat \ {0} /\ PacketFrames \in Nat
  BY ScenarioAssumption, ReceiverAssumption, PacketAssumption DEF ReaderInv
<1>4. Bound(top)
  <2>1. scenario \in Scenarios /\ top + PacketFrames < TsMod BY ScenarioAssumption DEF ReaderInv
  <2>. QED BY <1>3, <2>1 DEF Bound
<1>5. PacketsWaiting(top) BY DEF ReaderInv
<1>6. \A n \in 0..Cardinality(Streams) : Progress(merged[n], next, fine, arrived, TimesFrom(n, next))
  <2>1. Progress(ReaderAt(at), next, ~overrun /\ ~mistaken, arrived, {}) BY CallStarts
  <2>2. fine => ~mistaken /\ AllMeant(ReaderAt(at)) BY <1>1
  <2>. HIDE DEF fine
  <2>3. fine => ~overrun /\ ~mistaken BY <2>2 DEF fine
  <2>4. Progress(ReaderAt(at), next, fine, arrived, {}) BY <2>1, <2>3 DEF Progress
  <2>. QED BY <1>4, <1>5, <2>2, <2>4, MergedProgress
<1>7. brought = TimesFrom(Cardinality(Streams), next) BY <1>5, BroughtIs
<1>8. Progress(r, next, fine, arrived, brought)
  <2>1. Cardinality(Streams) \in 0..Cardinality(Streams) BY <1>3
  <2>. QED BY <1>6, <1>7, <2>1
<1>9. /\ stream' = [s \in Streams |-> Drained(stream[s], merged[s].late, Len(Popped(s)))]
      /\ reader' = [ring |-> IF reads THEN WithoutRead(r.ring, r.next, count) ELSE r.ring,
                    mostRecent |-> r.mostRecent,
                    next |-> IF reads THEN Increment(TsMod, r.next, count) ELSE r.next]
  BY <1>1 DEF ReadData
<1>10. /\ next + count <= top
       /\ arrived' = {t \in arrived \cup brought :
                        reader'.ring.next - t <= ReceiveCapacity
                        /\ ~(reader'.next # next /\ \E q \in next..(next + count - 1) : (q - t) % ReceiveCapacity = 0)}
       /\ overrun' = (overrun \/ \E t \in {u \in arrived : u >= next} \cup brought :
                                    reader'.ring.next - t > ReceiveCapacity)
  BY <1>1
<1>11. PacketsWaiting(top)'
  <2>. DEFINE set == Sent(top)
  <2>1. ASSUME NEW s \in Streams
        PROVE  /\ DOMAIN stream'[s] = {"packets", "tooOld", "stats", "state"}
               /\ stream'[s].packets \in Seq(set) /\ stream'[s].tooOld \in Seq(Nat)
    <3>1. /\ DOMAIN stream[s] = {"packets", "tooOld", "stats", "state"}
          /\ stream[s].packets \in Seq(set) /\ stream[s].tooOld \in Seq(Nat)
      BY <1>5 DEF PacketsWaiting
    <3>2. merged[s].late \in Seq(Nat)
      <4>1. s \in 0..Cardinality(Streams) BY <1>3
      <4>. QED BY <1>6, <4>1 DEF Progress, ReaderShape
    <3>3. Len(Popped(s)) \in Nat
      <4>1. Popped(s) \in Seq(Sent(top)) BY <1>5, PoppedIs
      <4>. QED BY <4>1
    <3>4. stream'[s] = Drained(stream[s], merged[s].late, Len(Popped(s))) BY <1>9
    <3>5. ASSUME NEW st, DOMAIN st = {"packets", "tooOld", "stats", "state"},
                 st.packets \in Seq(set), st.tooOld \in Seq(Nat),
                 NEW late \in Seq(Nat), NEW popped \in Nat, NEW v, v = Drained(st, late, popped)
          PROVE  /\ DOMAIN v = {"packets", "tooOld", "stats", "state"}
                 /\ v.packets \in Seq(set) /\ v.tooOld \in Seq(Nat)
      <4>. HIDE DEF set
      <4>. QED BY <3>5, DrainedIs, SMTT(60)
    <3>. HIDE DEF set, merged
    <3>. QED BY <3>1, <3>2, <3>3, <3>4, <3>5, Zenon
  <2>2. DOMAIN stream' = Streams BY <1>9
  <2>3. top' = top BY <1>2
  <2>. QED BY <2>1, <2>2, <2>3 DEF PacketsWaiting
<1>. HIDE DEF reads, merged, r, brought, next
<1>12. BufferShows'
  <2>1. ReaderShape(r) BY <1>8 DEF Progress
  <2>2. /\ DOMAIN reader' = {"ring", "mostRecent", "next"}
        /\ reader'.ring = (IF reads THEN WithoutRead(r.ring, r.next, count) ELSE r.ring)
        /\ reader'.mostRecent = r.mostRecent
        /\ reader'.next = (IF reads THEN Increment(TsMod, r.next, count) ELSE r.next)
    BY <1>9
  <2>3. scenario.maxTs' = top BY <1>2
  <2>. HIDE DEF top
  <2>4. CASE r.mostRecent = NoTime
    <3>1. ~reads BY <2>4 DEF reads, CanRead
    <3>2. arrived = {} /\ brought = {} /\ \A c \in 0..(ReaderCells - 1) : r.ring.cells[c] = Ground
      BY <1>8, <2>4 DEF Progress
    <3>3. arrived' = {} BY <1>10, <3>2
    <3>. QED BY <2>1, <2>2, <2>3, <2>4, <3>1, <3>2, <3>3 DEF BufferShows, ReaderShape
  <2>5. CASE r.mostRecent # NoTime
    <3>1. /\ r.next = next /\ next \in Nat /\ r.ring.next \in Nat /\ ReaderRing(r.ring)
          /\ \A t \in arrived \cup brought : t \in Nat
          /\ fine => /\ \A t \in arrived \cup brought : t < r.ring.next
                     /\ (\A t \in brought : r.ring.next - ReceiveCapacity <= t)
                        => Window(r.ring, arrived \cup brought)
      BY <1>8, <2>1, <2>5 DEF Progress, ReaderShape, ReaderRing
    <3>2. Increment(TsMod, next, count) = next + count
      <4>1. next + count < TsMod BY <1>3, <1>4, <1>10, <3>1 DEF Bound
      <4>. QED BY <1>3, <3>1, <4>1, NoWrap
    <3>3. /\ ReaderRing(reader'.ring) /\ reader'.ring.next = r.ring.next
          /\ \A t \in Int :
               /\ reads /\ (t - next) % ReceiveCapacity < count => Shows(reader'.ring, t, Ground)
               /\ ~(reads /\ (t - next) % ReceiveCapacity < count) =>
                    \A value : (Shows(r.ring, t, value) => Shows(reader'.ring, t, value))
      <4>1. CASE reads
        <5>1. PICK v : v = WithoutRead(r.ring, next, count) OBVIOUS
        <5>2. ReadOver(v, r.ring, next, count)
          <6>1. ASSUME NEW a, ReaderRing(a), NEW ts \in Nat, NEW b, b = WithoutRead(a, ts, count)
                PROVE  ReadOver(b, a, ts, count)
            BY <1>3, <6>1, Reading, Zenon
          <6>. QED BY <3>1, <5>1, <6>1
        <5>3. reader'.ring = v BY <2>2, <3>1, <4>1, <5>1
        <5>. QED BY <4>1, <5>2, <5>3 DEF ReadOver
      <4>2. CASE ~reads BY <2>2, <3>1, <4>2
      <4>. QED BY <4>1, <4>2
    <3>4. /\ reader'.next \in Nat
          /\ reader'.next # next <=> reads /\ count # 0
      BY <1>3, <1>10, <2>2, <3>1, <3>2
    <3>5. ASSUME NEW t \in Int
          PROVE  (reader'.next # next /\ \E q \in next..(next + count - 1) : (q - t) % ReceiveCapacity = 0)
                 <=> reads /\ (t - next) % ReceiveCapacity < count
      <4>1. (\E q \in next..(next + count - 1) : (q - t) % ReceiveCapacity = 0) <=> (t - next) % ReceiveCapacity < count
        BY <1>3, <3>1, PlacesRead
      <4>2. (t - next) % ReceiveCapacity \in Nat
        <5>1. t - next \in Int BY <3>1
        <5>. QED BY <1>3, <5>1, DivMod
      <4>3. (t - next) % ReceiveCapacity < count => count # 0 BY <1>3, <4>2
      <4>. QED BY <3>4, <4>1, <4>3
    <3>6. \A t \in Int : t \in arrived' <=> /\ t \in arrived \cup brought /\ r.ring.next - t <= ReceiveCapacity
                                            /\ ~(reads /\ (t - next) % ReceiveCapacity < count)
      BY <1>10, <3>3, <3>5
    <3>7. \A t \in arrived' : t \in arrived \cup brought BY <1>10
    <3>8. ASSUME ~overrun', ~mistaken' PROVE Window(reader'.ring, arrived')
      <4>1. fine /\ \A t \in brought : r.ring.next - ReceiveCapacity <= t
        <5>1. ~overrun /\ \A t \in brought : ~(r.ring.next - t > ReceiveCapacity) BY <1>10, <3>3, <3>8
        <5>. QED BY <1>3, <3>1, <3>8, <5>1
      <4>2. Window(r.ring, arrived \cup brought) BY <3>1, <4>1
      <4>3. ASSUME NEW t \in (r.ring.next - ReceiveCapacity)..(r.ring.next - 1)
            PROVE  Shows(reader'.ring, t, IF t \in arrived' THEN {t} ELSE Ground)
        <5>1. t \in Int /\ r.ring.next - t <= ReceiveCapacity BY <1>3, <3>1
        <5>2. Shows(r.ring, t, IF t \in arrived \cup brought THEN {t} ELSE Ground) BY <4>2 DEF Window
        <5>3. CASE reads /\ (t - next) % ReceiveCapacity < count
          <6>1. t \notin arrived' /\ Shows(reader'.ring, t, Ground) BY <3>3, <3>6, <5>1, <5>3
          <6>. QED BY <6>1
        <5>4. CASE ~(reads /\ (t - next) % ReceiveCapacity < count)
          <6>1. t \in arrived' <=> t \in arrived \cup brought BY <3>6, <5>1, <5>4
          <6>2. Shows(reader'.ring, t, IF t \in arrived \cup brought THEN {t} ELSE Ground) BY <3>3, <5>1, <5>2, <5>4
          <6>. QED BY <6>1, <6>2
        <5>. QED BY <5>3, <5>4
      <4>. QED BY <3>3, <4>3 DEF Window
    <3>9. /\ \A t \in arrived' : t \in Nat
          /\ ~overrun' /\ ~mistaken' => \A t \in arrived' : t < reader'.ring.next
      <4>1. ~overrun' /\ ~mistaken' => fine BY <1>10
      <4>. HIDE DEF fine
      <4>. QED BY <3>1, <3>3, <3>7, <4>1
    <3>10. reader'.mostRecent # NoTime BY <2>2, <2>5
    <3>. QED BY <2>1, <2>2, <2>3, <3>3, <3>4, <3>8, <3>9, <3>10 DEF BufferShows, ReaderShape
  <2>. QED BY <2>4, <2>5
<1>13. PacketsInTime' BY <1>2 DEF ReaderInv, PacketsInTime, senderVars
<1>. QED BY <1>2, <1>11, <1>12, <1>13 DEF ReaderInv

-----------------------------------------------------------------------------
(***************************************************************************)
(* Sequence numbers, and the statistics that are kept of them              *)
(***************************************************************************)

\* The sequence number of the packet that comes after so many.
SeqAfter(k) == Increment(SeqNumMod, FirstSeq, k)

\* The constants, and where sequence numbers lie.
LEMMA SeqRange ==
  /\ SeqNumMod \in Nat \ {0} /\ SeqNumMod \div 2 \in Nat /\ 2 * (SeqNumMod \div 2) <= SeqNumMod
  /\ NoSeq \notin Nat
  /\ SeqAfter(0) = FirstSeq
  /\ \A k \in Nat : SeqAfter(k) \in 0..(SeqNumMod - 1)
<1>1. SeqNumMod \in Nat \ {0} /\ FirstSeq \in Nat /\ FirstSeq < SeqNumMod /\ NoSeq \notin Nat
  BY PacketAssumption, SendAssumption, ReceiverAssumption DEF Values
<1>2. ASSUME NEW k \in Nat PROVE SeqAfter(k) \in 0..(SeqNumMod - 1)
  <2>. DEFINE d == FirstSeq + k
  <2>1. d \in Int BY <1>1
  <2>. HIDE DEF d
  <2>2. d % SeqNumMod \in 0..(SeqNumMod - 1) BY <1>1, <2>1, DivMod
  <2>. QED BY <2>2 DEF d, SeqAfter, Increment
<1>3. SeqAfter(0) = FirstSeq
  <2>1. FirstSeq + 0 = FirstSeq /\ FirstSeq % SeqNumMod = FirstSeq BY <1>1, SmallRemainder
  <2>. QED BY <2>1 DEF SeqAfter, Increment
<1>4. SeqNumMod \div 2 \in Nat /\ 2 * (SeqNumMod \div 2) <= SeqNumMod BY <1>1
<1>. QED BY <1>1, <1>2, <1>3, <1>4

\* The number that follows.
LEMMA NextNumber ==
  ASSUME NEW k \in Nat, NEW i \in Nat
  PROVE  Increment(SeqNumMod, SeqAfter(k), i) = SeqAfter(k + i)
<1>1. SeqNumMod \in Nat \ {0} /\ FirstSeq \in Nat /\ FirstSeq + k \in Int /\ -i \in Int
  BY PacketAssumption, SendAssumption DEF Values
<1>. DEFINE x == FirstSeq + k
<1>2. ((x % SeqNumMod) - (-i)) % SeqNumMod = (x - (-i)) % SeqNumMod
  <2>. HIDE DEF x
  <2>1. x \in Int BY <1>1 DEF x
  <2>. QED BY <1>1, <2>1, ModShift
<1>3. x % SeqNumMod \in Int BY <1>1, DivMod
<1>4. (x % SeqNumMod) - (-i) = (x % SeqNumMod) + i /\ x - (-i) = FirstSeq + (k + i) BY <1>1, <1>3
<1>. QED BY <1>2, <1>4 DEF SeqAfter, Increment

\* How far two numbers are apart, the second of which is the later.
LEMMA DistanceIs ==
  ASSUME NEW i \in Nat, NEW j \in Nat, i <= j, j - i < SeqNumMod
  PROVE  Distance(SeqNumMod, SeqAfter(i), SeqAfter(j)) = j - i
<1>. DEFINE a == SeqAfter(i)
            b == SeqAfter(j)
            d == j - i
<1>1. SeqNumMod \in Nat \ {0} /\ a \in 0..(SeqNumMod - 1) /\ b \in 0..(SeqNumMod - 1) BY SeqRange
<1>2. d \in Nat /\ d < SeqNumMod /\ i + d = j OBVIOUS
<1>3. b = (a + d) % SeqNumMod
  <2>1. Increment(SeqNumMod, SeqAfter(i), d) = SeqAfter(i + d) BY <1>2, NextNumber
  <2>. QED BY <1>2, <2>1 DEF Increment
<1>. HIDE DEF a, b, d
<1>4. b = IF a + d < SeqNumMod THEN a + d ELSE a + d - SeqNumMod
  <2>1. CASE a + d < SeqNumMod
    <3>1. a + d \in Nat /\ a + d < SeqNumMod BY <1>1, <1>2, <2>1
    <3>. QED BY <1>1, <1>3, <3>1, SmallRemainder
  <2>2. CASE ~(a + d < SeqNumMod)
    <3>. DEFINE e == a + d - SeqNumMod
                x == a + d
    <3>1. x \in Int /\ 1 \in Int /\ x = 1 * SeqNumMod + e /\ e \in 0..(SeqNumMod - 1) BY <1>1, <1>2, <2>2
    <3>. HIDE DEF e, x
    <3>2. x % SeqNumMod = e BY <1>1, <3>1, DivModIs
    <3>. QED BY <1>3, <2>2, <3>2 DEF e, x
  <2>. QED BY <2>1, <2>2
<1>5. Distance(SeqNumMod, a, b) = d BY <1>1, <1>2, <1>4 DEF Distance
<1>. QED BY <1>5 DEF a, b, d

\* Numbers that are less than half of the range apart are in order.
LEMMA OrderOfNumbers ==
  ASSUME NEW i \in Nat, NEW j \in Nat, Near(SeqNumMod, i, j)
  PROVE  /\ IsGreater(SeqNumMod, SeqAfter(i), SeqAfter(j)) <=> i > j
         /\ SeqAfter(i) = SeqAfter(j) <=> i = j
<1>. DEFINE a == SeqAfter(i)
            b == SeqAfter(j)
            half == SeqNumMod \div 2
<1>1. /\ SeqNumMod \in Nat \ {0} /\ a \in 0..(SeqNumMod - 1) /\ b \in 0..(SeqNumMod - 1)
      /\ half \in Nat /\ 2 * half <= SeqNumMod
  BY SeqRange
<1>2. i - j < half /\ j - i < half BY DEF Near
<1>3. i <= j => Distance(SeqNumMod, a, b) = j - i
  <2>1. j - i < SeqNumMod BY <1>1, <1>2
  <2>. QED BY <2>1, DistanceIs
<1>4. j <= i => Distance(SeqNumMod, b, a) = i - j
  <2>1. i - j < SeqNumMod BY <1>1, <1>2
  <2>. QED BY <2>1, DistanceIs
<1>. HIDE DEF a, b, half
<1>5. a = b <=> i = j BY <1>1, <1>3, <1>4 DEF Distance
<1>6. j < i => Distance(SeqNumMod, a, b) = SeqNumMod - (i - j) BY <1>1, <1>2, <1>4, <1>5 DEF Distance
<1>7. Distance(SeqNumMod, a, b) < half <=> i <= j BY <1>1, <1>2, <1>3, <1>6
<1>8. IsOlderThan(SeqNumMod, a, b) <=> i < j BY <1>5, <1>7 DEF IsOlderThan, half
<1>9. IsGreater(SeqNumMod, a, b) <=> i > j BY <1>5, <1>8 DEF IsGreater
<1>. QED BY <1>5, <1>9 DEF a, b

\* A number that lies half of the range behind another, or more, passes for the greater.
LEMMA OldPassesForNew ==
  ASSUME NEW i \in Nat, NEW j \in Nat, SeqNumMod \div 2 <= j - i, j - i < SeqNumMod, i < j
  PROVE  IsGreater(SeqNumMod, SeqAfter(i), SeqAfter(j))
<1>. DEFINE a == SeqAfter(i)
            b == SeqAfter(j)
<1>1. SeqNumMod \in Nat \ {0} /\ SeqNumMod \div 2 \in Nat /\ a \in 0..(SeqNumMod - 1) /\ b \in 0..(SeqNumMod - 1) BY SeqRange
<1>2. Distance(SeqNumMod, a, b) = j - i BY DistanceIs
<1>. HIDE DEF a, b
<1>3. a # b BY <1>1, <1>2 DEF Distance
<1>4. ~IsOlderThan(SeqNumMod, a, b) BY <1>1, <1>2 DEF IsOlderThan
<1>. QED BY <1>3, <1>4 DEF IsGreater, a, b

\* The numbers between two.
LEMMA BetweenIs ==
  ASSUME NEW i \in Nat, NEW j \in Nat, i <= j, j - i < SeqNumMod
  PROVE  Between(SeqAfter(i), SeqAfter(j)) = {SeqAfter(k) : k \in (i + 1)..(j - 1)}
<1>1. i \in Nat /\ j \in Nat OBVIOUS
<1>2. Distance(SeqNumMod, SeqAfter(i), SeqAfter(j)) = j - i BY DistanceIs
<1>3. \A d \in Nat : Increment(SeqNumMod, SeqAfter(i), d) = SeqAfter(i + d) BY <1>1, NextNumber
<1>4. Between(SeqAfter(i), SeqAfter(j)) = {SeqAfter(i + d) : d \in 1..(j - i - 1)} BY <1>1, <1>2, <1>3 DEF Between
<1>5. ASSUME NEW x
      PROVE  x \in {SeqAfter(i + d) : d \in 1..(j - i - 1)} <=> x \in {SeqAfter(k) : k \in (i + 1)..(j - 1)}
  <2>1. ASSUME NEW d \in 1..(j - i - 1) PROVE i + d \in (i + 1)..(j - 1) BY <1>1
  <2>2. ASSUME NEW k \in (i + 1)..(j - 1) PROVE k - i \in 1..(j - i - 1) /\ i + (k - i) = k BY <1>1
  <2>. QED BY <2>1, <2>2
<1>. QED BY <1>4, <1>5

\* The counters of PacketStats, and the numbers between the first and the newest packet.
CountFields == {"outOfOrder", "duplicates", "dropped", "tooLate"}
StatsShape(stats) ==
  /\ DOMAIN stats = {"recent", "counts", "missing"}
  /\ DOMAIN stats.counts = CountFields

Span(g) == g.first..g.newest

\* What has been got: nothing, or packets between the first and the newest, and older ones.
GotShape(g) ==
  /\ DOMAIN g = {"first", "newest", "numbers", "late", "total", "far"}
  /\ IF g.first = NoSeq
     THEN g = NothingGot
     ELSE /\ g.first \in Nat /\ g.newest \in Nat /\ g.first <= g.newest
          /\ g.numbers \subseteq Nat /\ \A n \in g.numbers : n <= g.newest
          /\ g.first \in g.numbers /\ g.newest \in g.numbers
          /\ g.late \subseteq g.numbers
          /\ g.total \in Nat \ {0} /\ g.far \in BOOLEAN

\* The missing packets that are not forgotten.
Missing(g) == {k \in Span(g) \ g.numbers : g.newest - k < SeqNumMod \div 2}

\* The statistics count what came, and remember what is missing.
Agrees(stats, g) ==
  /\ stats.recent = SeqAfter(g.newest)
  /\ stats.missing = {SeqAfter(k) : k \in Missing(g)}
  /\ stats.counts.dropped = Cardinality(Span(g) \ g.numbers)
  /\ stats.counts.outOfOrder = Cardinality(g.late)
  /\ stats.counts.duplicates = g.total - Cardinality(Span(g) \cap g.numbers)

\* They do until a packet comes of which they cannot tell whether it is old or new.
Matches(stats, g) ==
  /\ StatsShape(stats) /\ GotShape(g)
  /\ IF g.first = NoSeq
     THEN /\ stats.recent = NoSeq /\ stats.missing = {}
          /\ stats.counts.dropped = 0 /\ stats.counts.outOfOrder = 0 /\ stats.counts.duplicates = 0
     ELSE ~g.far => Agrees(stats, g)

\* What is counted is finite.
LEMMA SomeFinite ==
  ASSUME NEW g, GotShape(g), g.first # NoSeq
  PROVE  /\ IsFiniteSet(Span(g) \ g.numbers) /\ Cardinality(Span(g) \ g.numbers) \in Nat
         /\ IsFiniteSet(Span(g) \cap g.numbers) /\ Cardinality(Span(g) \cap g.numbers) \in Nat
         /\ IsFiniteSet(g.late) /\ Cardinality(g.late) \in Nat
<1>1. IsFiniteSet(0..g.newest)
  <2>1. 0 \in Int /\ g.newest \in Int BY DEF GotShape
  <2>. QED BY <2>1, FS_Interval, Zenon
<1>2. /\ Span(g) \ g.numbers \subseteq 0..g.newest /\ Span(g) \cap g.numbers \subseteq 0..g.newest
      /\ g.late \subseteq 0..g.newest
  BY DEF GotShape, Span
<1>. QED BY <1>1, <1>2, FS_Subset, FS_CardinalityType

\* What Seen makes of it, once something came.
LEMMA SeenIs ==
  ASSUME NEW g, GotShape(g), g.first # NoSeq, NEW n \in Nat
  PROVE  LET h == Seen(g, n)
         IN  /\ GotShape(h) /\ h.first = g.first
             /\ h.newest = (IF n > g.newest THEN n ELSE g.newest)
             /\ h.numbers = g.numbers \cup {n} /\ h.total = g.total + 1
             /\ h.far = (g.far \/ ~Near(SeqNumMod, n, g.newest))
             /\ h.late = IF n > g.first /\ n < g.newest /\ n \notin g.numbers THEN g.late \cup {n} ELSE g.late
<1>1. /\ DOMAIN g = {"first", "newest", "numbers", "late", "total", "far"}
      /\ g.first \in Nat /\ g.newest \in Nat /\ g.first <= g.newest
      /\ g.numbers \subseteq Nat /\ (\A k \in g.numbers : k <= g.newest)
      /\ g.first \in g.numbers /\ g.newest \in g.numbers
      /\ g.late \subseteq g.numbers /\ g.total \in Nat \ {0} /\ g.far \in BOOLEAN
  BY DEF GotShape
<1>2. PICK newest : newest = (IF n > g.newest THEN n ELSE g.newest) OBVIOUS
<1>3. PICK late : late = (IF n > g.first /\ n < g.newest /\ n \notin g.numbers THEN g.late \cup {n} ELSE g.late) OBVIOUS
<1>4. PICK far \in BOOLEAN : far = (g.far \/ ~Near(SeqNumMod, n, g.newest)) BY DEF Near
<1>5. Max({g.newest, n}) = newest
  <2>1. \A m \in {g.newest, n} : newest >= m BY <1>1, <1>2
  <2>2. \A m \in {g.newest, n} : (\A k \in {g.newest, n} : m >= k) => m = newest BY <1>1, <1>2
  <2>3. newest \in {g.newest, n} BY <1>2
  <2>. QED BY <2>1, <2>2, <2>3 DEF Max
<1>. DEFINE h == [g EXCEPT !.newest = newest, !.numbers = @ \cup {n}, !.total = @ + 1, !.far = far, !.late = late]
<1>6. Seen(g, n) = h
  <2>1. Seen(g, n) = [g EXCEPT !.newest = Max({@, n}), !.numbers = @ \cup {n}, !.total = @ + 1,
                               !.far = @ \/ ~Near(SeqNumMod, n, g.newest),
                               !.late = IF n > g.first /\ n < g.newest /\ n \notin g.numbers THEN @ \cup {n} ELSE @]
    BY DEF Seen
  <2>. QED BY <1>3, <1>4, <1>5, <2>1, Zenon
<1>7. /\ DOMAIN h = {"first", "newest", "numbers", "late", "total", "far"}
      /\ h.first = g.first /\ h.newest = newest /\ h.numbers = g.numbers \cup {n}
      /\ h.late = late /\ h.total = g.total + 1 /\ h.far = far
  BY <1>1
<1>. HIDE DEF h
<1>8. GotShape(h)
  <2>1. newest \in Nat /\ g.newest <= newest /\ n <= newest /\ newest \in g.numbers \cup {n} BY <1>1, <1>2
  <2>2. \A k \in g.numbers \cup {n} : k <= newest BY <1>1, <2>1
  <2>3. late \subseteq g.numbers \cup {n} BY <1>1, <1>3
  <2>4. g.first <= newest /\ g.total + 1 \in Nat \ {0} BY <1>1, <2>1
  <2>. QED BY <1>1, <1>7, <2>1, <2>2, <2>3, <2>4 DEF GotShape
<1>. QED BY <1>2, <1>3, <1>4, <1>6, <1>7, <1>8

\* The first packet of a stream.
LEMMA FirstCounted ==
  ASSUME NEW stats, NEW g, Matches(stats, g), g.first = NoSeq, NEW n \in Nat
  PROVE  Matches(UpdateStats(stats, SeqAfter(n)), Seen(g, n))
<1>1. NoSeq \notin Nat BY SeqRange
<1>2. /\ StatsShape(stats) /\ g = NothingGot /\ stats.recent = NoSeq /\ stats.missing = {}
      /\ stats.counts.dropped = 0 /\ stats.counts.outOfOrder = 0 /\ stats.counts.duplicates = 0
  BY DEF Matches, GotShape
<1>. DEFINE h == [first |-> n, newest |-> n, numbers |-> {n}, late |-> {}, total |-> 1, far |-> FALSE]
            st == [stats EXCEPT !.recent = SeqAfter(n)]
<1>3. Seen(g, n) = h /\ UpdateStats(stats, SeqAfter(n)) = st BY <1>2 DEF Seen, UpdateStats
<1>4. n # NoSeq /\ h.first # NoSeq BY <1>1
<1>5. GotShape(h) BY <1>1, <1>4 DEF GotShape
<1>6. StatsShape(st) /\ st.recent = SeqAfter(n) /\ st.missing = {} /\ st.counts = stats.counts
  BY <1>2 DEF StatsShape
<1>7. Span(h) = {n} BY <1>1 DEF Span
<1>8. Cardinality(Span(h) \ h.numbers) = 0 /\ Cardinality(h.late) = 0 /\ Cardinality(Span(h) \cap h.numbers) = 1
  <2>1. Span(h) \ h.numbers = {} /\ Span(h) \cap h.numbers = {n} /\ h.late = {} BY <1>7
  <2>. QED BY <2>1, FS_EmptySet, FS_Singleton
<1>9. {SeqAfter(k) : k \in Missing(h)} = {} BY <1>7 DEF Missing
<1>10. h.newest = n /\ h.total = 1 OBVIOUS
<1>. HIDE DEF h, st
<1>11. Agrees(st, h) BY <1>2, <1>6, <1>8, <1>9, <1>10 DEF Agrees
<1>12. Matches(st, h) BY <1>4, <1>5, <1>6, <1>11 DEF Matches
<1>. QED BY <1>3, <1>12

\* A packet that is newer than the newest, by less than half of the range.
LEMMA NewerCounted ==
  ASSUME NEW stats, NEW g, Matches(stats, g), g.first # NoSeq, ~g.far,
         NEW n \in Nat, n > g.newest, Near(SeqNumMod, n, g.newest)
  PROVE  Matches(UpdateStats(stats, SeqAfter(n)), Seen(g, n))
<1>. DEFINE half == SeqNumMod \div 2
<1>1. /\ SeqNumMod \in Nat \ {0} /\ half \in Nat /\ 2 * half <= SeqNumMod /\ NoSeq \notin Nat
      /\ \A k \in Nat : SeqAfter(k) \in Nat
  BY SeqRange
<1>2. /\ StatsShape(stats) /\ GotShape(g) /\ Agrees(stats, g) BY DEF Matches
<1>3. /\ g.first \in Nat /\ g.newest \in Nat /\ g.first <= g.newest
      /\ g.numbers \subseteq Nat /\ (\A k \in g.numbers : k <= g.newest)
      /\ g.total \in Nat \ {0}
  BY <1>2 DEF GotShape
<1>. DEFINE h == Seen(g, n)
            open == Span(g) \ g.numbers
            gap == (g.newest + 1)..(n - 1)
            missing == {SeqAfter(k) : k \in {i \in open : n - i < half}} \cup {SeqAfter(k) : k \in gap}
            st == [stats EXCEPT !.recent = SeqAfter(n), !.missing = missing, !.counts.dropped = @ + (n - g.newest) - 1]
<1>4. /\ GotShape(h) /\ h.first = g.first /\ h.newest = n /\ h.numbers = g.numbers \cup {n}
      /\ h.total = g.total + 1 /\ h.late = g.late
  <2>1. ~(n < g.newest) BY <1>3
  <2>. QED BY <1>2, <2>1, SeenIs
<1>. HIDE DEF h
<1>5. n - g.newest < half BY DEF Near
<1>6. open \subseteq Nat /\ \A k \in open : g.first <= k /\ k <= g.newest /\ k < n BY <1>3 DEF Span
<1>7. UpdateStats(stats, SeqAfter(n)) = st
  <2>0. stats.recent = SeqAfter(g.newest) /\ stats.missing = {SeqAfter(k) : k \in Missing(g)} BY <1>2 DEF Agrees
  <2>1. stats.recent # NoSeq BY <1>1, <1>3, <2>0
  <2>2. IsGreater(SeqNumMod, SeqAfter(n), stats.recent) BY <1>3, <2>0, OrderOfNumbers
  <2>3. UpdateStats(stats, SeqAfter(n)) = NewerPacket(stats, SeqAfter(n)) BY <2>1, <2>2 DEF UpdateStats
  <2>4. {s \in stats.missing : ~IsGreater(SeqNumMod, s, SeqAfter(n))} = {SeqAfter(k) : k \in {i \in open : n - i < half}}
    <3>1. ASSUME NEW k \in Missing(g) PROVE ~IsGreater(SeqNumMod, SeqAfter(k), SeqAfter(n)) <=> n - k < half
      <4>1. k \in Nat /\ k < n /\ g.newest - k < half BY <1>6, <3>1 DEF Missing
      <4>2. CASE n - k < half
        <5>1. Near(SeqNumMod, k, n) /\ ~(k > n) BY <1>1, <4>1, <4>2 DEF Near
        <5>. QED BY <4>1, <4>2, <5>1, OrderOfNumbers
      <4>3. CASE ~(n - k < half)
        <5>1. half <= n - k /\ n - k < SeqNumMod BY <1>1, <1>3, <1>5, <4>1, <4>3
        <5>. QED BY <4>1, <4>3, <5>1, OldPassesForNew
      <4>. QED BY <4>2, <4>3
    <3>2. \A k : k \in Missing(g) /\ n - k < half <=> k \in open /\ n - k < half
      <4>1. \A k \in open : n - k < half => g.newest - k < half BY <1>1, <1>3, <1>6
      <4>. QED BY <4>1 DEF Missing
    <3>. HIDE DEF open, half
    <3>. QED BY <2>0, <3>1, <3>2
  <2>5. /\ Between(stats.recent, SeqAfter(n)) = {SeqAfter(k) : k \in gap}
        /\ Distance(SeqNumMod, stats.recent, SeqAfter(n)) = n - g.newest
    <3>1. g.newest <= n /\ n - g.newest < SeqNumMod BY <1>1, <1>3, <1>5
    <3>. QED BY <1>3, <2>0, <3>1, BetweenIs, DistanceIs
  <2>. HIDE DEF gap, open, half
  <2>6. NewerPacket(stats, SeqAfter(n)) = st BY <2>4, <2>5 DEF NewerPacket
  <2>. QED BY <2>3, <2>6
<1>8. StatsShape(st) /\ st.recent = SeqAfter(n) /\ st.missing = missing
      /\ st.counts.dropped = stats.counts.dropped + (n - g.newest) - 1
      /\ st.counts.outOfOrder = stats.counts.outOfOrder /\ st.counts.duplicates = stats.counts.duplicates
  <2>. HIDE DEF missing
  <2>. QED BY <1>2 DEF StatsShape, CountFields
<1>. HIDE DEF st
<1>9. Span(h) \ h.numbers = open \cup gap /\ open \cap gap = {}
  BY <1>3, <1>4 DEF Span
<1>10. Span(h) \cap h.numbers = (Span(g) \cap g.numbers) \cup {n} /\ n \notin Span(g) \cap g.numbers
  BY <1>3, <1>4 DEF Span
<1>11. missing = {SeqAfter(k) : k \in Missing(h)}
  <2>1. \A k \in gap : n - k < half BY <1>1, <1>3, <1>5
  <2>2. Missing(h) = {k \in open \cup gap : n - k < half} BY <1>4, <1>9 DEF Missing
  <2>. HIDE DEF open, gap, half
  <2>3. Missing(h) = {k \in open : n - k < half} \cup gap BY <2>1, <2>2
  <2>. QED BY <2>3
<1>12. /\ IsFiniteSet(open) /\ Cardinality(open) \in Nat
       /\ IsFiniteSet(Span(g) \cap g.numbers) /\ Cardinality(Span(g) \cap g.numbers) \in Nat
  BY <1>2, SomeFinite
<1>13. IsFiniteSet(gap) /\ Cardinality(gap) = n - g.newest - 1
  <2>. DEFINE a == g.newest + 1
              b == n - 1
  <2>1. a \in Int /\ b \in Int /\ a <= b + 1 /\ n - g.newest - 1 = b - a + 1 BY <1>3
  <2>. HIDE DEF a, b
  <2>2. IsFiniteSet(a..b) /\ Cardinality(a..b) = IF a > b THEN 0 ELSE b - a + 1 BY <2>1, FS_Interval, Zenon
  <2>3. Cardinality(a..b) = b - a + 1 BY <2>1, <2>2
  <2>. QED BY <2>1, <2>2, <2>3 DEF a, b
<1>. HIDE DEF open, gap, missing
<1>14. Cardinality(open \cup gap) = Cardinality(open) + Cardinality(gap)
  <2>1. open \cap gap = {} BY <1>9
  <2>2. Cardinality(open \cup gap) = Cardinality(open) + Cardinality(gap) - Cardinality(open \cap gap)
    BY <1>12, <1>13, FS_Union, Zenon
  <2>3. Cardinality(open \cap gap) = 0 BY <2>1, FS_EmptySet
  <2>4. Cardinality(gap) \in Nat BY <1>13, FS_CardinalityType
  <2>. QED BY <1>12, <2>2, <2>3, <2>4
<1>15. Cardinality((Span(g) \cap g.numbers) \cup {n}) = Cardinality(Span(g) \cap g.numbers) + 1
  BY <1>10, <1>12, FS_AddElement
<1>16. Agrees(st, h)
  <2>0. /\ stats.counts.dropped = Cardinality(open) /\ stats.counts.outOfOrder = Cardinality(g.late)
        /\ stats.counts.duplicates = g.total - Cardinality(Span(g) \cap g.numbers)
    BY <1>2 DEF Agrees, open
  <2>1. st.counts.dropped = Cardinality(Span(h) \ h.numbers)
    BY <1>3, <1>8, <1>9, <1>12, <1>13, <1>14, <2>0
  <2>2. st.counts.duplicates = h.total - Cardinality(Span(h) \cap h.numbers)
    <3>. DEFINE a == Cardinality(Span(g) \cap g.numbers)
                b == Cardinality(Span(h) \cap h.numbers)
    <3>1. a \in Nat /\ b = a + 1 BY <1>10, <1>12, <1>15
    <3>2. st.counts.duplicates = g.total - a /\ h.total = g.total + 1 /\ g.total \in Nat BY <1>3, <1>4, <1>8, <2>0
    <3>. HIDE DEF a, b
    <3>3. st.counts.duplicates = h.total - b BY <3>1, <3>2
    <3>. QED BY <3>3 DEF b
  <2>3. st.counts.outOfOrder = Cardinality(h.late) BY <1>4, <1>8, <2>0
  <2>4. st.recent = SeqAfter(h.newest) BY <1>4, <1>8
  <2>. QED BY <1>8, <1>11, <2>1, <2>2, <2>3, <2>4 DEF Agrees
<1>17. Matches(st, h) BY <1>1, <1>3, <1>4, <1>8, <1>16 DEF Matches
<1>. QED BY <1>7, <1>17 DEF h

\* A packet that is not newer: one of the missing comes late, or one comes again or from before the first.
LEMMA OlderCounted ==
  ASSUME NEW stats, NEW g, Matches(stats, g), g.first # NoSeq, ~g.far,
         NEW n \in Nat, n <= g.newest, Near(SeqNumMod, n, g.newest)
  PROVE  Matches(UpdateStats(stats, SeqAfter(n)), Seen(g, n))
<1>. DEFINE half == SeqNumMod \div 2
<1>1. half \in Nat /\ NoSeq \notin Nat /\ \A k \in Nat : SeqAfter(k) \in Nat BY SeqRange
<1>2. /\ StatsShape(stats) /\ GotShape(g) /\ Agrees(stats, g) BY DEF Matches
<1>3. /\ g.first \in Nat /\ g.newest \in Nat /\ g.first <= g.newest
      /\ g.numbers \subseteq Nat /\ (\A k \in g.numbers : k <= g.newest)
      /\ g.first \in g.numbers /\ g.newest \in g.numbers /\ g.late \subseteq g.numbers
      /\ g.total \in Nat \ {0}
  BY <1>2 DEF GotShape
<1>. DEFINE h == Seen(g, n)
            open == Span(g) \ g.numbers
            here == Span(g) \cap g.numbers
            isLate == n > g.first /\ n < g.newest /\ n \notin g.numbers
            late == IF isLate THEN g.late \cup {n} ELSE g.late
<1>4. /\ GotShape(h) /\ h.first = g.first /\ h.newest = g.newest /\ h.numbers = g.numbers \cup {n}
      /\ h.total = g.total + 1 /\ h.late = late
  <2>1. ~(n > g.newest) BY <1>3
  <2>. QED BY <1>2, <2>1, SeenIs
<1>. HIDE DEF h
<1>5. g.newest - n < half BY DEF Near
<1>6. open \subseteq Nat /\ \A k \in open : k <= g.newest BY <1>3 DEF Span
<1>7. UpdateStats(stats, SeqAfter(n)) = LatePacket(stats, SeqAfter(n))
  <2>0. stats.recent = SeqAfter(g.newest) BY <1>2 DEF Agrees
  <2>1. stats.recent # NoSeq BY <1>1, <1>3, <2>0
  <2>2. ~IsGreater(SeqNumMod, SeqAfter(n), SeqAfter(g.newest))
    <3>1. ~(n > g.newest) BY <1>3
    <3>. QED BY <1>3, <3>1, OrderOfNumbers
  <2>. QED BY <2>0, <2>1, <2>2 DEF UpdateStats
<1>8. \A k \in Missing(g) : (SeqAfter(n) = SeqAfter(k) <=> n = k)
  <2>1. ASSUME NEW k \in Missing(g) PROVE k \in Nat /\ Near(SeqNumMod, n, k)
    <3>1. k \in Nat /\ k <= g.newest /\ g.newest - k < half BY <1>6, <2>1 DEF Missing
    <3>. QED BY <1>1, <1>3, <1>5, <3>1 DEF Near
  <2>. QED BY <2>1, OrderOfNumbers
<1>9. n \in Missing(g) <=> n \in open BY <1>5 DEF Missing
<1>10. SeqAfter(n) \in stats.missing <=> n \in open
  <2>1. stats.missing = {SeqAfter(k) : k \in Missing(g)} BY <1>2 DEF Agrees
  <2>. QED BY <1>8, <1>9, <2>1
<1>11. isLate <=> n \in open BY <1>3 DEF Span
<1>12. /\ IsFiniteSet(open) /\ Cardinality(open) \in Nat
       /\ IsFiniteSet(here) /\ Cardinality(here) \in Nat
       /\ IsFiniteSet(g.late) /\ Cardinality(g.late) \in Nat
  BY <1>2, SomeFinite
<1>. HIDE DEF isLate
<1>13. Span(h) = Span(g) BY <1>4 DEF Span
<1>14. Span(h) \ h.numbers = open \ {n} /\ Span(h) \cap h.numbers = IF n \in open THEN here \cup {n} ELSE here
  <2>1. Span(h) \ h.numbers = open \ {n} BY <1>4, <1>13
  <2>2. n \in g.numbers \/ n \notin Span(g) \/ n \in open OBVIOUS
  <2>. QED BY <1>4, <1>13, <2>1, <2>2
<1>15. Missing(h) = Missing(g) \ {n} BY <1>4, <1>14 DEF Missing
<1>16. h.first # NoSeq BY <1>1, <1>3, <1>4
<1>17. /\ stats.recent = SeqAfter(g.newest)
       /\ stats.missing = {SeqAfter(k) : k \in Missing(g)}
       /\ stats.counts.dropped = Cardinality(open) /\ stats.counts.outOfOrder = Cardinality(g.late)
       /\ stats.counts.duplicates = g.total - Cardinality(here)
  BY <1>2 DEF Agrees
<1>18. CASE n \in open
  <2>. DEFINE st == [stats EXCEPT !.missing = @ \ {SeqAfter(n)}, !.counts.dropped = @ - 1, !.counts.outOfOrder = @ + 1]
  <2>1. UpdateStats(stats, SeqAfter(n)) = st BY <1>7, <1>10, <1>18 DEF LatePacket
  <2>2. StatsShape(st) /\ st.recent = stats.recent /\ st.missing = stats.missing \ {SeqAfter(n)}
        /\ st.counts.dropped = stats.counts.dropped - 1
        /\ st.counts.outOfOrder = stats.counts.outOfOrder + 1 /\ st.counts.duplicates = stats.counts.duplicates
    BY <1>2 DEF StatsShape, CountFields
  <2>. HIDE DEF st
  <2>3. st.missing = {SeqAfter(k) : k \in Missing(h)}
    <3>1. {SeqAfter(k) : k \in Missing(g)} \ {SeqAfter(n)} = {SeqAfter(k) : k \in Missing(g) \ {n}} BY <1>8
    <3>. QED BY <1>15, <1>17, <2>2, <3>1
  <2>4. n \notin here /\ n \notin g.late BY <1>3, <1>18
  <2>5. Cardinality(open \ {n}) = Cardinality(open) - 1
    <3>. HIDE DEF open
    <3>. QED BY <1>12, <1>18, FS_RemoveElement
  <2>6. Cardinality(here \cup {n}) = Cardinality(here) + 1
    <3>. HIDE DEF here
    <3>. QED BY <1>12, <2>4, FS_AddElement
  <2>7. Cardinality(g.late \cup {n}) = Cardinality(g.late) + 1 BY <1>12, <2>4, FS_AddElement
  <2>8. st.counts.dropped = Cardinality(Span(h) \ h.numbers) BY <1>14, <1>17, <2>2, <2>5
  <2>9. st.counts.outOfOrder = Cardinality(h.late) BY <1>4, <1>11, <1>17, <1>18, <2>2, <2>7
  <2>10. st.counts.duplicates = h.total - Cardinality(Span(h) \cap h.numbers)
    <3>. DEFINE a == Cardinality(here)
                b == Cardinality(Span(h) \cap h.numbers)
    <3>1. a \in Nat /\ b = a + 1 BY <1>12, <1>14, <1>18, <2>6
    <3>2. st.counts.duplicates = g.total - a /\ h.total = g.total + 1 /\ g.total \in Nat BY <1>3, <1>4, <1>17, <2>2
    <3>. HIDE DEF a, b
    <3>3. st.counts.duplicates = h.total - b BY <3>1, <3>2
    <3>. QED BY <3>3 DEF b
  <2>11. Agrees(st, h) BY <1>4, <1>17, <2>2, <2>3, <2>8, <2>9, <2>10 DEF Agrees
  <2>12. Matches(st, h) BY <1>4, <1>16, <2>2, <2>11 DEF Matches
  <2>. QED BY <2>1, <2>12 DEF h
<1>19. CASE n \notin open
  <2>. DEFINE st == [stats EXCEPT !.counts.duplicates = @ + 1]
  <2>1. UpdateStats(stats, SeqAfter(n)) = st BY <1>7, <1>10, <1>19 DEF LatePacket
  <2>2. StatsShape(st) /\ st.recent = stats.recent /\ st.missing = stats.missing
        /\ st.counts.dropped = stats.counts.dropped
        /\ st.counts.outOfOrder = stats.counts.outOfOrder /\ st.counts.duplicates = stats.counts.duplicates + 1
    BY <1>2 DEF StatsShape, CountFields
  <2>. HIDE DEF st
  <2>3. open \ {n} = open /\ Missing(g) \ {n} = Missing(g) BY <1>9, <1>19
  <2>4. st.missing = {SeqAfter(k) : k \in Missing(h)} /\ st.counts.dropped = Cardinality(Span(h) \ h.numbers)
    BY <1>14, <1>15, <1>17, <2>2, <2>3
  <2>5. st.counts.outOfOrder = Cardinality(h.late) BY <1>4, <1>11, <1>17, <1>19, <2>2
  <2>6. st.counts.duplicates = h.total - Cardinality(Span(h) \cap h.numbers)
    <3>. DEFINE a == Cardinality(here)
    <3>1. a \in Nat /\ Cardinality(Span(h) \cap h.numbers) = a BY <1>12, <1>14, <1>19
    <3>2. st.counts.duplicates = (g.total - a) + 1 /\ h.total = g.total + 1 /\ g.total \in Nat BY <1>3, <1>4, <1>17, <2>2
    <3>. HIDE DEF a
    <3>. QED BY <3>1, <3>2
  <2>7. Agrees(st, h) BY <1>4, <1>17, <2>2, <2>4, <2>5, <2>6 DEF Agrees
  <2>8. Matches(st, h) BY <1>4, <1>16, <2>2, <2>7 DEF Matches
  <2>. QED BY <2>1, <2>8 DEF h
<1>. QED BY <1>18, <1>19

\* From a packet on that is half of the range away, what is counted is not said.
LEMMA FarCounted ==
  ASSUME NEW stats, NEW g, Matches(stats, g), g.first # NoSeq,
         NEW n \in Nat, g.far \/ ~Near(SeqNumMod, n, g.newest)
  PROVE  Matches(UpdateStats(stats, SeqAfter(n)), Seen(g, n))
<1>. DEFINE h == Seen(g, n)
            seq == SeqAfter(n)
<1>1. StatsShape(stats) /\ GotShape(g) /\ NoSeq \notin Nat BY SeqRange DEF Matches
<1>2. GotShape(h) /\ h.first = g.first /\ h.far BY <1>1, SeenIs
<1>. HIDE DEF h, seq
<1>3. StatsShape(UpdateStats(stats, seq))
  <2>1. \A new : StatsShape([stats EXCEPT !.recent = new]) BY <1>1 DEF StatsShape
  <2>2. StatsShape(NewerPacket(stats, seq))
    <3>1. \A new, missing, dropped : StatsShape([stats EXCEPT !.recent = new, !.missing = missing, !.counts.dropped = dropped])
      BY <1>1 DEF StatsShape
    <3>. QED BY <3>1 DEF NewerPacket
  <2>3. StatsShape(LatePacket(stats, seq)) BY <1>1 DEF StatsShape, LatePacket
  <2>. QED BY <2>1, <2>2, <2>3 DEF UpdateStats
<1>4. Matches(UpdateStats(stats, seq), h) BY <1>2, <1>3 DEF Matches
<1>. QED BY <1>4 DEF h, seq

\* The statistics count any packet as they should.
LEMMA Counted ==
  ASSUME NEW stats, NEW g, Matches(stats, g), NEW n \in Nat
  PROVE  Matches(UpdateStats(stats, SeqAfter(n)), Seen(g, n))
<1>1. CASE g.first = NoSeq BY <1>1, FirstCounted
<1>2. CASE g.first # NoSeq /\ (g.far \/ ~Near(SeqNumMod, n, g.newest)) BY <1>2, FarCounted
<1>3. CASE g.first # NoSeq /\ ~g.far /\ Near(SeqNumMod, n, g.newest)
  <2>1. g.newest \in Nat BY <1>3 DEF Matches, GotShape
  <2>2. CASE n > g.newest BY <1>3, <2>2, NewerCounted
  <2>3. CASE ~(n > g.newest)
    <3>1. n <= g.newest BY <2>1, <2>3
    <3>. QED BY <1>3, <3>1, OlderCounted
  <2>. QED BY <2>2, <2>3
<1>. QED BY <1>1, <1>2, <1>3

\* Late packets that the audio thread reports change nothing else.
LEMMA MarksMatch ==
  ASSUME NEW stats, NEW g, Matches(stats, g), NEW late \in Seq(Nat)
  PROVE  Matches(AfterMarks(stats, late), g)
<1>. DEFINE Step(f, i) == IF i = 0 THEN stats ELSE MarkTooLate(f[i - 1], late[i])
            T == {n \in Nat : \E f : f = [i \in 0..n |-> Step(f, i)]}
<1>1. 0 \in T
  <2>. DEFINE f == [i \in 0..0 |-> stats]
  <2>1. f = [i \in 0..0 |-> Step(f, i)] OBVIOUS
  <2>. QED BY <2>1
<1>2. ASSUME NEW n \in Nat, n \in T PROVE n + 1 \in T
  <2>1. PICK f : f = [i \in 0..n |-> Step(f, i)] BY <1>2
  <2>. DEFINE h == [i \in 0..(n + 1) |-> IF i <= n THEN f[i] ELSE MarkTooLate(f[n], late[n + 1])]
  <2>2. ASSUME NEW i \in 0..(n + 1) PROVE h[i] = Step(h, i)
    <3>1. CASE i = 0 BY <2>1, <3>1
    <3>2. CASE i # 0 /\ i <= n
      <4>1. h[i] = f[i] /\ f[i] = Step(f, i) BY <2>1, <3>2
      <4>2. h[i - 1] = f[i - 1] BY <3>2
      <4>. QED BY <3>2, <4>1, <4>2
    <3>3. CASE i = n + 1
      <4>1. h[i] = MarkTooLate(f[n], late[i]) BY <3>3
      <4>2. h[i - 1] = f[n] BY <3>3
      <4>. QED BY <3>3, <4>1, <4>2
    <3>. QED BY <3>1, <3>2, <3>3
  <2>3. h = [i \in 0..(n + 1) |-> Step(h, i)] BY <2>2
  <2>. HIDE DEF h, Step
  <2>4. \E q : q = [i \in 0..(n + 1) |-> Step(q, i)] BY <2>3
  <2>5. n + 1 \in Nat OBVIOUS
  <2>. QED BY <2>4, <2>5
<1>3. Nat \subseteq T
  <2>. HIDE DEF T
  <2>. QED BY <1>1, <1>2, Induction
<1>4. Len(late) \in Nat OBVIOUS
<1>5. Len(late) \in T BY <1>3, <1>4
<1>6. PICK f : f = [i \in 0..Len(late) |-> Step(f, i)] BY <1>5
<1>7. PICK f0 : f0 = [i \in 0..Len(late) |-> Step(f0, i)] /\ AfterMarks(stats, late) = f0[Len(late)]
  <2>1. AfterMarks(stats, late) = (CHOOSE q : q = [i \in 0..Len(late) |-> Step(q, i)])[Len(late)] BY DEF AfterMarks
  <2>. QED BY <1>6, <2>1
<1>. DEFINE U == {n \in Nat : n <= Len(late) => Matches(f0[n], g)}
<1>8. 0 \in U
  <2>1. f0[0] = stats BY <1>4, <1>7
  <2>. QED BY <2>1
<1>9. ASSUME NEW n \in Nat, n \in U PROVE n + 1 \in U
  <2>1. SUFFICES ASSUME n + 1 <= Len(late) PROVE Matches(f0[n + 1], g) OBVIOUS
  <2>2. Matches(f0[n], g) BY <1>4, <1>9, <2>1
  <2>3. f0[n + 1] = MarkTooLate(f0[n], late[n + 1])
    <3>1. n + 1 \in 0..Len(late) /\ n + 1 # 0 /\ (n + 1) - 1 = n BY <1>4, <2>1
    <3>. QED BY <1>7, <3>1
  <2>4. ASSUME NEW st, Matches(st, g), NEW seq PROVE Matches(MarkTooLate(st, seq), g)
    <3>1. CASE st.recent = NoSeq \/ IsGreater(SeqNumMod, seq, st.recent)
      BY <2>4, <3>1 DEF MarkTooLate
    <3>2. CASE ~(st.recent = NoSeq \/ IsGreater(SeqNumMod, seq, st.recent))
      <4>. DEFINE v == [st EXCEPT !.counts.tooLate = @ + 1]
      <4>1. MarkTooLate(st, seq) = v BY <3>2 DEF MarkTooLate
      <4>2. StatsShape(v) /\ v.recent = st.recent /\ v.missing = st.missing
            /\ v.counts.dropped = st.counts.dropped /\ v.counts.outOfOrder = st.counts.outOfOrder
            /\ v.counts.duplicates = st.counts.duplicates
        BY <2>4 DEF Matches, StatsShape, CountFields
      <4>. HIDE DEF v
      <4>3. Matches(v, g) BY <2>4, <4>2 DEF Matches, Agrees
      <4>. QED BY <4>1, <4>3
    <3>. QED BY <3>1, <3>2
  <2>. QED BY <2>2, <2>3, <2>4
<1>10. Nat \subseteq U
  <2>. HIDE DEF U
  <2>. QED BY <1>8, <1>9, Induction
<1>11. Len(late) \in U BY <1>4, <1>10
<1>12. Len(late) <= Len(late) BY <1>4
<1>13. Matches(f0[Len(late)], g) BY <1>11, <1>12
<1>. QED BY <1>7, <1>13

-----------------------------------------------------------------------------
(***************************************************************************)
(* The inductive invariant of the statistics                               *)
(***************************************************************************)

\* A packet has the sequence number of the how-manieth it is.
IsNumbered(packet) == packet.ts \in DOMAIN numbers /\ packet.seq = SeqAfter(numbers[packet.ts])

\* The sender numbers its packets one after the other.
NumbersInv ==
  /\ IsFiniteSet(DOMAIN numbers) /\ writer.seq = SeqAfter(Cardinality(DOMAIN numbers))
  /\ \A t \in DOMAIN numbers : t \in Nat /\ numbers[t] \in Nat /\ t + PacketFrames <= writer.packetTs
  /\ \A i \in 1..Len(writer.outgoing) : IsNumbered(writer.outgoing[i])
  /\ \A s \in Streams : \A p \in wire[s] : IsNumbered(p)

\* The statistics of a stream say what it got, but for a packet that the thread is still at.
IsCounted(s) ==
  IF storing # NoStream /\ storing.s = s
  THEN \E g : \E n \in Nat : storing.seq = SeqAfter(n) /\ Matches(stream[s].stats, g) /\ got[s] = Seen(g, n)
  ELSE Matches(stream[s].stats, got[s])

\* The inductive invariant.
CountInv ==
  /\ NumbersInv
  /\ storing = NoStream \/ storing \in [s : Streams, seq : Nat, state : States]
  /\ DOMAIN got = Streams
  /\ \A s \in Streams : IsCounted(s)

\* Nothing has been sent or counted.
LEMMA CountInvInit == Init => CountInv
<1>. SUFFICES ASSUME Init PROVE CountInv OBVIOUS
<1>1. /\ writer = [ring |-> NewRing(SendCapacity), packetTs |-> 0, seq |-> FirstSeq, outgoing |-> <<>>]
      /\ wire = [s \in Streams |-> {}] /\ storing = NoStream /\ numbers = <<>>
      /\ stream = [s \in Streams |-> NewStream] /\ got = [s \in Streams |-> NothingGot]
  BY DEF Init, SenderInit, ReceiverInit
<1>2. NumbersInv
  <2>1. DOMAIN numbers = {} BY <1>1
  <2>2. IsFiniteSet(DOMAIN numbers) /\ Cardinality(DOMAIN numbers) = 0 BY <2>1, FS_EmptySet
  <2>3. writer.seq = SeqAfter(Cardinality(DOMAIN numbers)) BY <1>1, <2>2, SeqRange
  <2>4. 1..Len(writer.outgoing) = {} BY <1>1
  <2>. QED BY <1>1, <2>1, <2>2, <2>3, <2>4 DEF NumbersInv
<1>3. Matches(NewStats, NothingGot)
  BY DEF Matches, StatsShape, CountFields, GotShape, NothingGot, NewStats, NoCounts
<1>4. ASSUME NEW s \in Streams PROVE IsCounted(s)
  <2>1. stream[s].stats = NewStats /\ got[s] = NothingGot BY <1>1 DEF NewStream
  <2>. QED BY <1>1, <1>3, <2>1 DEF IsCounted
<1>. QED BY <1>1, <1>2, <1>4 DEF CountInv

\* The sender's own steps.
LEMMA SentInNumbers ==
  ASSUME SenderInv, CountInv, SendAudio \/ SenderStep
  PROVE  CountInv'
<1>1. UNCHANGED <<receiverVars, linkVars>> BY DEF SendAudio, SenderStep
<1>2. DOMAIN writer = {"ring", "packetTs", "seq", "outgoing"} BY DEF SenderInv, WaitingFits
<1>3. /\ IsFiniteSet(DOMAIN numbers) /\ writer.seq = SeqAfter(Cardinality(DOMAIN numbers))
      /\ \A t \in DOMAIN numbers : t \in Nat /\ numbers[t] \in Nat /\ t + PacketFrames <= writer.packetTs
      /\ \A i \in 1..Len(writer.outgoing) : IsNumbered(writer.outgoing[i])
      /\ \A s \in Streams : \A p \in wire[s] : IsNumbered(p)
  BY DEF CountInv, NumbersInv
<1>4. /\ writer.packetTs \in Nat /\ writer.ring.next \in Nat /\ writer.packetTs <= writer.ring.next
      /\ PacketFrames \in Nat \ {0} /\ writer.outgoing \in Seq(Packets)
  BY PacketAssumption DEF SenderInv, WaitingFits, RingOK, OutgoingAndWire
<1>5. NumbersInv'
  <2>1. CASE SendAudio
    <3>1. PICK count \in scenario.sends, gap \in scenario.gaps :
            LET from == IF writer.ring.next = 0 THEN StartTs ELSE writer.ring.next + gap
            IN  Schedule(from, count)
      BY <2>1 DEF SendAudio
    <3>. DEFINE from == IF writer.ring.next = 0 THEN StartTs ELSE writer.ring.next + gap
                start == IF writer.ring.next = from THEN writer.packetTs ELSE from
    <3>2. gap \in Nat /\ StartTs \in Nat
      <4>1. scenario \in Scenarios BY DEF SenderInv, WaitingFits
      <4>. QED BY <4>1, ScenarioAssumption
    <3>3. from \in Nat /\ writer.ring.next <= from BY <1>4, <3>2
    <3>4. start \in Nat /\ writer.packetTs <= start BY <1>4, <3>3
    <3>5. PICK ring : writer' = [writer EXCEPT !.ring = ring, !.packetTs = start] /\ wire' = wire
      <4>1. Schedule(from, count) BY <3>1
      <4>. HIDE DEF from
      <4>. QED BY <4>1 DEF Schedule
    <3>. HIDE DEF start, from
    <3>6. writer'.seq = writer.seq /\ writer'.outgoing = writer.outgoing /\ writer'.packetTs = start
      BY <1>2, <3>5
    <3>7. numbers' = numbers BY <2>1 DEF SendAudio
    <3>8. \A t \in DOMAIN numbers : t + PacketFrames <= start BY <1>3, <1>4, <3>4
    <3>. QED BY <1>3, <3>5, <3>6, <3>7, <3>8 DEF NumbersInv, IsNumbered
  <2>2. CASE SchedulePacket /\ numbers' = Numbered(writer.packetTs)
    <3>. DEFINE ts == writer.packetTs
                count == Cardinality(DOMAIN numbers)
                packet == NextPacket
                outgoing == IF Len(writer.outgoing) < OutgoingCapacity
                            THEN Append(writer.outgoing, packet) ELSE writer.outgoing
    <3>1. Increment(TsMod, ts, PacketFrames) = ts + PacketFrames BY FullPacket
    <3>2. /\ writer' = [writer EXCEPT !.outgoing = outgoing, !.seq = Increment(SeqNumMod, @, 1),
                                     !.packetTs = Increment(TsMod, @, PacketFrames)]
          /\ wire' = wire
      BY <2>2 DEF SchedulePacket
    <3>3. packet.ts = ts /\ packet.seq = writer.seq BY DEF NextPacket
    <3>4. ts \notin DOMAIN numbers /\ count \in Nat
      <4>1. \A t \in DOMAIN numbers : t # ts BY <1>3, <1>4
      <4>. QED BY <1>3, <4>1, FS_CardinalityType
    <3>5. /\ DOMAIN numbers' = DOMAIN numbers \cup {ts} /\ numbers'[ts] = count
          /\ \A t \in DOMAIN numbers : numbers'[t] = numbers[t]
      BY <2>2, <3>4 DEF Numbered
    <3>. HIDE DEF packet, ts
    <3>6. IsFiniteSet(DOMAIN numbers') /\ Cardinality(DOMAIN numbers') = count + 1
      BY <1>3, <3>4, <3>5, FS_AddElement
    <3>. HIDE DEF count
    <3>7. packet.ts \in DOMAIN numbers' /\ packet.seq = SeqAfter(numbers'[packet.ts])
      BY <1>3, <3>3, <3>5 DEF count
    <3>8. ASSUME NEW p, IsNumbered(p) PROVE p.ts \in DOMAIN numbers' /\ p.seq = SeqAfter(numbers'[p.ts])
      BY <3>5, <3>8 DEF IsNumbered
    <3>9. ASSUME NEW i \in 1..Len(outgoing)
          PROVE  outgoing[i].ts \in DOMAIN numbers' /\ outgoing[i].seq = SeqAfter(numbers'[outgoing[i].ts])
      <4>1. CASE Len(writer.outgoing) < OutgoingCapacity
        <5>1. Len(writer.outgoing) \in Nat BY <1>4
        <5>2. CASE i <= Len(writer.outgoing)
          <6>1. outgoing[i] = writer.outgoing[i] /\ IsNumbered(writer.outgoing[i]) BY <1>3, <1>4, <4>1, <5>1, <5>2
          <6>. QED BY <3>8, <6>1
        <5>3. CASE i = Len(writer.outgoing) + 1
          <6>1. outgoing[i] = packet BY <1>4, <4>1, <5>3
          <6>. QED BY <3>7, <6>1
        <5>4. i \in 1..(Len(writer.outgoing) + 1) BY <1>4, <4>1
        <5>. QED BY <5>1, <5>2, <5>3, <5>4
      <4>2. CASE ~(Len(writer.outgoing) < OutgoingCapacity)
        <5>1. outgoing[i] = writer.outgoing[i] /\ IsNumbered(writer.outgoing[i]) BY <1>3, <4>2
        <5>. QED BY <3>8, <5>1
      <4>. QED BY <4>1, <4>2
    <3>10. /\ writer'.outgoing = outgoing /\ writer'.seq = Increment(SeqNumMod, writer.seq, 1)
           /\ writer'.packetTs = ts + PacketFrames
      <4>. HIDE DEF outgoing
      <4>. QED BY <1>2, <3>1, <3>2 DEF ts
    <3>. HIDE DEF outgoing
    <3>11. writer'.seq = SeqAfter(Cardinality(DOMAIN numbers'))
      <4>1. writer.seq = SeqAfter(count) BY <1>3 DEF count
      <4>. QED BY <3>4, <3>6, <3>10, <4>1, NextNumber
    <3>12. \A t \in DOMAIN numbers' : t \in Nat /\ numbers'[t] \in Nat /\ t + PacketFrames <= writer'.packetTs
      <4>1. ASSUME NEW t \in DOMAIN numbers PROVE t \in Nat /\ numbers'[t] \in Nat /\ t + PacketFrames <= ts + PacketFrames
        BY <1>3, <1>4, <3>5 DEF ts
      <4>2. ts \in Nat /\ numbers'[ts] \in Nat /\ ts + PacketFrames <= ts + PacketFrames BY <1>4, <3>4, <3>5 DEF ts
      <4>. QED BY <3>5, <3>10, <4>1, <4>2
    <3>13. \A s \in Streams : \A p \in wire'[s] : p.ts \in DOMAIN numbers' /\ p.seq = SeqAfter(numbers'[p.ts])
      BY <1>3, <3>2, <3>8
    <3>. QED BY <3>6, <3>9, <3>10, <3>11, <3>12, <3>13 DEF NumbersInv, IsNumbered
  <2>3. CASE Scheduled /\ UNCHANGED numbers
    <3>1. writer' = writer /\ wire' = wire BY <2>3 DEF Scheduled
    <3>. QED BY <1>3, <2>3, <3>1 DEF NumbersInv, IsNumbered
  <2>4. CASE SendOutgoingPacket /\ UNCHANGED numbers
    <3>1. /\ writer.outgoing # <<>> /\ writer'.outgoing = Tail(writer.outgoing)
          /\ writer'.seq = writer.seq /\ writer'.packetTs = writer.packetTs
          /\ wire' = [s \in Streams |-> wire[s] \cup {Head(writer.outgoing)}]
      BY <1>2, <2>4 DEF SendOutgoingPacket
    <3>. DEFINE outgoing == writer.outgoing
    <3>2. outgoing # <<>> /\ outgoing \in Seq(Packets) BY <1>4, <3>1
    <3>. HIDE DEF outgoing
    <3>3. /\ Len(outgoing) \in Nat \ {0} /\ Head(outgoing) = outgoing[1] /\ Len(Tail(outgoing)) = Len(outgoing) - 1
          /\ \A i \in 1..Len(Tail(outgoing)) : Tail(outgoing)[i] = outgoing[i + 1]
      BY <3>2
    <3>4. \A i \in 1..Len(outgoing) : IsNumbered(outgoing[i]) BY <1>3 DEF outgoing
    <3>5. IsNumbered(Head(outgoing)) /\ \A i \in 1..Len(Tail(outgoing)) : IsNumbered(Tail(outgoing)[i])
      BY <3>3, <3>4
    <3>. QED BY <1>3, <2>4, <3>1, <3>5 DEF NumbersInv, IsNumbered, outgoing
  <2>. QED BY <2>1, <2>2, <2>3, <2>4 DEF SenderStep
<1>. QED BY <1>1, <1>5 DEF CountInv, IsCounted, receiverVars, linkVars

\* A packet arrives, and is still to be counted.
LEMMA ArrivesInNumbers ==
  ASSUME ReaderInv, CountInv, PacketArrives
  PROVE  CountInv'
<1>1. PICK s \in Streams :
        \E packet \in wire[s] : ReceivePacket(s, packet) /\ got' = [got EXCEPT ![s] = Seen(@, numbers[packet.ts])]
  BY DEF PacketArrives
<1>2. PICK packet \in wire[s] : ReceivePacket(s, packet) /\ got' = [got EXCEPT ![s] = Seen(@, numbers[packet.ts])] BY <1>1
<1>3. UNCHANGED <<senderVars, numbers>> BY DEF PacketArrives
<1>4. NumbersInv' BY <1>3 DEF CountInv, NumbersInv, IsNumbered, senderVars
<1>5. IsNumbered(packet) BY DEF CountInv, NumbersInv
<1>6. PICK n \in Nat : n = numbers[packet.ts] BY <1>5 DEF CountInv, NumbersInv, IsNumbered
<1>7. packet.seq = SeqAfter(n) BY <1>5, <1>6 DEF IsNumbered
<1>8. PICK state \in States : storing' = [s |-> s, seq |-> packet.seq, state |-> state]
  BY <1>2 DEF ReceivePacket, States
<1>9. storing' \in [s : Streams, seq : Nat, state : States] /\ storing' # NoStream /\ storing'.s = s /\ storing'.seq = SeqAfter(n)
  <2>1. packet.seq \in Nat BY <1>7, SeqRange
  <2>2. storing' \in [s : Streams, seq : Nat, state : States] BY <1>8, <2>1
  <2>. QED BY <1>7, <1>8, <2>2, ReceiverAssumption
<1>10. storing = NoStream BY <1>2 DEF ReceivePacket
<1>11. \A r \in Streams : stream'[r].stats = stream[r].stats
  <2>1. /\ DOMAIN stream = Streams
        /\ \A r \in Streams : DOMAIN stream[r] = {"packets", "tooOld", "stats", "state"}
    BY DEF ReaderInv, PacketsWaiting
  <2>2. PICK packets, now : stream' = [stream EXCEPT ![s].packets = packets, ![s].state = now]
    BY <1>2 DEF ReceivePacket
  <2>. QED BY <2>1, <2>2
<1>12. DOMAIN got = Streams /\ \A r \in Streams : Matches(stream[r].stats, got[r])
  BY <1>10 DEF CountInv, IsCounted
<1>13. DOMAIN got' = Streams /\ got'[s] = Seen(got[s], n) /\ \A r \in Streams : r # s => got'[r] = got[r]
  BY <1>2, <1>6, <1>12
<1>14. ASSUME NEW r \in Streams PROVE IsCounted(r)'
  <2>1. CASE r = s
    <3>1. Matches(stream'[s].stats, got[s]) BY <1>11, <1>12
    <3>2. \E g : \E m \in Nat : storing'.seq = SeqAfter(m) /\ Matches(stream'[s].stats, g) /\ got'[s] = Seen(g, m)
      BY <1>9, <1>13, <3>1
    <3>. QED BY <1>9, <2>1, <3>2 DEF IsCounted
  <2>2. CASE r # s
    <3>1. Matches(stream'[r].stats, got'[r]) BY <1>11, <1>12, <1>13, <2>2
    <3>. QED BY <1>9, <2>2, <3>1 DEF IsCounted
  <2>. QED BY <2>1, <2>2
<1>. QED BY <1>4, <1>9, <1>13, <1>14 DEF CountInv

\* The rest of the network thread counts it.
LEMMA NetworkInNumbers ==
  ASSUME ReaderInv, CountInv, NetworkThread
  PROVE  CountInv'
<1>1. UNCHANGED <<senderVars, linkVars, numbers>> BY DEF NetworkThread
<1>2. NumbersInv' BY <1>1 DEF CountInv, NumbersInv, IsNumbered, senderVars
<1>3. /\ DOMAIN stream = Streams
      /\ \A r \in Streams : /\ DOMAIN stream[r] = {"packets", "tooOld", "stats", "state"}
                            /\ stream[r].tooOld \in Seq(Nat)
  BY DEF ReaderInv, PacketsWaiting
<1>4. got' = got /\ DOMAIN got = Streams BY <1>1 DEF CountInv, linkVars
<1>5. CASE FinishPacket
  <2>. DEFINE s == storing.s
              after == UpdateStats(AfterMarks(stream[s].stats, stream[s].tooOld), storing.seq)
  <2>1. storing # NoStream /\ storing' = NoStream BY <1>5 DEF FinishPacket
  <2>2. s \in Streams BY <2>1 DEF CountInv
  <2>3. stream' = [stream EXCEPT ![s].state = storing.state, ![s].tooOld = <<>>, ![s].stats = after]
    BY <1>3, <1>5, <2>2 DEF FinishPacket
  <2>4. PICK g : \E n \in Nat : storing.seq = SeqAfter(n) /\ Matches(stream[s].stats, g) /\ got[s] = Seen(g, n)
    BY <2>1, <2>2 DEF CountInv, IsCounted
  <2>5. PICK n \in Nat : storing.seq = SeqAfter(n) /\ Matches(stream[s].stats, g) /\ got[s] = Seen(g, n) BY <2>4
  <2>6. Matches(after, got[s])
    <3>. DEFINE marked == AfterMarks(stream[s].stats, stream[s].tooOld)
    <3>1. stream[s].tooOld \in Seq(Nat) BY <1>3, <2>2
    <3>2. Matches(marked, g) BY <2>5, <3>1, MarksMatch
    <3>. HIDE DEF marked
    <3>3. Matches(UpdateStats(marked, SeqAfter(n)), Seen(g, n)) BY <3>2, Counted
    <3>. QED BY <2>5, <3>3 DEF marked
  <2>7. \A r \in Streams : r # s => Matches(stream[r].stats, got[r]) BY <2>1 DEF CountInv, IsCounted
  <2>. HIDE DEF after, s
  <2>8. stream'[s].stats = after /\ \A r \in Streams : r # s => stream'[r].stats = stream[r].stats
    BY <1>3, <2>2, <2>3
  <2>9. \A r \in Streams : Matches(stream'[r].stats, got'[r]) BY <1>4, <2>6, <2>7, <2>8
  <2>. QED BY <1>2, <1>4, <2>1, <2>9 DEF CountInv, IsCounted
<1>6. CASE ~FinishPacket
  <2>1. storing' = storing /\ \A r \in Streams : stream'[r].stats = stream[r].stats
    <3>1. CASE Maintenance
      <4>1. stream' = [s \in Streams |-> [stream[s] EXCEPT !.state = ActiveState(s)]] /\ storing' = storing
        BY <3>1 DEF Maintenance
      <4>. QED BY <1>3, <4>1
    <3>2. CASE \E s \in Streams : Silence(s) BY <3>2 DEF Silence
    <3>. QED BY <1>6, <3>1, <3>2 DEF NetworkThread
  <2>. QED BY <1>2, <1>4, <2>1 DEF CountInv, IsCounted
<1>. QED BY <1>5, <1>6

\* The reader's call counts nothing.
LEMMA ReadsInNumbers ==
  ASSUME ReaderInv, CountInv, ReadAudio
  PROVE  CountInv'
<1>1. UNCHANGED <<senderVars, got, storing, numbers>> BY DEF ReadAudio, ReadData
<1>2. NumbersInv' BY <1>1 DEF CountInv, NumbersInv, IsNumbered, senderVars
<1>3. \A r \in Streams : DOMAIN stream[r] = {"packets", "tooOld", "stats", "state"} BY DEF ReaderInv, PacketsWaiting
<1>4. ASSUME NEW r \in Streams PROVE stream'[r].stats = stream[r].stats
  <2>1. PICK late, popped : stream'[r] = Drained(stream[r], late, popped) BY DEF ReadAudio, ReadData
  <2>. QED BY <1>3, <2>1 DEF Drained
<1>. QED BY <1>1, <1>2, <1>4 DEF CountInv, IsCounted

\* The invariant of the buffer gives the frames that it shows.
LEMMA BufferIsRight == ReaderInv => BufferHoldsWhatArrived
<1>. SUFFICES ASSUME ReaderInv, ~overrun, ~mistaken, reader.mostRecent # NoTime,
                     NEW t \in reader.next..(reader.ring.next - 1), t >= reader.ring.next - ReceiveCapacity
              PROVE  FrameAt(reader.ring, t) = IF t \in arrived THEN {{t}} ELSE {Ground}
  BY DEF BufferHoldsWhatArrived
<1>1. ReaderRing(reader.ring) /\ Window(reader.ring, arrived) /\ reader.next \in Nat BY DEF ReaderInv, BufferShows
<1>2. reader.ring.next \in Nat /\ ReceiveCapacity \in Nat BY <1>1, ReceiverAssumption DEF ReaderRing
<1>3. t \in Int /\ t \in (reader.ring.next - ReceiveCapacity)..(reader.ring.next - 1) BY <1>1, <1>2
<1>4. Shows(reader.ring, t, IF t \in arrived THEN {t} ELSE Ground) BY <1>1, <1>3 DEF Window
<1>5. FrameAt(reader.ring, t) = {IF t \in arrived THEN {t} ELSE Ground} BY <1>1, <1>3, <1>4, ShownFrame
<1>. QED BY <1>5

\* The statistics are right between two packets.
LEMMA CountsFollow == CountInv => CountsAreRight
<1>. SUFFICES ASSUME CountInv, storing = NoStream, NEW s \in Streams, got[s].total > 0, ~got[s].far
              PROVE  LET span == got[s].first..got[s].newest
                         counts == stream[s].stats.counts
                     IN  /\ counts.dropped = Cardinality(span \ got[s].numbers)
                         /\ counts.outOfOrder = Cardinality(got[s].late)
                         /\ counts.duplicates = got[s].total - Cardinality(span \cap got[s].numbers)
  BY DEF CountsAreRight
<1>1. Matches(stream[s].stats, got[s]) BY DEF CountInv, IsCounted
<1>2. got[s].first # NoSeq
  <2>1. got[s].first = NoSeq => got[s].total = 0 BY <1>1 DEF Matches, GotShape, NothingGot
  <2>. QED BY <2>1
<1>. QED BY <1>1, <1>2 DEF Matches, Agrees, Span

\* What the receiver and the network do leaves the sender's invariant alone.
LEMMA SenderAlone == SenderInv /\ UNCHANGED <<senderVars, scenario>> => SenderInv'
BY DEF senderVars, SenderInv, WaitingFits, WaitingIsHeld, OutgoingAndWire

\* A receiver neither loses, invents nor miscounts what the network brought, whatever the two
\* applications do: as long as the reader does not fall behind by more than the buffer, and until
\* a packet comes whose time or number lies half of the range of uint32_t or uint16_t away, or
\* one that leaves a gap whose place in bytes is not what clear_until computes.
THEOREM ReceiverKeeps == Spec => []ReceiverKeepsWhatArrived
<1>. DEFINE Inv == SenderInv /\ ReaderInv /\ CountInv
<1>1. Init => Inv BY SenderInvInit, ReaderInvInit, CountInvInit
<1>2. Inv /\ [Next]_vars => Inv'
  <2>. SUFFICES ASSUME Inv, [Next]_vars PROVE Inv' OBVIOUS
  <2>1. CASE SendAudio BY <2>1, SendAudioStep, SentInTime, SentInNumbers
  <2>2. CASE SenderStep BY <2>2, SenderSteps, SentInTime, SentInNumbers
  <2>3. CASE PacketArrives
    <3>1. SenderInv' BY <2>3, SenderAlone DEF PacketArrives
    <3>. QED BY <2>3, <3>1, ArrivesInTime, ArrivesInNumbers
  <2>4. CASE NetworkThread
    <3>1. SenderInv' BY <2>4, SenderAlone DEF NetworkThread, linkVars
    <3>. QED BY <2>4, <3>1, NetworkInTime, NetworkInNumbers
  <2>5. CASE ReadAudio
    <3>1. SenderInv' BY <2>5, SenderAlone DEF ReadAudio
    <3>. QED BY <2>5, <3>1, ReadsInTime, ReadsInNumbers
  <2>6. CASE UNCHANGED vars
    <3>1. SenderInv' BY <2>6, SenderAlone DEF vars, linkVars
    <3>2. ReaderInv'
      BY <2>6 DEF vars, senderVars, receiverVars, linkVars, ReaderInv, PacketsInTime, PacketsWaiting, BufferShows
    <3>3. CountInv'
      BY <2>6 DEF vars, senderVars, receiverVars, linkVars, CountInv, NumbersInv, IsNumbered, IsCounted
    <3>. QED BY <3>1, <3>2, <3>3
  <2>. QED BY <2>1, <2>2, <2>3, <2>4, <2>5, <2>6 DEF Next
<1>3. Inv => ReceiverKeepsWhatArrived BY BufferIsRight, CountsFollow DEF ReceiverKeepsWhatArrived
<1>. HIDE DEF Inv
<1>. QED BY <1>1, <1>2, <1>3, PTL DEF Spec
=============================================================================
