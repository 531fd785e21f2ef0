----------------------------- MODULE FifoProofs -----------------------------
(***************************************************************************)
(* With any strategy, capacity and number of threads, the fifo reserves    *)
(* disjoint slots and implements a bounded queue.                          *)
(***************************************************************************)
EXTENDS Fifo, SequenceTheorems, TLAPS

\* A thread that is between prepare and commit.
Active(t) == pc[t] \in {"prepared", "copied"}

\* At most one thread of each side is active: the one that has the mutex, or the
\* only one there is.
OneEach ==
  /\ \A p \in Producers : IF "write" \in Guarded THEN Active(p) => mutex = p
                          ELSE pc[p] # "idle" => p \in Side(Producers, "write")
  /\ \A c \in Consumers : IF "read" \in Guarded THEN Active(c) => mutex = c
                          ELSE pc[c] # "idle" => c \in Side(Consumers, "read")
  /\ strategy = "Single" => \A t, u \in Threads : pc[t] # "idle" /\ pc[u] # "idle" => t = u

\* What is inside, and what a thread has prepared for, fits.
BatchesFit ==
  /\ Used(writeTs, readTs) <= Capacity
  /\ \A p \in Producers : Active(p) => batch[p] \in 1..MaxBatch /\ Used(writeTs, readTs) + batch[p] <= Capacity
  /\ \A c \in Consumers : Active(c) => batch[c] <= Used(writeTs, readTs)
  /\ \A c \in Consumers : pc[c] = "prepared" => batch[c] \in 1..MaxBatch

\* The n values in the buffer from a timestamp on.
Content(b, ts, n) == [k \in 1..n |-> b[Index(ts, k - 1)]]

\* A producer that has copied finds its values in the buffer until it commits, and
\* a consumer what it has read; pop_all copies nothing.
CopiesMatch ==
  /\ \A p \in Producers :
       /\ Active(p) => local[p] \in [1..batch[p] -> Values]
       /\ pc[p] = "copied" => local[p] = Content(buffer, writeTs, batch[p])
       /\ pc[p] # "sized"
  /\ \A c \in Consumers :
       \/ local[c] = <<>>
       \/ /\ pc[c] = "copied" /\ batch[c] \in 1..MaxBatch
          /\ local[c] = Content(buffer, readTs, batch[c])

\* The inductive invariant.
FifoInv == TypeOK /\ OneEach /\ BatchesFit /\ CopiesMatch

-----------------------------------------------------------------------------
(* Division with a divisor that is not a number. *)

\* Every integer is a multiple of n and a rest.
LEMMA Division == ASSUME NEW n \in Nat \ {0}, NEW a \in Int
  PROVE \E q \in Int, r \in 0..(n-1) : a = n * q + r /\ (a % n) = r
<1>1. a = n * (a \div n) + (a % n) /\ (a \div n) \in Int /\ (a % n) \in 0..(n-1)
  BY SMT
<1> QED BY <1>1

\* That rest is its remainder.
LEMMA ModUnique ==
  ASSUME NEW n \in Nat \ {0}, NEW a \in Int, NEW q \in Int, NEW r \in 0..(n-1), a = n * q + r
  PROVE  (a % n) = r
BY SMT

\* Multiples of n do not change a remainder.
LEMMA ModShift ==
  ASSUME NEW n \in Nat \ {0}, NEW a \in Int, NEW q \in Int, NEW b \in Int, b = a + n * q
  PROVE  (b % n) = (a % n)
<1>1. PICK p \in Int, r \in 0..(n-1) : a = n * p + r /\ (a % n) = r
  BY Division
<1>2. b = n * (p + q) + r /\ p + q \in Int
  BY <1>1
<1>3. (b % n) = r
  BY <1>2, ModUnique
<1> QED BY <1>1, <1>3

\* A remainder may be taken before an addition.
LEMMA ModDiff ==
  ASSUME NEW n \in Nat \ {0}, NEW a \in Int, NEW b \in Int
  PROVE  (((a % n) + b) % n) = ((a + b) % n)
<1>1. PICK q \in Int, r \in 0..(n-1) : a = n * q + r /\ (a % n) = r
  BY Division
<1>2. a + b = (r + b) + n * q /\ r + b \in Int /\ a + b \in Int
  BY <1>1
<1>3. ((a + b) % n) = ((r + b) % n)
  BY <1>2, ModShift
<1> QED BY <1>1, <1>3

\* Numbers less than n apart have different remainders.
LEMMA DistinctRests ==
  ASSUME NEW n \in Nat \ {0}, NEW a \in Int, NEW b \in Int, a < b, b < a + n
  PROVE  (a % n) # (b % n)
<1>1. SUFFICES ASSUME (a % n) = (b % n) PROVE FALSE
  OBVIOUS
<1>2. PICK p \in Int, r \in 0..(n-1) : a = n * p + r /\ (a % n) = r
  BY Division
<1>3. PICK q \in Int, s \in 0..(n-1) : b = n * q + s /\ (b % n) = s
  BY Division
<1>4. r = s BY <1>1, <1>2, <1>3
<1>5. b - a = n * (q - p) BY <1>2, <1>3, <1>4
<1>6. ASSUME NEW k \in Int PROVE (k >= 1 => n * k >= n) /\ (k <= 0 => n * k <= 0)
  OBVIOUS
<1>7. q - p \in Int /\ (q - p >= 1 \/ q - p <= 0)
  OBVIOUS
<1> QED BY <1>5, <1>6, <1>7

-----------------------------------------------------------------------------
(* The timestamps and positions. *)

\* The values of size_t.
TimestampRange == 0..(TsMod - 1)

\* The assumption about the sizes, in the form the proofs use.
LEMMA Sizes ==
  Capacity \in Nat \ {0} /\ MaxBatch \in 1..Capacity /\ TsMod \in Nat \ {0} /\ TsMod > Capacity
BY CapacityAssumption, TsModAssumption

\* size() of the fifo, with the wrap of size_t written out.
LEMMA UsedIs ==
  ASSUME NEW w \in TimestampRange, NEW r \in TimestampRange
  PROVE  Used(w, r) = (IF r <= w THEN w - r ELSE w - r + TsMod) /\ Used(w, r) \in TimestampRange
<1>. USE Sizes DEF TimestampRange
<1>1. ASSUME r <= w PROVE ((w - r) % TsMod) = w - r
  <2>1. w - r = TsMod * 0 + (w - r) /\ w - r \in 0..(TsMod - 1) /\ w - r \in Int /\ TsMod \in Nat \ {0}
    BY <1>1
  <2>. QED  BY <2>1, ModUnique
<1>2. ASSUME ~(r <= w) PROVE ((w - r) % TsMod) = w - r + TsMod
  <2>1. w - r = TsMod * (-1) + (w - r + TsMod) /\ w - r + TsMod \in 0..(TsMod - 1) /\ w - r \in Int /\ TsMod \in Nat \ {0}
    BY <1>2
  <2>. QED  BY <2>1, ModUnique
<1>. QED  BY <1>1, <1>2 DEF Used

\* A timestamp moved on, with the wrap of size_t written out.
LEMMA AdvanceIs ==
  ASSUME NEW ts \in TimestampRange, NEW n \in 0..Capacity
  PROVE  /\ Advance(ts, n) = (IF ts + n < TsMod THEN ts + n ELSE ts + n - TsMod)
         /\ Advance(ts, n) \in TimestampRange
<1>. USE Sizes DEF TimestampRange
<1>1. ASSUME ts + n < TsMod PROVE ((ts + n) % TsMod) = ts + n
  <2>1. ts + n = TsMod * 0 + (ts + n) /\ ts + n \in 0..(TsMod - 1) /\ ts + n \in Int /\ TsMod \in Nat \ {0}
    BY <1>1
  <2>. QED  BY <2>1, ModUnique
<1>2. ASSUME ~(ts + n < TsMod) PROVE ((ts + n) % TsMod) = ts + n - TsMod
  <2>1. ts + n = TsMod * 1 + (ts + n - TsMod) /\ ts + n - TsMod \in 0..(TsMod - 1) /\ ts + n \in Int /\ TsMod \in Nat \ {0}
    BY <1>2
  <2>. QED  BY <2>1, ModUnique
<1>. QED  BY <1>1, <1>2 DEF Advance

\* A commit of n elements moves a timestamp by n, also over the end of size_t.
LEMMA CommitMoves ==
  ASSUME NEW w \in TimestampRange, NEW r \in TimestampRange, NEW n \in 0..Capacity
  PROVE  /\ Used(w, r) + n <= Capacity => Used(Advance(w, n), r) = Used(w, r) + n
         /\ n <= Used(w, r) => Used(w, Advance(r, n)) = Used(w, r) - n
<1>. DEFINE v == Advance(w, n)
             s == Advance(r, n)
<1>1. v \in TimestampRange /\ v = IF w + n < TsMod THEN w + n ELSE w + n - TsMod
  BY AdvanceIs
<1>2. s \in TimestampRange /\ s = IF r + n < TsMod THEN r + n ELSE r + n - TsMod
  BY AdvanceIs
<1>. HIDE DEF v, s
<1>3. /\ Used(w, r) = IF r <= w THEN w - r ELSE w - r + TsMod
      /\ Used(v, r) = IF r <= v THEN v - r ELSE v - r + TsMod
      /\ Used(w, s) = IF s <= w THEN w - s ELSE w - s + TsMod
  BY <1>1, <1>2, UsedIs
<1>4. Used(w, r) + n <= Capacity => Used(v, r) = Used(w, r) + n
  BY <1>1, <1>3, Sizes DEF TimestampRange
<1>5. n <= Used(w, r) => Used(w, s) = Used(w, r) - n
  BY <1>2, <1>3, Sizes DEF TimestampRange
<1>. QED  BY <1>4, <1>5 DEF v, s

\* The positions go around the buffer, as TsMod is a multiple of Capacity.
LEMMA IndexAdvance ==
  ASSUME NEW ts \in TimestampRange, NEW n \in 0..Capacity, NEW i \in Int
  PROVE  Index(Advance(ts, n), i) = Index(ts, n + i)
<1>. USE Sizes DEF TimestampRange
<1>1. PICK q \in Int : TsMod = Capacity * q
  <2>1. PICK q \in Int, m \in 0..(Capacity - 1) : TsMod = Capacity * q + m /\ (TsMod % Capacity) = m
    <3>1. TsMod \in Int /\ Capacity \in Nat \ {0}
      BY Sizes
    <3>. QED  BY ONLY <3>1, Division
  <2>. QED  BY <2>1, TsModAssumption
<1>2. CASE ts + n < TsMod
  <2>1. Advance(ts, n) + i = ts + (n + i)
    BY <1>2, AdvanceIs
  <2>. QED  BY <2>1 DEF Index
<1>3. CASE ~(ts + n < TsMod)
  <2>1. ts + (n + i) = (Advance(ts, n) + i) + Capacity * q /\ ts + (n + i) \in Int /\ Advance(ts, n) + i \in Int
    BY <1>1, <1>3, AdvanceIs
  <2>. QED  BY <2>1, ModShift DEF Index
<1>. QED  BY <1>2, <1>3

\* As many neighbouring timestamps as there are slots have slots of their own.
LEMMA IndexDistinct ==
  ASSUME NEW ts \in TimestampRange, NEW i \in Int, NEW j \in Int, i < j, j < i + Capacity
  PROVE  Index(ts, i) # Index(ts, j)
<1>1. ts + i < ts + j /\ ts + j < ts + i + Capacity /\ ts + i \in Int /\ ts + j \in Int
  BY Sizes DEF TimestampRange
<1>. QED  BY <1>1, DistinctRests, Sizes DEF Index

\* Positions are inside the buffer.
LEMMA IndexInRange ==
  ASSUME NEW ts \in TimestampRange, NEW i \in Int
  PROVE  Index(ts, i) \in 0..(Capacity - 1)
<1>1. ts + i \in Int
  BY Sizes DEF TimestampRange
<1>2. PICK q \in Int, m \in 0..(Capacity - 1) : ts + i = Capacity * q + m /\ ((ts + i) % Capacity) = m
  BY <1>1, Division, Sizes
<1>. QED  BY <1>2 DEF Index

\* The position to write to follows the last one to read.
LEMMA WritePosition ==
  ASSUME NEW w \in TimestampRange, NEW r \in TimestampRange, NEW i \in Int, Used(w, r) <= Capacity
  PROVE  Index(w, i) = Index(r, Used(w, r) + i)
<1>1. Used(w, r) \in 0..Capacity
  BY UsedIs, Sizes DEF TimestampRange
<1>2. Advance(r, Used(w, r)) = w
  <2>1. Advance(r, Used(w, r)) = IF r + Used(w, r) < TsMod THEN r + Used(w, r) ELSE r + Used(w, r) - TsMod
    BY <1>1, AdvanceIs
  <2>2. Used(w, r) = IF r <= w THEN w - r ELSE w - r + TsMod
    BY UsedIs
  <2>. QED  BY <2>1, <2>2, Sizes DEF TimestampRange
<1>. QED  BY <1>1, <1>2, IndexAdvance

-----------------------------------------------------------------------------
(* The invariant. *)

\* The threads that may run on a side are threads of it; one if nothing guards it.
LEMMA SideIs ==
  ASSUME NEW S, S # {}, NEW side
  PROVE  /\ Side(S, side) \subseteq S
         /\ side \notin Guarded => \A t, u \in Side(S, side) : t = u
BY DEF Side

\* Two threads of a side are never active together.
LEMMA OnlyOne ==
  ASSUME FifoInv
  PROVE  /\ \A p, q \in Producers : Active(p) /\ Active(q) => p = q
         /\ \A c, d \in Consumers : Active(c) /\ Active(d) => c = d
<1>1. \A t : Active(t) => pc[t] # "idle"
  BY DEF Active
<1>. QED  BY <1>1, SideIs, ThreadsAssumption DEF FifoInv, OneEach

\* The slots behind the contents are none of the slots of the contents.
LEMMA SlotsApart ==
  ASSUME NEW w \in TimestampRange, NEW r \in TimestampRange, NEW m \in Nat, NEW n \in Nat,
         n <= Used(w, r), Used(w, r) + m <= Capacity
  PROVE  Slots(w, m) \cap Slots(r, n) = {}
<1>1. Used(w, r) \in Nat
  BY UsedIs, Sizes DEF TimestampRange
<1>2. ASSUME NEW i \in 0..(m - 1), NEW j \in 0..(n - 1) PROVE Index(w, i) # Index(r, j)
  <2>1. Index(w, i) = Index(r, Used(w, r) + i)
    BY <1>1, WritePosition, Sizes
  <2>2. j < Used(w, r) + i /\ Used(w, r) + i < j + Capacity
    BY <1>1, Sizes
  <2>. QED  BY <1>1, <2>1, <2>2, IndexDistinct
<1>. QED  BY <1>2 DEF Slots

\* The timestamps are values of size_t.
LEMMA TimestampsInRange ==
  ASSUME TypeOK
  PROVE  /\ readTs \in TimestampRange /\ writeTs \in TimestampRange
         /\ Used(writeTs, readTs) \in TimestampRange /\ Used(writeTs, readTs) \in Nat
<1>1. readTs \in TimestampRange /\ writeTs \in TimestampRange
  BY DEF TypeOK, TimestampRange
<1>2. Used(writeTs, readTs) \in TimestampRange
  BY <1>1, UsedIs
<1>3. \A n \in TimestampRange : n \in Nat
  BY Sizes DEF TimestampRange
<1>. QED  BY <1>1, <1>2, <1>3

\* An empty fifo.
LEMMA FifoInit == Init => FifoInv
<1> SUFFICES ASSUME Init PROVE FifoInv
  OBVIOUS
<1>1. TypeOK
  BY Sizes DEF Init, TypeOK
<1>2. OneEach
  BY DEF Init, OneEach, Active, Threads
<1>3. BatchesFit
  <2>1. Used(writeTs, readTs) = 0
    BY UsedIs, Sizes DEF Init, TimestampRange
  <2>. QED  BY <2>1, Sizes DEF Init, BatchesFit, Active, Threads
<1>4. CopiesMatch
  BY DEF Init, CopiesMatch, Active, Threads
<1>. QED  BY <1>1, <1>2, <1>3, <1>4 DEF FifoInv

\* The moves of the threads that the proofs tell apart, on the sides that have them.
LEMMA StepCases ==
  ASSUME [Next]_vars
  PROVE  /\ UNCHANGED strategy
         /\ \/ \E p \in Producers : p \in Side(Producers, "write") /\ Produce(p)
            \/ \E c \in Consumers : c \in Side(Consumers, "read") /\ Consume(c)
            \/ Quiet /\ readTs' = 0 /\ writeTs' = 0 /\ allocated' \in {0, Capacity}
               /\ UNCHANGED <<buffer, mutex, pc, batch, local, taken>>
            \/ UNCHANGED fifoVars
<1>1. Side(Producers, "write") \subseteq Producers /\ Side(Consumers, "read") \subseteq Consumers
  BY SideIs, ThreadsAssumption
<1>2. Reset \/ Resize => /\ Quiet /\ readTs' = 0 /\ writeTs' = 0 /\ allocated' \in {0, Capacity}
                         /\ UNCHANGED <<buffer, mutex, pc, batch, local, taken>>
  BY DEF Reset, Resize
<1>3. \A o \in Observers : Observe(o) => UNCHANGED fifoVars
  BY DEF Observe, SizeFirst, SizeSecond, SizeAtOnce, fifoVars
<1>4. UNCHANGED vars => UNCHANGED strategy /\ UNCHANGED fifoVars
  BY DEF vars, fifoVars
<1>. QED  BY <1>1, <1>2, <1>3, <1>4 DEF Next

\* No step makes two threads of a guarded side active.
LEMMA OneEachStep == FifoInv /\ [Next]_vars => OneEach'
<1> SUFFICES ASSUME FifoInv, [Next]_vars PROVE OneEach'
  OBVIOUS
<1>. USE ThreadsAssumption, NobodyAssumption DEF FifoInv, TypeOK, Active, Threads
<1>1. UNCHANGED strategy /\ Guarded' = Guarded
  BY StepCases DEF Guarded
<1>2. /\ ("write" \in Guarded)' <=> ("write" \in Guarded)
      /\ ("read" \in Guarded)' <=> ("read" \in Guarded)
      /\ Side(Producers, "write")' = Side(Producers, "write")
      /\ Side(Consumers, "read")' = Side(Consumers, "read")
  BY <1>1 DEF Side
<1>3. strategy = "Single" => "write" \notin Guarded /\ "read" \notin Guarded
  BY DEF Guarded, SingleLock
<1>4. ASSUME NEW p \in Producers, p \in Side(Producers, "write"), Produce(p) PROVE OneEach'
  <2>1. CASE \E values \in Batches : PrepareWrite(p, values)
    BY <1>1, <1>2, <1>3, <1>4, <2>1 DEF PrepareWrite, Locks, OneEach, IsFree, Quiet
  <2>2. CASE CopyIn(p)
    BY <1>1, <1>2, <1>3, <1>4, <2>2 DEF CopyIn, OneEach
  <2>3. CASE CommitWrite(p)
    BY <1>1, <1>2, <1>3, <1>4, <2>3 DEF CommitWrite, Unlocks, OneEach
  <2>. QED  BY <1>4, <2>1, <2>2, <2>3 DEF Produce
<1>5. ASSUME NEW c \in Consumers, c \in Side(Consumers, "read"), Consume(c) PROVE OneEach'
  <2>1. CASE \E n \in 1..MaxBatch : PrepareRead(c, n)
    BY <1>1, <1>2, <1>3, <1>5, <2>1 DEF PrepareRead, Locks, OneEach, IsFree, Quiet
  <2>2. CASE CopyOut(c)
    BY <1>1, <1>2, <1>3, <1>5, <2>2 DEF CopyOut, OneEach
  <2>3. CASE CommitRead(c)
    BY <1>1, <1>2, <1>3, <1>5, <2>3 DEF CommitRead, Unlocks, OneEach
  <2>4. CASE PopAllSize(c)
    BY <1>1, <1>2, <1>3, <1>5, <2>4 DEF PopAllSize, OneEach, IsFree, Quiet
  <2>5. CASE PopAllPrepare(c)
    BY <1>1, <1>2, <1>3, <1>5, <2>5 DEF PopAllPrepare, Locks, OneEach
  <2>6. CASE PopAllRefused(c)
    BY <1>1, <1>2, <1>3, <1>5, <2>6 DEF PopAllRefused, OneEach
  <2>. QED  BY <1>5, <2>1, <2>2, <2>3, <2>4, <2>5, <2>6 DEF Consume
<1>6. CASE UNCHANGED <<mutex, pc>>
  BY <1>1, <1>2, <1>6 DEF OneEach
<1>. QED  BY <1>4, <1>5, <1>6, StepCases DEF fifoVars

\* Every step keeps the types.
LEMMA TypeStep == FifoInv /\ [Next]_vars => TypeOK'
<1> SUFFICES ASSUME FifoInv, [Next]_vars PROVE TypeOK'
  OBVIOUS
<1>. USE Sizes DEF FifoInv, TypeOK, Active, Threads
<1>1. strategy' \in Strategies
  BY StepCases
<1>0. readTs \in TimestampRange /\ writeTs \in TimestampRange /\ Used(writeTs, readTs) \in TimestampRange
  BY TimestampsInRange
<1>2. ASSUME NEW p \in Producers, Produce(p) PROVE TypeOK'
  <2>1. CASE \E values \in Batches : PrepareWrite(p, values)
    <3>1. PICK values \in Batches : PrepareWrite(p, values)
      BY <2>1
    <3>2. Len(values) \in 1..MaxBatch
      BY DEF Batches
    <3>. QED  BY <1>1, <3>1, <3>2 DEF PrepareWrite, Locks
  <2>2. CASE CopyIn(p)
    <3>1. batch[p] \in Nat /\ local[p] \in [1..batch[p] -> Values]
      BY <2>2 DEF CopyIn, BatchesFit, CopiesMatch
    <3>2. ASSUME NEW i \in Slots(writeTs, batch[p])
          PROVE  (CHOOSE k \in 1..batch[p] : Index(writeTs, k - 1) = i) \in 1..batch[p]
      <4>1. \E k \in 1..batch[p] : Index(writeTs, k - 1) = i
        <5>1. PICK j \in 0..(batch[p] - 1) : i = Index(writeTs, j)
          BY DEF Slots
        <5>2. j + 1 \in 1..batch[p] /\ (j + 1) - 1 = j
          BY <3>1
        <5>. QED  BY <5>1, <5>2
      <4>. QED  BY <4>1
    <3>3. buffer' \in [0..(Capacity - 1) -> Values]
      BY <2>2, <3>1, <3>2 DEF CopyIn
    <3>. QED  BY <1>1, <2>2, <3>3 DEF CopyIn
  <2>3. CASE CommitWrite(p)
    <3>1. batch[p] \in 0..Capacity
      BY <2>3 DEF CommitWrite, BatchesFit
    <3>2. writeTs' \in 0..(TsMod - 1)
      BY <2>3, <3>1, AdvanceIs DEF CommitWrite, TimestampRange
    <3>. QED  BY <1>1, <2>3, <3>2 DEF CommitWrite, Unlocks
  <2>. QED  BY <1>2, <2>1, <2>2, <2>3 DEF Produce
<1>3. ASSUME NEW c \in Consumers, Consume(c) PROVE TypeOK'
  <2>1. CASE \E n \in 1..MaxBatch : PrepareRead(c, n)
    BY <1>1, <2>1 DEF PrepareRead, Locks
  <2>2. CASE CopyOut(c)
    <3>1. batch[c] \in 1..MaxBatch
      BY <2>2 DEF CopyOut, BatchesFit
    <3>2. ASSUME NEW k \in 1..batch[c] PROVE buffer[Index(readTs, k - 1)] \in Values
      <4>1. Index(readTs, k - 1) \in 0..(Capacity - 1)
        <5>1. k - 1 \in Int
          BY <3>1
        <5>. QED  BY <1>0, <5>1, IndexInRange
      <4>. QED  BY <4>1
    <3>3. [k \in 1..batch[c] |-> buffer[Index(readTs, k - 1)]] \in [1..batch[c] -> Values]
      BY <3>2
    <3>4. [k \in 1..batch[c] |-> buffer[Index(readTs, k - 1)]] \in Batches
      BY <3>1, <3>3 DEF Batches
    <3>. QED  BY <1>1, <2>2, <3>4 DEF CopyOut
  <2>3. CASE CommitRead(c)
    <3>1. batch[c] \in 0..Capacity
      <4>1. batch[c] <= Used(writeTs, readTs) /\ Used(writeTs, readTs) <= Capacity
        BY <2>3 DEF CommitRead, BatchesFit
      <4>2. Used(writeTs, readTs) \in Nat
        BY <1>0 DEF TimestampRange
      <4>. QED  BY <4>1, <4>2
    <3>2. readTs' \in 0..(TsMod - 1)
      BY <2>3, <3>1, AdvanceIs DEF CommitRead, TimestampRange
    <3>. QED  BY <1>1, <2>3, <3>2 DEF CommitRead, Unlocks
  <2>4. CASE PopAllSize(c)
    <3>1. Used(writeTs, readTs) \in 0..(TsMod - 1)
      BY <1>0 DEF TimestampRange
    <3>2. batch' \in [Threads -> 0..(TsMod - 1)]
      BY <2>4, <3>1 DEF PopAllSize
    <3>. QED  BY <1>1, <2>4, <3>2 DEF PopAllSize
  <2>5. CASE PopAllPrepare(c)
    BY <1>1, <2>5 DEF PopAllPrepare, Locks
  <2>6. CASE PopAllRefused(c)
    BY <1>1, <2>6 DEF PopAllRefused
  <2>. QED  BY <1>3, <2>1, <2>2, <2>3, <2>4, <2>5, <2>6 DEF Consume
<1>4. CASE Quiet /\ readTs' = 0 /\ writeTs' = 0 /\ allocated' \in {0, Capacity}
           /\ UNCHANGED <<buffer, mutex, pc, batch, local, taken>>
  BY <1>1, <1>4
<1>5. CASE UNCHANGED fifoVars
  BY <1>1, <1>5 DEF fifoVars
<1>. QED  BY <1>2, <1>3, <1>4, <1>5, StepCases

\* What a thread prepared fits until it commits, as only the other side moves meanwhile.
LEMMA BatchesFitStep == FifoInv /\ [Next]_vars => BatchesFit'
<1> SUFFICES ASSUME FifoInv, [Next]_vars PROVE BatchesFit'
  OBVIOUS
<1>. USE DEF FifoInv, TypeOK, Active, Threads, BatchesFit
<1>. USE ThreadsAssumption, Sizes
<1>1. readTs \in TimestampRange /\ writeTs \in TimestampRange
  BY DEF TimestampRange
<1>2. Used(writeTs, readTs) \in 0..Capacity
  BY <1>1, UsedIs DEF TimestampRange
<1>3. \A p \in Producers : Active(p) => \A q \in Producers \ {p} : ~Active(q)
  BY OnlyOne
<1>4. \A c \in Consumers : Active(c) => \A d \in Consumers \ {c} : ~Active(d)
  BY OnlyOne
<1>5. ASSUME NEW p \in Producers, Produce(p) PROVE BatchesFit'
  <2>1. CASE \E values \in Batches : PrepareWrite(p, values)
    <3>1. PICK values \in Batches : PrepareWrite(p, values)
      BY <2>1
    <3>2. Len(values) \in 1..MaxBatch
      BY DEF Batches
    <3>. QED  BY <3>1, <3>2 DEF PrepareWrite
  <2>2. CASE CopyIn(p)
    BY <2>2 DEF CopyIn
  <2>3. CASE CommitWrite(p)
    <3>1. batch[p] \in 1..MaxBatch /\ Used(writeTs, readTs) + batch[p] <= Capacity
      BY <2>3 DEF CommitWrite
    <3>2. Used(writeTs', readTs) = Used(writeTs, readTs) + batch[p]
      BY <1>1, <2>3, <3>1, CommitMoves DEF CommitWrite
    <3>3. \A q \in Producers : ~Active(q)'
      BY <1>3, <2>3 DEF CommitWrite
    <3>. QED  BY <1>2, <2>3, <3>1, <3>2, <3>3 DEF CommitWrite
  <2>. QED  BY <1>5, <2>1, <2>2, <2>3 DEF Produce
<1>6. ASSUME NEW c \in Consumers, Consume(c) PROVE BatchesFit'
  <2>1. CASE \E n \in 1..MaxBatch : PrepareRead(c, n)
    BY <1>2, <2>1 DEF PrepareRead
  <2>2. CASE CopyOut(c)
    BY <2>2 DEF CopyOut
  <2>3. CASE CommitRead(c)
    <3>1. batch[c] \in 0..Capacity /\ batch[c] <= Used(writeTs, readTs)
      BY <1>2, <2>3 DEF CommitRead
    <3>2. Used(writeTs, readTs') = Used(writeTs, readTs) - batch[c]
      BY <1>1, <2>3, <3>1, CommitMoves DEF CommitRead
    <3>3. \A d \in Consumers : ~Active(d)'
      BY <1>4, <2>3 DEF CommitRead
    <3>. QED  BY <1>2, <2>3, <3>1, <3>2, <3>3 DEF CommitRead
  <2>4. CASE PopAllSize(c)
    BY <2>4 DEF PopAllSize
  <2>5. CASE PopAllPrepare(c)
    BY <2>5 DEF PopAllPrepare
  <2>6. CASE PopAllRefused(c)
    BY <2>6 DEF PopAllRefused
  <2>. QED  BY <1>6, <2>1, <2>2, <2>3, <2>4, <2>5, <2>6 DEF Consume
<1>7. CASE Quiet /\ readTs' = 0 /\ writeTs' = 0 /\ allocated' \in {0, Capacity}
           /\ UNCHANGED <<buffer, mutex, pc, batch, local, taken>>
  <2>1. Used(writeTs', readTs') = 0
    BY <1>7, UsedIs DEF TimestampRange
  <2>. QED  BY <1>7, <2>1 DEF Quiet
<1>8. CASE UNCHANGED fifoVars
  BY <1>8 DEF fifoVars
<1>. QED  BY <1>5, <1>6, <1>7, <1>8, StepCases

\* CopyIn leaves its values in its slots, and every other slot as it was.
LEMMA CopyInWrites ==
  ASSUME FifoInv, NEW p \in Producers, CopyIn(p)
  PROVE  /\ Content(buffer', writeTs, batch[p]) = local[p]
         /\ \A n \in Nat : n <= Used(writeTs, readTs) => Content(buffer', readTs, n) = Content(buffer, readTs, n)
<1>. USE Sizes DEF FifoInv, TypeOK, Active, Threads
<1>1. readTs \in TimestampRange /\ writeTs \in TimestampRange
  BY DEF TimestampRange
<1>2. /\ batch[p] \in 1..MaxBatch /\ Used(writeTs, readTs) + batch[p] <= Capacity
      /\ local[p] \in [1..batch[p] -> Values]
  BY DEF CopyIn, BatchesFit, CopiesMatch
<1>3. Used(writeTs, readTs) \in Nat
  BY TimestampsInRange
<1>4. ASSUME NEW k \in 1..batch[p] PROVE buffer'[Index(writeTs, k - 1)] = local[p][k]
  <2>. DEFINE i == Index(writeTs, k - 1)
              m == CHOOSE m \in 1..batch[p] : Index(writeTs, m - 1) = i
  <2>1. i \in DOMAIN buffer /\ i \in Slots(writeTs, batch[p])
    <3>1. k - 1 \in Int /\ k - 1 \in 0..(batch[p] - 1)
      BY <1>2
    <3>2. i \in 0..(Capacity - 1)
      BY <1>1, <3>1, IndexInRange
    <3>. QED  BY <3>1, <3>2 DEF Slots
  <2>2. m \in 1..batch[p] /\ Index(writeTs, m - 1) = i
    OBVIOUS
  <2>3. buffer'[i] = local[p][m]
    BY <2>1 DEF CopyIn
  <2>. HIDE DEF m
  <2>4. m = k
    <3>1. m - 1 \in Int /\ k - 1 \in Int /\ m - 1 < k - 1 + Capacity /\ k - 1 < m - 1 + Capacity
      BY <1>2, <2>2
    <3>. QED  BY <1>1, <1>2, <2>2, <3>1, IndexDistinct
  <2>. QED  BY <2>3, <2>4
<1>5. ASSUME NEW n \in Nat, n <= Used(writeTs, readTs), NEW k \in 1..n
      PROVE  buffer'[Index(readTs, k - 1)] = buffer[Index(readTs, k - 1)]
  <2>1. k - 1 \in Int /\ k - 1 \in 0..(n - 1)
    BY <1>5
  <2>2. Index(readTs, k - 1) \in DOMAIN buffer
    BY <1>1, <2>1, IndexInRange
  <2>3. Index(readTs, k - 1) \in Slots(readTs, n)
    BY <2>1 DEF Slots
  <2>4. Slots(writeTs, batch[p]) \cap Slots(readTs, n) = {}
    BY <1>1, <1>2, <1>3, <1>5, SlotsApart
  <2>. QED  BY <2>2, <2>3, <2>4 DEF CopyIn
<1>6. Content(buffer', writeTs, batch[p]) = local[p]
  BY <1>2, <1>4 DEF Content
<1>. QED  BY <1>5, <1>6 DEF Content

\* What was copied stays in its slots until it is committed or read.
LEMMA CopiesMatchStep == FifoInv /\ [Next]_vars => CopiesMatch'
<1> SUFFICES ASSUME FifoInv, [Next]_vars PROVE CopiesMatch'
  OBVIOUS
<1>. USE DEF FifoInv, TypeOK, Active, Threads, CopiesMatch
<1>. USE ThreadsAssumption, Sizes
<1>1. Used(writeTs, readTs) \in Nat
  BY TimestampsInRange
<1>2. \A p \in Producers : Active(p) => \A q \in Producers \ {p} : ~Active(q)
  BY OnlyOne
<1>3. \A c \in Consumers : Active(c) => \A d \in Consumers \ {c} : ~Active(d)
  BY OnlyOne
<1>4. ASSUME NEW p \in Producers, Produce(p) PROVE CopiesMatch'
  <2>1. CASE \E values \in Batches : PrepareWrite(p, values)
    <3>1. PICK values \in Batches : PrepareWrite(p, values)
      BY <2>1
    <3>2. values \in [1..Len(values) -> Values]
      BY DEF Batches
    <3>. QED  BY <3>1, <3>2 DEF PrepareWrite
  <2>2. CASE CopyIn(p)
    <3>1. \A c \in Consumers : pc[c] = "copied" /\ batch[c] \in 1..MaxBatch
             => Content(buffer', readTs, batch[c]) = Content(buffer, readTs, batch[c])
      BY <2>2, CopyInWrites DEF BatchesFit
    <3>2. Content(buffer', writeTs, batch[p]) = local[p]
      BY <2>2, CopyInWrites
    <3>3. \A q \in Producers : pc'[q] = "copied" => q = p
      BY <1>2, <2>2 DEF CopyIn
    <3>. QED  BY <2>2, <3>1, <3>2, <3>3 DEF CopyIn
  <2>3. CASE CommitWrite(p)
    <3>1. \A q \in Producers : ~Active(q)'
      BY <1>2, <2>3 DEF CommitWrite
    <3>. QED  BY <2>3, <3>1 DEF CommitWrite
  <2>. QED  BY <1>4, <2>1, <2>2, <2>3 DEF Produce
<1>5. ASSUME NEW c \in Consumers, Consume(c) PROVE CopiesMatch'
  <2>1. CASE \E n \in 1..MaxBatch : PrepareRead(c, n)
    BY <2>1 DEF PrepareRead, IsFree, Quiet
  <2>2. CASE CopyOut(c)
    <3>1. batch[c] \in 1..MaxBatch
      BY <2>2 DEF CopyOut, BatchesFit
    <3>2. local'[c] = Content(buffer, readTs, batch[c])
      BY <2>2 DEF CopyOut, Content
    <3>. QED  BY <2>2, <3>1, <3>2 DEF CopyOut
  <2>3. CASE CommitRead(c)
    <3>1. \A d \in Consumers : ~Active(d)'
      BY <1>3, <2>3 DEF CommitRead
    <3>2. \A d \in Consumers : local'[d] = <<>>
      BY <1>3, <2>3 DEF CommitRead
    <3>. QED  BY <2>3, <3>1, <3>2 DEF CommitRead
  <2>4. CASE PopAllSize(c)
    BY <2>4 DEF PopAllSize, IsFree, Quiet
  <2>5. CASE PopAllPrepare(c)
    BY <2>5 DEF PopAllPrepare
  <2>6. CASE PopAllRefused(c)
    BY <2>6 DEF PopAllRefused
  <2>. QED  BY <1>5, <2>1, <2>2, <2>3, <2>4, <2>5, <2>6 DEF Consume
<1>6. CASE Quiet /\ readTs' = 0 /\ writeTs' = 0 /\ allocated' \in {0, Capacity}
           /\ UNCHANGED <<buffer, mutex, pc, batch, local, taken>>
  BY <1>6 DEF Quiet
<1>7. CASE UNCHANGED fifoVars
  BY <1>7 DEF fifoVars
<1>. QED  BY <1>4, <1>5, <1>6, <1>7, StepCases

\* The invariant holds always.
LEMMA FifoInvariance == Spec => []FifoInv
<1>1. FifoInv /\ [Next]_vars => FifoInv'
  BY TypeStep, OneEachStep, BatchesFitStep, CopiesMatchStep DEF FifoInv
<1>. QED  BY FifoInit, <1>1, PTL DEF Spec

\* The type invariant of the fifo.
THEOREM FifoTypeCorrect == Spec => []TypeOK
<1>1. FifoInv => TypeOK
  BY DEF FifoInv
<1>. QED  BY FifoInvariance, <1>1, PTL

\* A valid lock has its slots for itself, whatever the strategy, the capacity and
\* the number of threads.
THEOREM SlotsAreExclusive == Spec => []ReservedSlotsAreDisjoint
<1>1. FifoInv => ReservedSlotsAreDisjoint
  <2> SUFFICES ASSUME FifoInv, NEW t \in Threads, NEW u \in Threads, t # u
               PROVE  Reserved(t) \cap Reserved(u) = {}
    BY DEF ReservedSlotsAreDisjoint
  <2>. USE DEF FifoInv, TypeOK, Active, Threads
  <2>. USE ThreadsAssumption
  <2>1. CASE ~Active(t) \/ ~Active(u)
    BY <2>1 DEF Reserved
  <2>2. ASSUME NEW p \in Producers, NEW c \in Consumers, Active(p), Active(c)
        PROVE  Reserved(p) \cap Reserved(c) = {}
    <3>1. readTs \in TimestampRange /\ writeTs \in TimestampRange
      BY DEF TimestampRange
    <3>2. /\ batch[p] \in Nat /\ batch[c] \in Nat
          /\ batch[c] <= Used(writeTs, readTs) /\ Used(writeTs, readTs) + batch[p] <= Capacity
      BY <2>2 DEF BatchesFit
    <3>3. Reserved(p) = Slots(writeTs, batch[p]) /\ Reserved(c) = Slots(readTs, batch[c])
      BY <2>2 DEF Reserved
    <3>. QED  BY <3>1, <3>2, <3>3, SlotsApart
  <2>3. CASE Active(t) /\ Active(u)
    BY <2>2, <2>3, OnlyOne
  <2>. QED  BY <2>1, <2>3
<1>. QED  BY FifoInvariance, <1>1, PTL

-----------------------------------------------------------------------------
(* The refinement. *)

\* Sequences as functions.
LEMMA SequencesAreFunctions ==
  ASSUME NEW S, NEW m \in Nat, NEW f \in [1..m -> S]
  PROVE  /\ f \in Seq(S) /\ Len(f) = m
         /\ \A n \in Nat : \A g \in [1..n -> S] :
              f \o g = [k \in 1..(m + n) |-> IF k <= m THEN f[k] ELSE g[k - m]]
         /\ \A n \in 0..m : /\ SubSeq(f, 1, n) = [k \in 1..n |-> f[k]]
                            /\ SubSeq(f, n + 1, m) = [k \in 1..(m - n) |-> f[n + k]]
<1>1. f \in Seq(S) /\ Len(f) = m
  OBVIOUS
<1>2. ASSUME NEW n \in Nat, NEW g \in [1..n -> S]
      PROVE  f \o g = [k \in 1..(m + n) |-> IF k <= m THEN f[k] ELSE g[k - m]]
  <2>. DEFINE h == [k \in 1..(m + n) |-> IF k <= m THEN f[k] ELSE g[k - m]]
  <2>1. g \in Seq(S) /\ Len(g) = n
    OBVIOUS
  <2>2. h \in [1..(m + n) -> S] /\ m + n \in Nat
    OBVIOUS
  <2>3. h \in Seq(S) /\ Len(h) = m + n
    BY <2>2
  <2>4. /\ f \o g \in Seq(S) /\ Len(f \o g) = m + n
        /\ \A k \in 1..(m + n) : (f \o g)[k] = h[k]
    BY <1>1, <2>1, ConcatProperties
  <2>. HIDE DEF h
  <2>5. f \o g = h
    BY <2>3, <2>4, SeqEqual
  <2>. QED  BY <2>5 DEF h
<1>3. ASSUME NEW n \in 0..m
      PROVE  /\ SubSeq(f, 1, n) = [k \in 1..n |-> f[k]]
             /\ SubSeq(f, n + 1, m) = [k \in 1..(m - n) |-> f[n + k]]
  BY <1>1
<1>. QED  BY <1>1, <1>2, <1>3

\* What is inside, the queue that the fifo implements.
Inside == Content(buffer, readTs, Used(writeTs, readTs))

\* What is inside is a sequence of as many values as the timestamps say.
LEMMA InsideIs ==
  ASSUME TypeOK, Used(writeTs, readTs) <= Capacity
  PROVE  Inside \in [1..Used(writeTs, readTs) -> Values]
<1>1. ASSUME NEW k \in 1..Used(writeTs, readTs) PROVE buffer[Index(readTs, k - 1)] \in Values
  <2>1. k - 1 \in Int /\ readTs \in TimestampRange
    BY TimestampsInRange
  <2>. QED  BY <2>1, IndexInRange DEF TypeOK
<1>. QED  BY <1>1 DEF Inside, Content

\* The steps of the fifo are steps of the queue: a commit of a producer is Put, one of
\* a consumer Take or, of pop_all, Drop; reset and resize are Clear, and every other
\* step leaves what is inside as it is.
LEMMA CommitWritePuts ==
  ASSUME FifoInv, NEW p \in Producers, CommitWrite(p)
  PROVE  /\ local[p] \in [1..batch[p] -> Values] /\ batch[p] \in 1..Capacity
         /\ Len(Inside) + Len(local[p]) <= Capacity
         /\ Inside' = Inside \o local[p]
<1>. USE Sizes
<1>. DEFINE u == Used(writeTs, readTs)
             n == batch[p]
<1>1. /\ pc[p] = "copied" /\ n \in 1..MaxBatch /\ u + n <= Capacity
      /\ local[p] \in [1..n -> Values] /\ local[p] = Content(buffer, writeTs, n)
  BY DEF CommitWrite, FifoInv, BatchesFit, CopiesMatch, Active
<1>2. /\ readTs \in TimestampRange /\ writeTs \in TimestampRange /\ u \in Nat
      /\ u <= Capacity /\ Inside \in [1..u -> Values]
  BY TimestampsInRange, InsideIs DEF FifoInv, BatchesFit
<1>3. Used(writeTs', readTs') = u + n /\ readTs' = readTs /\ buffer' = buffer
  BY <1>1, <1>2, CommitMoves DEF CommitWrite
<1>4. ASSUME NEW k \in 1..(u + n), ~(k <= u) PROVE buffer[Index(readTs, k - 1)] = local[p][k - u]
  <2>. DEFINE i == (k - u) - 1
  <2>1. i \in Int /\ k - u \in 1..n /\ u + i = k - 1
    BY <1>1, <1>2, <1>4
  <2>2. local[p][k - u] = buffer[Index(writeTs, i)]
    BY <1>1, <2>1 DEF Content
  <2>3. Index(writeTs, i) = Index(readTs, u + i)
    BY <1>2, <2>1, WritePosition
  <2>. QED  BY <2>1, <2>2, <2>3
<1>5. Inside' = [k \in 1..(u + n) |-> IF k <= u THEN Inside[k] ELSE local[p][k - u]]
  <2>1. Inside' = [k \in 1..(u + n) |-> buffer[Index(readTs, k - 1)]]
    BY <1>3 DEF Inside, Content
  <2>2. \A k \in 1..u : Inside[k] = buffer[Index(readTs, k - 1)]
    BY DEF Inside, Content
  <2>3. \A k \in 1..(u + n) : k <= u => k \in 1..u
    BY <1>2
  <2>. HIDE DEF u, n
  <2>. QED  BY <1>4, <2>1, <2>2, <2>3
<1>6. Inside \o local[p] = [k \in 1..(u + n) |-> IF k <= u THEN Inside[k] ELSE local[p][k - u]]
  BY SMTT(30), <1>1, <1>2, SequencesAreFunctions
<1>7. Len(Inside) = u /\ Len(local[p]) = n
  BY <1>1, <1>2, SequencesAreFunctions
<1>. QED  BY <1>1, <1>5, <1>6, <1>7

\* Committing a read takes the values that the thread copied out, from the front.
LEMMA CommitReadTakes ==
  ASSUME FifoInv, NEW c \in Consumers, CommitRead(c)
  PROVE  /\ batch[c] \in 0..Capacity /\ batch[c] <= Len(Inside)
         /\ Inside' = SubSeq(Inside, batch[c] + 1, Len(Inside))
         /\ \/ taken' = <<>>
            \/ batch[c] \in 1..Capacity /\ taken' = SubSeq(Inside, 1, batch[c])
<1>. USE Sizes
<1>. DEFINE u == Used(writeTs, readTs)
             n == batch[c]
<1>1. readTs \in TimestampRange /\ writeTs \in TimestampRange /\ u \in Nat
      /\ u <= Capacity /\ Inside \in [1..u -> Values]
  BY TimestampsInRange, InsideIs DEF FifoInv, BatchesFit
<1>2. n \in Nat /\ n <= u
  BY DEF CommitRead, FifoInv, TypeOK, BatchesFit, Active, Threads
<1>3. Used(writeTs', readTs') = u - n /\ readTs' = Advance(readTs, n) /\ buffer' = buffer
  BY <1>1, <1>2, CommitMoves DEF CommitRead
<1>4. ASSUME NEW k \in 1..(u - n) PROVE buffer[Index(readTs', k - 1)] = Inside[n + k]
  <2>1. k - 1 \in Int /\ n + (k - 1) = (n + k) - 1 /\ n + k \in 1..u /\ n \in 0..Capacity
    BY <1>1, <1>2
  <2>2. Index(readTs', k - 1) = Index(readTs, n + (k - 1))
    BY <1>1, <1>3, <2>1, IndexAdvance
  <2>. QED  BY <2>1, <2>2 DEF Inside, Content
<1>5. Inside' = [k \in 1..(u - n) |-> Inside[n + k]]
  BY <1>3, <1>4 DEF Inside, Content
<1>6. Len(Inside) = u /\ SubSeq(Inside, n + 1, u) = [k \in 1..(u - n) |-> Inside[n + k]]
      /\ SubSeq(Inside, 1, n) = [k \in 1..n |-> Inside[k]]
  BY SMTT(30), <1>1, <1>2, SequencesAreFunctions
<1>7. \/ taken' = <<>>
      \/ n \in 1..Capacity /\ taken' = SubSeq(Inside, 1, n)
  <2>1. CASE local[c] = <<>>
    BY <2>1 DEF CommitRead
  <2>2. CASE n \in 1..MaxBatch /\ local[c] = Content(buffer, readTs, n)
    <3>1. Content(buffer, readTs, n) = [k \in 1..n |-> Inside[k]]
      BY <1>1, <1>2 DEF Inside, Content
    <3>. QED  BY <1>6, <2>2, <3>1 DEF CommitRead
  <2>. QED  BY <2>1, <2>2 DEF FifoInv, CopiesMatch, CommitRead
<1>. QED  BY <1>1, <1>2, <1>5, <1>6, <1>7

\* With any strategy the fifo is a queue: a commit of a producer puts its values, a
\* commit of a consumer takes the oldest ones and no others, and no step in between,
\* of whatever thread, changes what is inside.
THEOREM FifoImplementsQueue == Spec => ImplementsQueue
<1>. DEFINE inside == [k \in 1..Used(writeTs, readTs) |-> buffer[Index(readTs, k - 1)]]
<1>0. Inside = inside /\ Inside' = inside'
  BY DEF Inside, Content
<1>. HIDE DEF inside
<1>1. Init => Queue!Init
  <2> SUFFICES ASSUME Init PROVE Queue!Init
    OBVIOUS
  <2>1. Used(writeTs, readTs) = 0
    BY UsedIs, Sizes DEF Init, TimestampRange
  <2>2. inside = <<>>
    BY <2>1 DEF inside
  <2>. QED  BY <2>2 DEF Init, Queue!Init, inside
<1>2. FifoInv /\ [Next]_vars => [Queue!Next]_<<inside, taken>>
  <2> SUFFICES ASSUME FifoInv, [Next]_vars PROVE [Queue!Next]_<<inside, taken>>
    OBVIOUS
  <2>1. ASSUME UNCHANGED <<buffer, readTs, writeTs, taken>> PROVE UNCHANGED <<inside, taken>>
    BY <2>1 DEF inside
  <2>2. ASSUME NEW p \in Producers, Produce(p) PROVE [Queue!Next]_<<inside, taken>>
    <3>1. CASE \E values \in Batches : PrepareWrite(p, values)
      BY <2>1, <3>1 DEF PrepareWrite
    <3>2. CASE CopyIn(p)
      <4>1. Used(writeTs, readTs) \in Nat
        BY TimestampsInRange DEF FifoInv
      <4>2. Inside' = Inside
        <5>1. Content(buffer', readTs, Used(writeTs, readTs)) = Inside
          BY <3>2, <4>1, CopyInWrites, UsedIs, Sizes DEF Inside
        <5>2. Inside' = Content(buffer', readTs, Used(writeTs, readTs))
          BY <3>2 DEF Inside, CopyIn
        <5>. QED  BY <5>1, <5>2
      <4>. QED  BY <1>0, <3>2, <4>2 DEF CopyIn
    <3>3. CASE CommitWrite(p)
      <4>1. Queue!Put(local[p])
        BY <1>0, <3>3, CommitWritePuts DEF Queue!Put, CommitWrite, inside
      <4>. QED  BY <3>3, <4>1, CommitWritePuts DEF Queue!Next
    <3>. QED  BY <2>2, <3>1, <3>2, <3>3 DEF Produce
  <2>3. ASSUME NEW c \in Consumers, Consume(c) PROVE [Queue!Next]_<<inside, taken>>
    <3>1. CASE CommitRead(c)
      <4>1. CASE taken' = <<>>
        <5>1. Queue!Drop(batch[c])
          BY <1>0, <3>1, <4>1, CommitReadTakes DEF Queue!Drop, inside
        <5>. QED  BY <3>1, <5>1, CommitReadTakes DEF Queue!Next
      <4>2. CASE batch[c] \in 1..Capacity /\ taken' = SubSeq(Inside, 1, batch[c])
        <5>1. Queue!Take(batch[c])
          BY <1>0, <3>1, <4>2, CommitReadTakes DEF Queue!Take, inside
        <5>. QED  BY <4>2, <5>1 DEF Queue!Next
      <4>. QED  BY <3>1, <4>1, <4>2, CommitReadTakes
    <3>2. CASE ~CommitRead(c)
      BY <2>1, <2>3, <3>2 DEF Consume, PrepareRead, CopyOut, PopAllSize, PopAllPrepare, PopAllRefused
    <3>. QED  BY <3>1, <3>2
  <2>4. CASE Quiet /\ readTs' = 0 /\ writeTs' = 0 /\ allocated' \in {0, Capacity}
             /\ UNCHANGED <<buffer, mutex, pc, batch, local, taken>>
    <3>1. Used(writeTs', readTs') = 0
      BY <2>4, UsedIs, Sizes DEF TimestampRange
    <3>2. inside' = <<>>
      BY <3>1 DEF inside
    <3>3. Queue!Clear
      BY <2>4, <3>2 DEF Queue!Clear, inside
    <3>. QED  BY <3>3 DEF Queue!Next
  <2>5. CASE UNCHANGED fifoVars
    BY <2>1, <2>5 DEF fifoVars
  <2>. QED  BY <2>2, <2>3, <2>4, <2>5, StepCases
<1>. QED  BY <1>1, <1>2, FifoInvariance, PTL DEF Spec, ImplementsQueue, Queue!Spec, Queue!vars, inside
=============================================================================
