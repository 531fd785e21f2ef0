-------------------------------- MODULE Fifo --------------------------------
(***************************************************************************)
(* rav::FifoBuffer<T, F> with the strategies F of rav::Fifo.  The sides    *)
(* that hold the mutex from prepare to the end of the Lock tell them apart,*)
(* and that Single stays on one thread.                                    *)
(*                                                                         *)
(* A side without mutex has one thread, so that only the timestamp of the  *)
(* other side can change while it prepares: reading both is one step.  The *)
(* copy between prepare and commit takes as long as it likes.              *)
(***************************************************************************)
EXTENDS Integers, Sequences

CONSTANTS
  Producers, Consumers, Observers,
  Strategies,     \* the strategies F to look at
  Capacity,
  MaxBatch,       \* the most elements to write or read at once
  Values,
  TsMod,          \* the timestamps are size_t, modulo 2^64
  Nobody

Threads == Producers \cup Consumers

ASSUME CapacityAssumption == Capacity \in Nat \ {0} /\ MaxBatch \in 1..Capacity
ASSUME StrategiesAssumption == Strategies \subseteq {"Single", "Spsc", "Mpsc", "Spmc", "Mpmc"}
ASSUME ThreadsAssumption == Producers # {} /\ Consumers # {} /\ Producers \cap Consumers = {}
ASSUME NobodyAssumption == Nobody \notin Threads
\* The timestamps do not get as far as 2^64; a modulus that Capacity does not
\* divide would break the positions there.
ASSUME TsModAssumption == TsMod \in Nat /\ TsMod > Capacity /\ TsMod % Capacity = 0

VARIABLES
  strategy,         \* F, which does not change
  readTs, writeTs,  \* read_ts_, write_ts_
  buffer,           \* buffer_
  allocated,        \* buffer_.size()
  mutex,            \* who holds mutex_
  pc,               \* "idle", "prepared" or "copied"; "sized" inside pop_all
  batch,            \* number_of_elements of each thread's operation
  local,            \* the values that a thread writes or has read
  taken,            \* the values that the last read, of whatever consumer, returned
  loaded,           \* the timestamp that an observer has loaded in size
  size              \* the result of its last call

fifoVars == <<readTs, writeTs, buffer, allocated, mutex, pc, batch, local, taken>>
sizeVars == <<loaded, size>>
vars == <<strategy, fifoVars, sizeVars>>

Batches == UNION {[1..n -> Values] : n \in 1..MaxBatch}

TypeOK ==
  /\ strategy \in Strategies
  /\ readTs \in 0..(TsMod - 1) /\ writeTs \in 0..(TsMod - 1)
  /\ buffer \in [0..(Capacity - 1) -> Values]
  /\ allocated \in {0, Capacity}
  /\ mutex \in Threads \cup {Nobody}
  /\ pc \in [Threads -> {"idle", "sized", "prepared", "copied"}]
  /\ batch \in [Threads -> 0..(TsMod - 1)]
  /\ local \in [Threads -> Batches \cup {<<>>}]
  /\ taken \in Batches \cup {<<>>}

\* write_ts_ - read_ts_ in the arithmetic of size_t.
Used(w, r) == (w - r) % TsMod

Advance(ts, n) == (ts + n) % TsMod

\* Fifo::Position: the indices from a timestamp on, in two parts at the end.
Index(ts, i) == (ts + i) % Capacity
Slots(ts, n) == {Index(ts, i) : i \in 0..(n - 1)}

\* The sides on which the Lock of each strategy has the mutex, until it ends.
SingleLock == {}
SpscLock == {}
MpscLock == {"write"}
SpmcLock == {"read"}
MpmcLock == {"write", "read"}

Guarded == CASE strategy = "Single" -> SingleLock
             [] strategy = "Spsc" -> SpscLock
             [] strategy = "Mpsc" -> MpscLock
             [] strategy = "Spmc" -> SpmcLock
             [] strategy = "Mpmc" -> MpmcLock

\* The threads of a side: one of them when the strategy does not guard it.
Side(S, side) == IF side \in Guarded THEN S ELSE {CHOOSE t \in S : TRUE}

Locks(t, side)   == IF side \in Guarded THEN mutex = Nobody /\ mutex' = t ELSE UNCHANGED mutex
Unlocks(t, side) == IF side \in Guarded THEN mutex' = Nobody ELSE UNCHANGED mutex

Init ==
  /\ strategy \in Strategies
  /\ readTs = 0 /\ writeTs = 0
  /\ buffer \in [0..(Capacity - 1) -> Values]
  /\ allocated = Capacity
  /\ mutex = Nobody
  /\ pc = [t \in Threads |-> "idle"]
  /\ batch = [t \in Threads |-> 0]
  /\ local = [t \in Threads |-> <<>>]
  /\ taken = <<>>
  /\ loaded = [o \in Observers |-> <<>>]
  /\ size = [o \in Observers |-> 0]

Quiet == \A t \in Threads : pc[t] = "idle"

\* One thread does one thing after the other; it is both sides of Single.
IsFree(t) == IF strategy = "Single" THEN Quiet ELSE pc[t] = "idle"

\* After reset the buffer has no elements until it is resized: using it before is
\* out of bounds.
Usable == allocated = Capacity

-----------------------------------------------------------------------------

\* Mutant of PrepareWrite: one element too many fits.
PrepareWriteTooMany(p, values) ==
  /\ IsFree(p) /\ Usable
  /\ Used(writeTs, readTs) + Len(values) <= Capacity + 1
  /\ Locks(p, "write")
  /\ pc' = [pc EXCEPT ![p] = "prepared"]
  /\ batch' = [batch EXCEPT ![p] = Len(values)]
  /\ local' = [local EXCEPT ![p] = values]
  /\ UNCHANGED <<readTs, writeTs, buffer, allocated, taken, sizeVars>>

\* prepare_for_write; without enough room it gives the mutex back and fails.
PrepareWrite(p, values) ==
  /\ IsFree(p) /\ Usable
  /\ Used(writeTs, readTs) + Len(values) <= Capacity
  /\ Locks(p, "write")
  /\ pc' = [pc EXCEPT ![p] = "prepared"]
  /\ batch' = [batch EXCEPT ![p] = Len(values)]
  /\ local' = [local EXCEPT ![p] = values]
  /\ UNCHANGED <<readTs, writeTs, buffer, allocated, taken, sizeVars>>

CopyIn(p) ==
  /\ pc[p] = "prepared"
  /\ buffer' = [i \in DOMAIN buffer |->
                  IF i \in Slots(writeTs, batch[p])
                  THEN local[p][CHOOSE k \in 1..batch[p] : Index(writeTs, k - 1) = i]
                  ELSE buffer[i]]
  /\ pc' = [pc EXCEPT ![p] = "copied"]
  /\ UNCHANGED <<readTs, writeTs, allocated, mutex, batch, local, taken, sizeVars>>

\* commit, and the end of the Lock.
CommitWrite(p) ==
  /\ pc[p] = "copied"
  /\ writeTs' = Advance(writeTs, batch[p])
  /\ Unlocks(p, "write")
  /\ pc' = [pc EXCEPT ![p] = "idle"]
  /\ batch' = [batch EXCEPT ![p] = 0]
  /\ local' = [local EXCEPT ![p] = <<>>]
  /\ UNCHANGED <<readTs, buffer, allocated, taken, sizeVars>>

PrepareRead(c, n) ==
  /\ IsFree(c) /\ Usable
  /\ Used(writeTs, readTs) >= n
  /\ Locks(c, "read")
  /\ pc' = [pc EXCEPT ![c] = "prepared"]
  /\ batch' = [batch EXCEPT ![c] = n]
  /\ UNCHANGED <<readTs, writeTs, buffer, allocated, local, taken, sizeVars>>

CopyOut(c) ==
  /\ pc[c] = "prepared"
  /\ local' = [local EXCEPT ![c] = [k \in 1..batch[c] |-> buffer[Index(readTs, k - 1)]]]
  /\ pc' = [pc EXCEPT ![c] = "copied"]
  /\ UNCHANGED <<readTs, writeTs, buffer, allocated, mutex, batch, taken, sizeVars>>

\* Mutant of CommitRead: the mutex is released and the room given back before
\* the values are copied.
CommitReadEarly(c) ==
  /\ pc[c] \in {"prepared", "copied"}
  /\ readTs' = IF pc[c] = "prepared" THEN Advance(readTs, batch[c]) ELSE readTs
  /\ Unlocks(c, "read")
  /\ pc' = [pc EXCEPT ![c] = IF pc[c] = "prepared" THEN "copied" ELSE "idle"]
  /\ taken' = [k \in 1..batch[c] |-> buffer[Index(readTs, k - 1)]]
  /\ UNCHANGED <<writeTs, buffer, allocated, batch, local, sizeVars>>

CommitRead(c) ==
  /\ pc[c] = "copied"
  /\ readTs' = Advance(readTs, batch[c])
  /\ Unlocks(c, "read")
  /\ pc' = [pc EXCEPT ![c] = "idle"]
  /\ batch' = [batch EXCEPT ![c] = 0]
  /\ local' = [local EXCEPT ![c] = <<>>]
  /\ taken' = local[c]
  /\ UNCHANGED <<writeTs, buffer, allocated, sizeVars>>

\* pop_all asks for the size first. One consumer finds what is there at the load
\* of the timestamp of the producer; among several the two loads fit to nothing.
PopAllSize(c) ==
  /\ IsFree(c) /\ Usable
  /\ strategy = "Mpmc" => mutex = Nobody
  /\ \E n \in IF strategy = "Spmc" THEN 0..(TsMod - 1) ELSE {Used(writeTs, readTs)} :
       batch' = [batch EXCEPT ![c] = n]
  /\ pc' = [pc EXCEPT ![c] = "sized"]
  /\ UNCHANGED <<readTs, writeTs, buffer, allocated, mutex, local, taken, sizeVars>>

\* Then it reads that many without a copy, or nothing when they are not there.
PopAllPrepare(c) ==
  /\ pc[c] = "sized" /\ Used(writeTs, readTs) >= batch[c]
  /\ Locks(c, "read")
  /\ pc' = [pc EXCEPT ![c] = "copied"]
  /\ UNCHANGED <<readTs, writeTs, buffer, allocated, batch, local, taken, sizeVars>>

PopAllRefused(c) ==
  /\ pc[c] = "sized" /\ Used(writeTs, readTs) < batch[c]
  /\ "read" \in Guarded => mutex = Nobody
  /\ pc' = [pc EXCEPT ![c] = "idle"]
  /\ batch' = [batch EXCEPT ![c] = 0]
  /\ UNCHANGED <<readTs, writeTs, buffer, allocated, mutex, local, taken, sizeVars>>

\* FifoBuffer::reset and FifoBuffer::resize, which are not thread safe: clear()
\* leaves the vector without elements, resize allocates them again.
Reset ==
  /\ Quiet
  /\ readTs' = 0 /\ writeTs' = 0
  /\ allocated' = 0
  /\ UNCHANGED <<buffer, mutex, pc, batch, local, taken, sizeVars>>

Resize ==
  /\ Quiet
  /\ readTs' = 0 /\ writeTs' = 0
  /\ allocated' = Capacity
  /\ UNCHANGED <<buffer, mutex, pc, batch, local, taken, sizeVars>>

\* size() on another thread: two loads in the order that the compiler chose, or
\* both under the mutex of Mpmc, or on the thread of Single.
SizeFirst(o) ==
  /\ strategy \notin {"Single", "Mpmc"} /\ loaded[o] = <<>>
  /\ loaded' \in {[loaded EXCEPT ![o] = <<"write", writeTs>>],
                  [loaded EXCEPT ![o] = <<"read", readTs>>]}
  /\ UNCHANGED <<fifoVars, size>>

SizeSecond(o) ==
  /\ loaded[o] # <<>>
  /\ size' = [size EXCEPT ![o] = IF loaded[o][1] = "write"
                                THEN Used(loaded[o][2], readTs)
                                ELSE Used(writeTs, loaded[o][2])]
  /\ loaded' = [loaded EXCEPT ![o] = <<>>]
  /\ UNCHANGED fifoVars

SizeAtOnce(o) ==
  /\ strategy \in {"Single", "Mpmc"} /\ mutex = Nobody
  /\ size' = [size EXCEPT ![o] = Used(writeTs, readTs)]
  /\ UNCHANGED <<fifoVars, loaded>>

Produce(p) ==
  \/ \E values \in Batches : PrepareWrite(p, values)
  \/ CopyIn(p) \/ CommitWrite(p)

Consume(c) ==
  \/ \E n \in 1..MaxBatch : PrepareRead(c, n)
  \/ CopyOut(c) \/ CommitRead(c)
  \/ PopAllSize(c) \/ PopAllPrepare(c) \/ PopAllRefused(c)

Observe(o) == SizeFirst(o) \/ SizeSecond(o) \/ SizeAtOnce(o)

Next ==
  /\ UNCHANGED strategy
  /\ \/ \E p \in Side(Producers, "write") : Produce(p)
     \/ \E c \in Side(Consumers, "read") : Consume(c)
     \/ Reset \/ Resize
     \/ \E o \in Observers : Observe(o)

Spec == Init /\ [][Next]_vars

-----------------------------------------------------------------------------

\* The slots that a thread may touch between prepare and commit.
Reserved(t) ==
  IF pc[t] \in {"idle", "sized"} THEN {}
  ELSE Slots(IF t \in Producers THEN writeTs ELSE readTs, batch[t])

\* A valid lock reserves "the required buffer space for the duration of the lock":
\* no other thread reads or writes a slot that a thread copies to or from.
ReservedSlotsAreDisjoint ==
  \A t, u \in Threads : t # u => Reserved(t) \cap Reserved(u) = {}

\* A fifo is a queue: a commit of a producer puts its values, a commit of a
\* consumer takes the oldest ones, and both return what the queue would.
Queue == INSTANCE BoundedQueue WITH
  queue <- [k \in 1..Used(writeTs, readTs) |-> buffer[Index(readTs, k - 1)]]

ImplementsQueue == Queue!Spec
=============================================================================
