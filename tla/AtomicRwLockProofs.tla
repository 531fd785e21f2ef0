------------------------- MODULE AtomicRwLockProofs -------------------------
(***************************************************************************)
(* AtomicRwLock excludes, for any number of readers and writers, and       *)
(* implements RwLock.                                                      *)
(***************************************************************************)
EXTENDS AtomicRwLock, FiniteSetTheorems, TLAPS

\* The readers whose fetch_add is in the count.
Counted == At("shared") \cup At("undo")

\* The inductive invariant: the count, the two bits and the places of the threads
\* describe each other.
LockInv ==
  /\ TypeOK
  /\ CountIsReaders
  /\ RefusalMeansWriter
  /\ At("exclusive") # {} => exclusive
  /\ \A t, u \in At("exclusive") : t = u
  /\ exclusive => At("shared") = {}

\* The counted readers are a finite set, as the threads are.
LEMMA CountedIsFinite == IsFiniteSet(Counted)
<1>1. Counted \subseteq Threads
  BY DEF Counted, At
<1>. QED  BY <1>1, ThreadsAssumption, FS_Subset

\* A count of zero means that no reader is inside or on its way out.
LEMMA ZeroCount == CountIsReaders /\ count = 0 => Counted = {}
BY CountedIsFinite, FS_EmptySet DEF CountIsReaders, Counted

\* A fetch_add that brings a thread inside adds it to the counted readers, and a
\* fetch_sub takes it out again.
LEMMA CountStep ==
  ASSUME TypeOK, CountIsReaders, NEW t \in Threads
  PROVE  /\ /\ pc[t] = "add" /\ count' = count + 1
            /\ Goto(t, "shared") \/ Goto(t, "undo")
            => count' \in Nat /\ CountIsReaders'
         /\ pc[t] \in {"shared", "undo"} /\ count' = count - 1 /\ Goto(t, "idle")
            => count' \in Nat /\ CountIsReaders' /\ count > 0
<1>1. count = Cardinality(Counted) /\ IsFiniteSet(Counted)
  BY CountedIsFinite DEF CountIsReaders, Counted
<1>2. ASSUME pc[t] = "add", count' = count + 1, Goto(t, "shared") \/ Goto(t, "undo")
      PROVE  count' \in Nat /\ CountIsReaders'
  <2>1. Counted' = Counted \cup {t} /\ t \notin Counted
    BY <1>2 DEF TypeOK, Counted, At, Goto
  <2>2. Cardinality(Counted') = Cardinality(Counted) + 1
    BY <1>1, <2>1, FS_AddElement
  <2>. QED  BY <1>1, <1>2, <2>2 DEF TypeOK, CountIsReaders, Counted
<1>3. ASSUME pc[t] \in {"shared", "undo"}, count' = count - 1, Goto(t, "idle")
      PROVE  count' \in Nat /\ CountIsReaders' /\ count > 0
  <2>1. Counted' = Counted \ {t} /\ t \in Counted
    BY <1>3 DEF TypeOK, Counted, At, Goto
  <2>2. Cardinality(Counted') = Cardinality(Counted) - 1
    BY <1>1, <2>1, FS_RemoveElement
  <2>3. Cardinality(Counted) # 0
    BY <1>1, <2>1, FS_EmptySet
  <2>. QED  BY <1>1, <1>3, <2>2, <2>3 DEF TypeOK, CountIsReaders, Counted
<1>. QED  BY <1>2, <1>3

\* A step that moves a thread between places outside the counted ones leaves the
\* count right.
LEMMA CountStays ==
  ASSUME TypeOK, CountIsReaders, NEW t \in Threads, NEW l \in Locations \ {"shared", "undo"},
         pc[t] \notin {"shared", "undo"}, Goto(t, l), UNCHANGED count
  PROVE  CountIsReaders'
<1>1. Counted' = Counted
  BY DEF TypeOK, Counted, At, Goto
<1>. QED  BY <1>1 DEF CountIsReaders, Counted

\* Nobody is anywhere at the start.
LEMMA LockInit == Init => LockInv
<1> SUFFICES ASSUME Init PROVE LockInv
  OBVIOUS
<1>1. \A l \in Locations \ {"idle"} : At(l) = {}
  BY DEF Init, At, Locations
<1>2. TypeOK
  BY DEF Init, TypeOK, Locations
<1>3. CountIsReaders
  BY <1>1, FS_EmptySet DEF CountIsReaders, Locations, Init
<1>. QED  BY <1>1, <1>2, <1>3 DEF LockInv, RefusalMeansWriter, Locations, Init

\* Every step keeps the invariant; the two compare_exchanges rest on ZeroCount.
LEMMA LockStep == LockInv /\ [Next]_vars => LockInv'
<1> SUFFICES ASSUME LockInv, [Next]_vars PROVE LockInv'
  OBVIOUS
<1>. USE DEF LockInv
<1>1. ASSUME NEW t \in Readers, LoadShared(t) PROVE LockInv'
  <2>1. CountIsReaders'
    BY <1>1, CountStays DEF LoadShared, Locations, Threads
  <2>. QED  BY <1>1, <2>1 DEF LoadShared, TypeOK, Goto, At, Locations, Threads, RefusalMeansWriter
<1>2. ASSUME NEW t \in Readers, AddShared(t) PROVE LockInv'
  <2>1. count' \in Nat /\ CountIsReaders'
    BY <1>2, CountStep DEF AddShared, Threads
  <2>2. CASE Refused
    BY <1>2, <2>1, <2>2 DEF AddShared, TypeOK, Goto, At, Locations, Threads, RefusalMeansWriter
  <2>3. CASE ~Refused
    BY <1>2, <2>1, <2>3 DEF AddShared, TypeOK, Goto, At, Locations, Threads, RefusalMeansWriter,
                            Refused
  <2>. QED  BY <2>2, <2>3
<1>3. ASSUME NEW t \in Readers, UndoShared(t) \/ UnlockShared(t) PROVE LockInv'
  <2>1. count' \in Nat /\ CountIsReaders'
    BY <1>3, CountStep DEF UndoShared, UnlockShared, Threads
  <2>. QED  BY <1>3, <2>1 DEF UndoShared, UnlockShared, TypeOK, Goto, At, Locations, Threads,
                             RefusalMeansWriter
<1>4. ASSUME NEW t \in Writers, TryLockExclusive(t) PROVE LockInv'
  <2>1. CountIsReaders'
    BY <1>4, CountStays DEF TryLockExclusive, Locations, Threads
  <2>2. CASE count = 0 /\ ~exclusive /\ ~waiting
    <3>1. At("shared") = {}
      BY <2>2, ZeroCount DEF Counted
    <3>. QED  BY <1>4, <2>1, <2>2, <3>1 DEF TryLockExclusive, TypeOK, Goto, At, Locations, Threads,
                                           RefusalMeansWriter
  <2>3. CASE ~(count = 0 /\ ~exclusive /\ ~waiting)
    BY <1>4, <2>1, <2>3 DEF TryLockExclusive, TypeOK, Goto, At, Locations, Threads,
                            RefusalMeansWriter
  <2>. QED  BY <2>2, <2>3
<1>5. ASSUME NEW t \in Writers, Announce(t) PROVE LockInv'
  <2>1. CountIsReaders'
    BY <1>5, CountStays DEF Announce, Locations, Threads
  <2>. QED  BY <1>5, <2>1 DEF Announce, TypeOK, Goto, At, Locations, Threads, RefusalMeansWriter
<1>6. ASSUME NEW t \in Writers, Swap(t) PROVE LockInv'
  <2>1. CountIsReaders'
    BY <1>6, CountStays DEF Swap, Locations, Threads
  <2>2. CASE count = 0 /\ ~exclusive /\ waiting
    <3>1. At("shared") = {}
      BY <2>2, ZeroCount DEF Counted
    <3>2. exclusive' = TRUE /\ waiting' = FALSE /\ count' = count /\ Goto(t, "exclusive")
      BY <1>6, <2>2 DEF Swap
    <3>3. TypeOK'
      BY <3>2 DEF TypeOK, Goto, Locations
    <3>4. t \in Threads /\ \A u \in Threads : pc'[u] = IF u = t THEN "exclusive" ELSE pc[u]
      BY <3>2 DEF TypeOK, Goto, Threads
    <3>5. At("exclusive") = {}
      BY <2>2
    <3>6. At("exclusive")' = {t}
      BY <3>4, <3>5 DEF At
    <3>7. At("shared")' = {}
      BY <3>1, <3>4 DEF At
    <3>. QED  BY <2>1, <3>2, <3>3, <3>6, <3>7 DEF RefusalMeansWriter
  <2>3. CASE ~(count = 0 /\ ~exclusive /\ waiting)
    BY <1>6, <2>1, <2>3 DEF Swap, TypeOK, Goto, At, Locations, Threads, RefusalMeansWriter
  <2>. QED  BY <2>2, <2>3
<1>7. ASSUME NEW t \in Writers, GiveUp(t) PROVE LockInv'
  <2>1. CountIsReaders'
    BY <1>7, CountStays DEF GiveUp, Locations, Threads
  <2>. QED  BY <1>7, <2>1 DEF GiveUp, TypeOK, Goto, At, Locations, Threads, RefusalMeansWriter
<1>8. ASSUME NEW t \in Writers, UnlockExclusive(t) PROVE LockInv'
  <2>1. CountIsReaders'
    BY <1>8, CountStays DEF UnlockExclusive, Locations, Threads
  <2>. QED  BY <1>8, <2>1 DEF UnlockExclusive, TypeOK, Goto, At, Locations, Threads,
                             RefusalMeansWriter
<1>9. CASE UNCHANGED vars
  BY <1>9 DEF vars, TypeOK, At, RefusalMeansWriter, CountIsReaders
<1>. QED  BY <1>1, <1>2, <1>3, <1>4, <1>5, <1>6, <1>7, <1>8, <1>9 DEF Next

\* The invariant holds always.
LEMMA LockInvariance == Spec => []LockInv
BY LockInit, LockStep, PTL DEF Spec

\* A writer excludes everybody else, whatever the number of threads.
THEOREM Exclusion == Spec => []MutualExclusion
<1>1. LockInv => MutualExclusion
  BY DEF LockInv, MutualExclusion, At
<1>. QED  BY <1>1, LockInvariance, PTL

\* The assertions in the two unlock functions never fail: who holds a lock finds
\* its bit, or its share of the count, in the word.
THEOREM UnlocksAreAsserted == Spec => []UnlockAssertions
<1>1. LockInv => UnlockAssertions
  <2> SUFFICES ASSUME LockInv, At("shared") # {} PROVE ~exclusive /\ count > 0
    BY DEF LockInv, UnlockAssertions
  <2>1. count # 0
    BY ZeroCount DEF LockInv, Counted
  <2>. QED  BY <2>1 DEF LockInv, TypeOK
<1>. QED  BY <1>1, LockInvariance, PTL

\* A reader is turned away only by a writer that holds the lock or waits for it.
THEOREM RefusalsAreJustified == Spec => []RefusalMeansWriter
<1>1. LockInv => RefusalMeansWriter
  BY DEF LockInv
<1>. QED  BY <1>1, LockInvariance, PTL

\* The lock implements RwLock: a successful fetch_add is AcquireShared, a
\* successful compare_exchange AcquireExclusive, an unlock Release, and every
\* other step leaves the lock as it was.
THEOREM Refinement == Spec => ImplementsRwLock
<1>1. Init => Lock!Init
  BY DEF Init, Lock!Init, Mode
<1>2. LockInv /\ [Next]_vars => [Lock!Next]_Mode
  <2> SUFFICES ASSUME LockInv, [Next]_vars PROVE [Lock!Next]_Mode
    OBVIOUS
  <2>. USE DEF LockInv, TypeOK
  <2>1. ASSUME NEW t \in Readers, AddShared(t) PROVE [Lock!Next]_Mode
    <3>1. CASE Refused
      BY <2>1, <3>1 DEF AddShared, Goto, Mode
    <3>2. CASE ~Refused
      <4>1. At("exclusive") = {}
        BY <3>2 DEF Refused
      <4>2. Lock!AcquireShared(t)
        BY <2>1, <3>2, <4>1 DEF AddShared, Goto, Mode, Lock!AcquireShared, Lock!Free, At, Threads
      <4>. QED  BY <4>2 DEF Lock!Next, Threads
    <3>. QED  BY <3>1, <3>2
  <2>2. ASSUME NEW t \in Readers, UnlockShared(t) PROVE [Lock!Next]_Mode
    <3>1. Lock!Release(t)
      BY <2>2 DEF UnlockShared, Goto, Mode, Lock!Release, Threads
    <3>. QED  BY <3>1 DEF Lock!Next, Threads
  <2>3. ASSUME NEW t \in Writers, UnlockExclusive(t) PROVE [Lock!Next]_Mode
    <3>1. Lock!Release(t)
      BY <2>3 DEF UnlockExclusive, Goto, Mode, Lock!Release, Threads
    <3>. QED  BY <3>1 DEF Lock!Next, Threads
  <2>4. ASSUME NEW t \in Writers, pc[t] \in {"idle", "swap"}, Goto(t, "exclusive"),
               count = 0, ~exclusive
        PROVE  [Lock!Next]_Mode
    <3>1. At("exclusive") = {} /\ At("shared") = {}
      BY <2>4, ZeroCount DEF Counted
    <3>2. Lock!AcquireExclusive(t)
      BY <2>4, <3>1 DEF Goto, Mode, Lock!AcquireExclusive, Lock!Free, At, Threads
    <3>. QED  BY <3>2 DEF Lock!Next, Threads
  <2>5. ASSUME NEW t \in Writers, TryLockExclusive(t) \/ Swap(t) PROVE [Lock!Next]_Mode
    <3>1. CASE Goto(t, "exclusive") /\ count = 0 /\ ~exclusive
      BY <2>4, <2>5, <3>1 DEF TryLockExclusive, Swap
    <3>2. CASE Goto(t, "announce") \/ Goto(t, "retry")
      BY <2>5, <3>2 DEF TryLockExclusive, Swap, Goto, Mode
    <3>. QED  BY <2>5, <3>1, <3>2 DEF TryLockExclusive, Swap
  <2>6. ASSUME NEW t \in Threads, LoadShared(t) \/ UndoShared(t) \/ Announce(t) \/ GiveUp(t)
        PROVE  UNCHANGED Mode
    BY <2>6 DEF LoadShared, UndoShared, Announce, GiveUp, Goto, Mode
  <2>7. CASE UNCHANGED vars
    BY <2>7 DEF vars, Mode
  <2>. QED  BY <2>1, <2>2, <2>3, <2>5, <2>6, <2>7 DEF Next, Threads
<1>. QED  BY <1>1, <1>2, LockInvariance, PTL DEF Spec, ImplementsRwLock, Lock!Spec
=============================================================================
