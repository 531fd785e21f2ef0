---------------------------- MODULE AtomicRwLock ----------------------------
(***************************************************************************)
(* rav::AtomicRwLock: one atomic 32-bit word with the number of readers, a *)
(* bit for the exclusive lock (30) and a bit for a waiting writer (31).    *)
(* Every operation on the word is a step: they are atomic and, being on one *)
(* object, happen in one order whatever their memory order.  A thread of   *)
(* Readers calls try_lock_shared or lock_shared, which is try_lock_shared in *)
(* a loop; one of Writers calls try_lock_exclusive or lock_exclusive.  A   *)
(* thread may be both, but does not lock again while it holds the lock.    *)
(*                                                                         *)
(* The loops give up after k_loop_upper_bound (10^6) rounds; here they may *)
(* give up after any round.  There are fewer than 2^30 threads, so that the *)
(* count cannot carry into bit 30.                                         *)
(***************************************************************************)
EXTENDS Integers, FiniteSets

CONSTANTS
  Readers, Writers,
  MaxReaders     \* k_readers_mask, 2^24 - 1

Threads == Readers \cup Writers

ASSUME ThreadsAssumption == IsFiniteSet(Threads)
ASSUME MaxReadersAssumption == MaxReaders \in Nat \ {0}

VARIABLES
  count,      \* the low bits of readers
  exclusive,  \* k_exclusive_lock_bit
  waiting,    \* k_exclusive_lock_waiting_bit
  pc          \* where each thread is

vars == <<count, exclusive, waiting, pc>>

\* "add" and "undo" lie between the load and the fetch_add and between the
\* fetch_add and the fetch_sub of try_lock_shared; "announce", "swap" and "retry"
\* before the fetch_or, the compare_exchange and after it in lock_exclusive.
Locations == {"idle", "add", "undo", "shared", "announce", "swap", "retry", "exclusive"}

TypeOK ==
  /\ count \in Nat
  /\ exclusive \in BOOLEAN /\ waiting \in BOOLEAN
  /\ pc \in [Threads -> Locations]

At(l) == {t \in Threads : pc[t] = l}
Goto(t, l) == pc' = [pc EXCEPT ![t] = l]

Init ==
  /\ count = 0 /\ exclusive = FALSE /\ waiting = FALSE
  /\ pc = [t \in Threads |-> "idle"]

\* Mutant of Refused: a waiting writer does not keep readers out.
RefusedByExclusive == exclusive \/ count >= MaxReaders

\* prev_readers >= k_readers_mask: both bits lie above the mask.
Refused == exclusive \/ waiting \/ count >= MaxReaders

-----------------------------------------------------------------------------

LoadShared(t) ==
  /\ pc[t] = "idle" /\ ~Refused
  /\ Goto(t, "add")
  /\ UNCHANGED <<count, exclusive, waiting>>

\* Mutant of AddShared: the previous value is not looked at again.
AddSharedUnchecked(t) ==
  /\ pc[t] = "add"
  /\ count' = count + 1
  /\ Goto(t, "shared")
  /\ UNCHANGED <<exclusive, waiting>>

AddShared(t) ==
  /\ pc[t] = "add"
  /\ count' = count + 1
  /\ Goto(t, IF Refused THEN "undo" ELSE "shared")
  /\ UNCHANGED <<exclusive, waiting>>

UndoShared(t) ==
  /\ pc[t] = "undo"
  /\ count' = count - 1
  /\ Goto(t, "idle")
  /\ UNCHANGED <<exclusive, waiting>>

UnlockShared(t) ==
  /\ pc[t] = "shared"
  /\ count' = count - 1
  /\ Goto(t, "idle")
  /\ UNCHANGED <<exclusive, waiting>>

\* compare_exchange(0, k_exclusive_lock_bit); when it fails, lock_exclusive enters
\* its loop.  A failing try_lock_exclusive or load of try_lock_shared changes
\* nothing and is not a step.
TryLockExclusive(t) ==
  /\ pc[t] = "idle"
  /\ IF count = 0 /\ ~exclusive /\ ~waiting
     THEN exclusive' = TRUE /\ Goto(t, "exclusive")
     ELSE exclusive' = exclusive /\ Goto(t, "announce")
  /\ UNCHANGED <<count, waiting>>

Announce(t) ==
  /\ pc[t] \in {"announce", "retry"}
  /\ waiting' = TRUE
  /\ Goto(t, "swap")
  /\ UNCHANGED <<count, exclusive>>

\* Mutant of Swap: only the readers are looked at.
SwapIgnoresExclusive(t) ==
  /\ pc[t] = "swap"
  /\ IF count = 0 /\ waiting
     THEN exclusive' = TRUE /\ waiting' = FALSE /\ Goto(t, "exclusive")
     ELSE UNCHANGED <<exclusive, waiting>> /\ Goto(t, "retry")
  /\ UNCHANGED count

\* compare_exchange(k_exclusive_lock_waiting_bit, k_exclusive_lock_bit)
Swap(t) ==
  /\ pc[t] = "swap"
  /\ IF count = 0 /\ ~exclusive /\ waiting
     THEN exclusive' = TRUE /\ waiting' = FALSE /\ Goto(t, "exclusive")
     ELSE UNCHANGED <<exclusive, waiting>> /\ Goto(t, "retry")
  /\ UNCHANGED count

\* Mutant of GiveUp: the waiting bit stays.
GiveUpKeepsWaiting(t) ==
  /\ pc[t] = "retry"
  /\ Goto(t, "idle")
  /\ UNCHANGED <<count, exclusive, waiting>>

GiveUp(t) ==
  /\ pc[t] = "retry"
  /\ waiting' = FALSE
  /\ Goto(t, "idle")
  /\ UNCHANGED <<count, exclusive>>

UnlockExclusive(t) ==
  /\ pc[t] = "exclusive"
  /\ exclusive' = FALSE
  /\ Goto(t, "idle")
  /\ UNCHANGED <<count, waiting>>

Next ==
  \/ \E t \in Readers : LoadShared(t) \/ AddShared(t) \/ UndoShared(t) \/ UnlockShared(t)
  \/ \E t \in Writers : \/ TryLockExclusive(t) \/ Announce(t) \/ Swap(t)
                        \/ GiveUp(t) \/ UnlockExclusive(t)

Spec == Init /\ [][Next]_vars

\* A thread that started an operation goes on with it, and what is locked gets
\* unlocked.  Nobody has to start an operation, and nobody has to give up.
Fairness ==
  /\ \A t \in Readers : WF_vars(AddShared(t) \/ UndoShared(t) \/ UnlockShared(t))
  /\ \A t \in Writers : WF_vars(Announce(t) \/ Swap(t) \/ UnlockExclusive(t))

FairSpec == Spec /\ Fairness

-----------------------------------------------------------------------------

\* The count is the number of threads between their fetch_add and fetch_sub, the
\* readers that were refused included, which add to it while a writer holds.
CountIsReaders == count = Cardinality(At("shared") \cup At("undo"))

\* Nobody shares the lock with the writer that holds it.
MutualExclusion ==
  \A t, u \in Threads :
    pc[t] = "exclusive" /\ u # t => pc[u] \notin {"shared", "exclusive"}

\* The assertions of unlock_exclusive and unlock_shared on the previous value:
\* "Was not locked exclusively", "Is locked exclusively", "Is not locked shared".
UnlockAssertions ==
  /\ At("exclusive") # {} => exclusive
  /\ At("shared") # {} => ~exclusive /\ count > 0

\* try_lock_shared "will always succeed if there are no writers (waiting)": a bit
\* that turns readers away belongs to a writer that holds the lock or is in the
\* loop of lock_exclusive, although writers clear each other's waiting bit.
RefusalMeansWriter ==
  /\ exclusive => At("exclusive") # {}
  /\ waiting => At("swap") \cup At("retry") # {}

\* A writer gets the lock or gives up, however many readers keep coming: the
\* waiting bit turns new readers away until those inside have left.  Only another
\* writer, which takes the lock first or clears the bit, can keep it waiting.
Writing(t) == pc[t] \in {"announce", "swap", "retry", "exclusive"}

WriterNotStarved ==
  \A t \in Writers :
    pc[t] = "announce" ~> \/ pc[t] \in {"exclusive", "idle"}
                          \/ \E u \in Writers \ {t} : Writing(u)

\* The lock a thread holds, for RwLock.
Mode == [t \in Threads |-> IF pc[t] \in {"shared", "exclusive"} THEN pc[t] ELSE "none"]

Lock == INSTANCE RwLock WITH mode <- Mode

\* Every step on the word acquires or releases as RwLock allows, or does neither.
ImplementsRwLock == Lock!Spec
=============================================================================
