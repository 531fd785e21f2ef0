--------------------- MODULE RealtimeSharedObjectProofs ---------------------
(***************************************************************************)
(* With one updater, and a reader that leaves it to the guard's destructor *)
(* to put the pointer back, the reader always gets the published value and *)
(* keeps it undisturbed, for any number of updates.                        *)
(***************************************************************************)
EXTENDS RealtimeSharedObject, TLAPS

\* The use under which the theorems hold: one thread calls update at a time, and
\* no guard is reset before it dies.
ProperUse == (\E u : Updaters = {u}) /\ ~EarlyReset

\* The slot that is current: with the reader while it holds a guard.
Current == IF guard = "none" THEN ptr ELSE held

\* The inductive invariant: the pointer is either in its place or with the guard,
\* and the updater and the reader agree on which slot is current.
SharedInv ==
  /\ TypeOK
  /\ \/ guard = "none" /\ ptr # Null /\ held = Null
     \/ guard = "holding" /\ ptr = Null /\ held # Null
  /\ slot[Current] = published
  /\ \A u \in Updaters :
       /\ pc[u] \in {"idle", "swap"} => Current = active
       /\ pc[u] \in {"take", "flip"} => Current = Other(active)
       /\ pc[u] = "swap" => slot[Other(active)] \in Values /\ expected[u] = active
       /\ pc[u] = "take" => slot[active] = replaced[u]

\* The initial state: the pointer is in its place and nobody updates.
LEMMA SharedInit == Init => SharedInv
BY NullAssumption, MaxValueAssumption DEF Init, SharedInv, TypeOK, Current, Slots, Values

\* Every step keeps the invariant: the reader moves the pointer, the updater moves
\* it to the other slot, and neither touches the slot that is current.
LEMMA SharedStep == ProperUse /\ SharedInv /\ [Next]_vars => SharedInv'
<1> SUFFICES ASSUME ProperUse, SharedInv, [Next]_vars PROVE SharedInv'
  OBVIOUS
<1>. USE NullAssumption, MaxValueAssumption DEF SharedInv, TypeOK, Current, Slots, Values, Other
<1>1. CASE Access
  BY <1>1 DEF Access, updaterVars
<1>2. CASE Reset
  BY <1>2 DEF Reset, ProperUse
<1>3. CASE Destroy
  BY <1>3 DEF Destroy, PutBack, updaterVars
<1>4. PICK u : Updaters = {u}
  BY DEF ProperUse
<1>5. CASE Store(u)
  BY <1>4, <1>5 DEF Store, readerVars
<1>6. CASE Swap(u)
  BY <1>4, <1>6 DEF Swap, readerVars
<1>7. CASE Retry(u)
  BY <1>4, <1>7 DEF Retry, readerVars
<1>8. CASE GiveUp(u)
  BY <1>4, <1>8 DEF GiveUp, readerVars
<1>9. CASE Take(u)
  BY <1>4, <1>9 DEF Take, readerVars
<1>10. CASE Flip(u)
  BY <1>4, <1>10 DEF Flip, readerVars
<1>11. CASE UNCHANGED vars
  BY <1>11 DEF vars, readerVars, updaterVars
<1>. QED
  BY <1>1, <1>2, <1>3, <1>4, <1>5, <1>6, <1>7, <1>8, <1>9, <1>10, <1>11 DEF Next

\* The invariant holds always under proper use.
LEMMA SharedInvariance == ProperUse => (Spec => []SharedInv)
<1> SUFFICES ASSUME ProperUse PROVE Spec => []SharedInv
  OBVIOUS
<1>1. SharedInv /\ [Next]_vars => SharedInv'
  BY SharedStep
<1>. QED  BY SharedInit, <1>1, PTL DEF Spec

\* Whether or not there is a guard there is a value, and the reader's guard holds
\* the one published last for as long as it lives.
THEOREM ReaderGetsPublished ==
  ProperUse => (Spec => [](/\ PointerWithoutGuard
                           /\ guard # "none" => held # Null
                           /\ GuardHoldsPublished))
<1> SUFFICES ASSUME ProperUse
             PROVE  Spec => [](/\ PointerWithoutGuard
                               /\ guard # "none" => held # Null
                               /\ GuardHoldsPublished)
  OBVIOUS
<1>1. SharedInv => /\ PointerWithoutGuard
                   /\ guard # "none" => held # Null
                   /\ GuardHoldsPublished
  BY DEF SharedInv, PointerWithoutGuard, GuardHoldsPublished, Current
<1>. QED  BY SharedInvariance, <1>1, PTL

\* No step of update touches the slot that the reader holds.
THEOREM ReaderIsUndisturbed == ProperUse => (Spec => HeldSlotIsStable)
<1> SUFFICES ASSUME ProperUse PROVE Spec => HeldSlotIsStable
  OBVIOUS
<1>1. SharedInv /\ [Next]_vars => [held # Null /\ held' = held => slot'[held] = slot[held]]_vars
  <2> SUFFICES ASSUME SharedInv, Next, held # Null, held' = held
               PROVE  slot'[held] = slot[held]
    OBVIOUS
  <2>. USE DEF SharedInv, TypeOK, Current, Slots, Other
  <2>1. CASE Access \/ Reset \/ Destroy
    BY <2>1 DEF Access, Reset, Destroy, updaterVars
  <2>2. PICK u : Updaters = {u}
    BY DEF ProperUse
  <2>3. CASE Store(u)
    BY <2>2, <2>3 DEF Store
  <2>4. CASE Take(u)
    BY <2>2, <2>4 DEF Take
  <2>5. CASE Swap(u) \/ Retry(u) \/ GiveUp(u) \/ Flip(u)
    BY <2>5 DEF Swap, Retry, GiveUp, Flip
  <2>. QED  BY <2>1, <2>2, <2>3, <2>4, <2>5 DEF Next
<1>. QED  BY SharedInvariance, <1>1, PTL DEF Spec, HeldSlotIsStable

\* update returns the value it replaced.
THEOREM ReplacedIsReturned == ProperUse => (Spec => []UpdateReturnsReplaced)
<1> SUFFICES ASSUME ProperUse PROVE Spec => []UpdateReturnsReplaced
  OBVIOUS
<1>1. SharedInv => UpdateReturnsReplaced
  BY DEF SharedInv, UpdateReturnsReplaced
<1>. QED  BY SharedInvariance, <1>1, PTL
=============================================================================
