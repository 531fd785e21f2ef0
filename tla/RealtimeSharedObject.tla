------------------------ MODULE RealtimeSharedObject ------------------------
(***************************************************************************)
(* rav::RealtimeSharedObject<T>: two slots, of which a realtime reader     *)
(* takes the active one away by exchanging the pointer for nullptr, and an *)
(* updater fills the other one and swaps the pointer as soon as the reader *)
(* has put it back.  Values are numbered in the order of their updates.    *)
(***************************************************************************)
EXTENDS Integers

CONSTANTS
  Updaters,    \* the threads that call update
  EarlyReset,  \* whether the reader calls reset on a guard before it dies
  MaxValue,    \* the number of updates
  Null,        \* nullptr
  Moved        \* a value that was moved from

ASSUME EarlyResetAssumption == EarlyReset \in BOOLEAN
ASSUME MaxValueAssumption == MaxValue \in Nat
ASSUME NullAssumption == Null \notin {0, 1} /\ Moved \notin Nat

VARIABLES
  ptr,       \* ptr_, the index of a slot or Null
  active,    \* active_index_
  slot,      \* storage_
  guard,     \* the reader's guard: "none", "holding" or "reset"
  held,      \* value_ of the guard
  pc,        \* where each updater is in update
  expected,  \* the updater's local variable
  latest,    \* the number of the last update started
  published, \* the value that the last successful swap made current
  replaced   \* the value that was current before an updater's swap

readerVars  == <<guard, held>>
updaterVars == <<active, slot, pc, expected, latest, published, replaced>>
vars == <<ptr, readerVars, updaterVars>>

Slots  == {0, 1}
Values == 0..MaxValue
Other(i) == 1 - i

TypeOK ==
  /\ ptr \in Slots \cup {Null} /\ held \in Slots \cup {Null}
  /\ active \in Slots
  /\ slot \in [Slots -> Values \cup {Moved}]
  /\ guard \in {"none", "holding", "reset"}
  /\ pc \in [Updaters -> {"idle", "swap", "take", "flip"}]
  /\ expected \in [Updaters -> Slots]
  /\ latest \in Values /\ published \in Values
  /\ replaced \in [Updaters -> Values]

Init ==
  /\ ptr = 0 /\ active = 0 /\ slot = [i \in Slots |-> 0]
  /\ guard = "none" /\ held = Null
  /\ pc = [u \in Updaters |-> "idle"]
  /\ expected = [u \in Updaters |-> 0]
  /\ latest = 0 /\ published = 0
  /\ replaced = [u \in Updaters |-> 0]

-----------------------------------------------------------------------------
(* The reader.                                                             *)

\* Mutant of Access: the pointer is loaded and not exchanged.
AccessLoads ==
  /\ guard = "none"
  /\ guard' = "holding"
  /\ held' = ptr
  /\ UNCHANGED <<ptr, updaterVars>>

\* The constructor of RealtimeAccessGuard.
Access ==
  /\ guard = "none"
  /\ guard' = "holding"
  /\ held' = ptr /\ ptr' = Null
  /\ UNCHANGED updaterVars

\* RealtimeAccessGuard::reset stores what the guard holds, Null the second time.
PutBack == ptr' = held /\ held' = Null

Reset ==
  /\ EarlyReset /\ guard # "none"
  /\ PutBack
  /\ guard' = "reset"
  /\ UNCHANGED updaterVars

\* The destructor calls reset.
Destroy ==
  /\ guard # "none"
  /\ PutBack
  /\ guard' = "none"
  /\ UNCHANGED updaterVars

-----------------------------------------------------------------------------
(* RealtimeSharedObject::update                                            *)

Store(u) ==
  /\ pc[u] = "idle" /\ latest < MaxValue
  /\ latest' = latest + 1
  /\ expected' = [expected EXCEPT ![u] = active]
  /\ slot' = [slot EXCEPT ![Other(active)] = latest + 1]
  /\ pc' = [pc EXCEPT ![u] = "swap"]
  /\ UNCHANGED <<ptr, active, published, replaced, readerVars>>

Swap(u) ==
  /\ pc[u] = "swap" /\ ptr = expected[u]
  /\ ptr' = Other(active)
  /\ replaced' = [replaced EXCEPT ![u] = published]
  /\ published' = IF slot[Other(active)] = Moved THEN published ELSE slot[Other(active)]
  /\ pc' = [pc EXCEPT ![u] = "take"]
  /\ UNCHANGED <<active, slot, expected, latest, readerVars>>

Retry(u) ==
  /\ pc[u] = "swap" /\ ptr # expected[u]
  /\ expected' = [expected EXCEPT ![u] = active]
  /\ UNCHANGED <<ptr, active, slot, pc, latest, published, replaced, readerVars>>

\* The loop's upper bound of 10^6 rounds is reached: std::nullopt.
GiveUp(u) ==
  /\ pc[u] = "swap" /\ ptr # expected[u]
  /\ pc' = [pc EXCEPT ![u] = "idle"]
  /\ UNCHANGED <<ptr, active, slot, expected, latest, published, replaced, readerVars>>

\* Mutant of Take: the slot that was just published is moved from.
TakeOther(u) ==
  /\ pc[u] = "take"
  /\ slot' = [slot EXCEPT ![Other(active)] = Moved]
  /\ pc' = [pc EXCEPT ![u] = "flip"]
  /\ UNCHANGED <<ptr, active, expected, latest, published, replaced, readerVars>>

\* auto prev = std::move(storage_[active_index_])
Take(u) ==
  /\ pc[u] = "take"
  /\ slot' = [slot EXCEPT ![active] = Moved]
  /\ pc' = [pc EXCEPT ![u] = "flip"]
  /\ UNCHANGED <<ptr, active, expected, latest, published, replaced, readerVars>>

Flip(u) ==
  /\ pc[u] = "flip"
  /\ active' = Other(active)
  /\ pc' = [pc EXCEPT ![u] = "idle"]
  /\ UNCHANGED <<ptr, slot, expected, latest, published, replaced, readerVars>>

Next ==
  \/ Access \/ Reset \/ Destroy
  \/ \E u \in Updaters :
       Store(u) \/ Swap(u) \/ Retry(u) \/ GiveUp(u) \/ Take(u) \/ Flip(u)

Spec == Init /\ [][Next]_vars

-----------------------------------------------------------------------------

\* "There should be no active locks", asserted by the destructor: the pointer is
\* there whenever there is no guard.
PointerWithoutGuard == guard = "none" => ptr # Null

\* A guard gives access to the value that was published last, until it dies.  That
\* there is a value at all is PointerWithoutGuard.
GuardHoldsPublished == guard = "holding" => held = Null \/ slot[held] = published

\* "During the lifetime of this lock (or until reset is called) no updates can be
\* made to the value": no updater writes to or moves from the slot that is held.
HeldSlotIsStable == [][held # Null /\ held' = held => slot'[held] = slot[held]]_vars

\* update returns the value that it replaced: nothing else happened to the slot
\* between the swap and the move.
UpdateReturnsReplaced == \A u \in Updaters : pc[u] = "take" => slot[active] = replaced[u]
=============================================================================
