------------------------------- MODULE RwLock -------------------------------
(***************************************************************************)
(* What a reader writer lock promises: a thread holds it exclusively only  *)
(* while no other thread holds it, and any number of threads share it.     *)
(***************************************************************************)
CONSTANT Threads
VARIABLE mode     \* how each thread holds the lock

Modes == {"none", "shared", "exclusive"}

Free(t, S) == \A u \in Threads \ {t} : mode[u] \notin S

Init == mode = [t \in Threads |-> "none"]

AcquireShared(t) ==
  /\ mode[t] = "none" /\ Free(t, {"exclusive"})
  /\ mode' = [mode EXCEPT ![t] = "shared"]

AcquireExclusive(t) ==
  /\ mode[t] = "none" /\ Free(t, {"shared", "exclusive"})
  /\ mode' = [mode EXCEPT ![t] = "exclusive"]

Release(t) ==
  /\ mode[t] # "none"
  /\ mode' = [mode EXCEPT ![t] = "none"]

Next == \E t \in Threads : AcquireShared(t) \/ AcquireExclusive(t) \/ Release(t)

Spec == Init /\ [][Next]_mode
=============================================================================
