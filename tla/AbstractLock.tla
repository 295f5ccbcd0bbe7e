---------------------------- MODULE AbstractLock ----------------------------
(***************************************************************************)
(* What a lock of the kernel promises its callers: one process at a time   *)
(* holds it, and it may be held to any depth.                              *)
(***************************************************************************)
EXTENDS Naturals

CONSTANTS
  Procs,  \* the flows of control that call lock and unlock
  None    \* not a process: the lock is free

VARIABLES
  holder,  \* the process inside, or None
  depth    \* how many acquisitions it has not undone yet

Init == holder = None /\ depth = 0

Acquire(p) ==
  /\ holder \in {None, p}
  /\ holder' = p
  /\ depth' = depth + 1

Release(p) ==
  /\ holder = p
  /\ depth' = depth - 1
  /\ holder' = IF depth = 1 THEN None ELSE p

Next == \E p \in Procs : Acquire(p) \/ Release(p)

Spec == Init /\ [][Next]_<<holder, depth>>
=============================================================================
