------------------------------ MODULE MallocLock ------------------------------
(***************************************************************************)
(* __malloc_lock and __malloc_unlock (libc_hooks.cpp), which newlib calls  *)
(* around every operation on the heap.  The lock word is 0 or the address  *)
(* of the _reent of a hart; newlib nests the calls (realloc calls malloc). *)
(***************************************************************************)
EXTENDS Integers

CONSTANTS
  Harts,     \* the harts; a hart stands for its hl_reent
  Boot,      \* the boot hart
  Zero,      \* the value 0 of k_malloc_lock
  MaxDepth   \* bound: how deep calls of __malloc_lock nest

ASSUME MallocLockAssumption ==
  Boot \in Harts /\ Zero \notin Harts /\ MaxDepth \in Nat \ {0}

VARIABLES
  k_malloc_lock,  \* std::atomic_uintptr_t k_malloc_lock
  k_stage,        \* K_BOOT_HARTS, K_MULTICORE or K_CLEARUP
  lockPC,             \* "out", or "cas": in the loop of __malloc_lock
  inside          \* how many __malloc_lock calls a hart has not undone yet

heapVars == <<k_malloc_lock, k_stage, lockPC, inside>>

HeapInit ==
  /\ k_malloc_lock = Zero
  /\ k_stage = "K_BOOT_HARTS"
  /\ lockPC = [h \in Harts |-> "out"]
  /\ inside = [h \in Harts |-> 0]

EnterHeap(h) == inside' = [inside EXCEPT ![h] = @ + 1]

\* The early returns of __malloc_lock: outside K_MULTICORE, where only the
\* boot hart runs, and when the word is the caller's own.
LockReturns(h) ==
  /\ lockPC[h] = "out"
  /\ inside[h] < MaxDepth
  /\ \/ k_stage # "K_MULTICORE" /\ h = Boot
     \/ k_stage = "K_MULTICORE" /\ k_malloc_lock = h
  /\ EnterHeap(h)
  /\ UNCHANGED <<k_malloc_lock, k_stage, lockPC>>

LockLoops(h) ==
  /\ lockPC[h] = "out"
  /\ inside[h] < MaxDepth
  /\ k_stage = "K_MULTICORE"
  /\ k_malloc_lock # h
  /\ lockPC' = [lockPC EXCEPT ![h] = "cas"]
  /\ UNCHANGED <<k_malloc_lock, k_stage, inside>>

\* while (compare_exchange_weak(tmp, reent)): a success goes round again ...
CasSucceeds(h) ==
  /\ lockPC[h] = "cas"
  /\ k_malloc_lock = Zero
  /\ k_malloc_lock' = h
  /\ UNCHANGED <<k_stage, lockPC, inside>>

\* ... and a failure ends the loop and the function: the word is another
\* hart's, or the hart's own after a success.
CasFails(h) ==
  /\ lockPC[h] = "cas"
  /\ k_malloc_lock # Zero
  /\ lockPC' = [lockPC EXCEPT ![h] = "out"]
  /\ EnterHeap(h)
  /\ UNCHANGED <<k_malloc_lock, k_stage>>

\* A weak compare-exchange may also fail on a free lock.
CasFailsSpuriously(h) ==
  /\ lockPC[h] = "cas"
  /\ k_malloc_lock = Zero
  /\ lockPC' = [lockPC EXCEPT ![h] = "out"]
  /\ EnterHeap(h)
  /\ UNCHANGED <<k_malloc_lock, k_stage>>

\* Mutant: the caller's own word is the one that is not cleared.
Unlock_Inverted(h) ==
  /\ lockPC[h] = "out"
  /\ inside[h] > 0
  /\ inside' = [inside EXCEPT ![h] = @ - 1]
  /\ k_malloc_lock' = IF k_stage = "K_MULTICORE" /\ k_malloc_lock # h
                        THEN Zero ELSE k_malloc_lock
  /\ UNCHANGED <<k_stage, lockPC>>

\* __malloc_unlock clears the word, whoever's it is and however deep.
Unlock(h) ==
  /\ lockPC[h] = "out"
  /\ inside[h] > 0
  /\ inside' = [inside EXCEPT ![h] = @ - 1]
  /\ k_malloc_lock' = IF k_stage = "K_MULTICORE" THEN Zero ELSE k_malloc_lock
  /\ UNCHANGED <<k_stage, lockPC>>

EnterMulticore ==
  /\ k_stage = "K_BOOT_HARTS"
  /\ inside[Boot] = 0
  /\ k_stage' = "K_MULTICORE"
  /\ UNCHANGED <<k_malloc_lock, lockPC, inside>>

EnterClearup ==
  /\ k_stage = "K_MULTICORE"
  /\ \A h \in Harts : lockPC[h] = "out" /\ inside[h] = 0
  /\ k_stage' = "K_CLEARUP"
  /\ UNCHANGED <<k_malloc_lock, lockPC, inside>>

HeapNext ==
  \/ EnterMulticore \/ EnterClearup
  \/ \E h \in Harts : \/ LockReturns(h) \/ LockLoops(h) \/ CasSucceeds(h)
                      \/ CasFails(h) \/ CasFailsSpuriously(h) \/ Unlock(h)

HeapSpec == HeapInit /\ [][HeapNext]_heapVars

-----------------------------------------------------------------------------
HeapTypeOK ==
  /\ k_malloc_lock \in Harts \cup {Zero}
  /\ k_stage \in {"K_BOOT_HARTS", "K_MULTICORE", "K_CLEARUP"}
  /\ lockPC \in [Harts -> {"out", "cas"}]
  /\ inside \in [Harts -> 0 .. MaxDepth]

\* The word never keeps the name of a hart that has left the heap: a heap
\* nobody is in has a free lock.
NoStaleOwner ==
  \A h \in Harts : k_malloc_lock = h => inside[h] > 0 \/ lockPC[h] = "cas"

\* "recursive lock" (libc_hooks.cpp:59): one hart at a time is inside.
HeapExclusive ==
  \A g, h \in Harts : inside[g] > 0 /\ inside[h] > 0 => g = h
=============================================================================
