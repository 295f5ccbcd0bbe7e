-------------------------------- MODULE KLock --------------------------------
(***************************************************************************)
(* struct __lock (k_lock.h) and the newlib retargetable lock functions     *)
(* built on it (libc_hooks.cpp): a spin lock made of an owner and a        *)
(* recursion count, each a std::atomic<int>.  One step per atomic access.  *)
(*                                                                         *)
(* A process is a flow of control that calls the lock.  HartOf gives the   *)
(* value of ::hartid it runs with, the only identity the lock knows.       *)
(* Normally there is one process per hart; module KLockIrq has two, the    *)
(* hart's code and its interrupt handler.                                  *)
(***************************************************************************)
EXTENDS Integers

CONSTANTS
  Procs,     \* the flows of control that use the lock
  HartOf,    \* HartOf[p] is ::hartid as read by p
  BootProc,  \* the process of the boot hart, which writes k_stage
  MaxDepth,  \* bound: how deep a process nests its acquisitions
  None       \* not a process

ASSUME KLockAssumption ==
  /\ HartOf \in [Procs -> Nat]
  /\ BootProc \in Procs
  /\ MaxDepth \in Nat \ {0}
  /\ None \notin Procs

VARIABLES
  owner,            \* std::atomic<int> owner
  recursive_count,  \* std::atomic<int> recursive_count
  k_stage,          \* K_BOOT_HARTS, K_MULTICORE or K_CLEARUP
  recursive,        \* which pair of functions the callers of this lock use
  pc,               \* where each process is in lock, try_acquire or unlock
  held              \* how many acquisitions each process has not undone yet

vars == <<owner, recursive_count, k_stage, recursive, pc, held>>

Points == {"out", "lock_inc", "lock_cas", "lock_set", "try_cas", "unlock_dec",
           "unlock_free"}

Goto(p, l) == pc' = [pc EXCEPT ![p] = l]
Got(p) == held' = [held EXCEPT ![p] = @ + 1]

Init ==
  /\ owner = -1
  /\ recursive_count = 0
  /\ k_stage = "K_BOOT_HARTS"
  /\ recursive \in BOOLEAN
  /\ pc = [p \in Procs |-> "out"]
  /\ held = [p \in Procs |-> 0]

\* Who may call: outside K_MULTICORE only the boot hart.  (The one exception in
\* the code, the message of a hart whose timer fails in k_pre_main, is not
\* protected by any lock.)  A lock that is not recursive is not taken again
\* by its holder.
MayAcquire(p) ==
  /\ pc[p] = "out"
  /\ k_stage = "K_MULTICORE" \/ p = BootProc
  /\ held[p] < IF recursive THEN MaxDepth ELSE 1

\* lock and try_acquire do nothing, and succeed, outside K_MULTICORE.
AcquireNoop(p) ==
  /\ MayAcquire(p)
  /\ k_stage # "K_MULTICORE"
  /\ Got(p)
  /\ UNCHANGED <<owner, recursive_count, k_stage, recursive, pc>>

\* lock: the stage test, and for a recursive lock the test of the owner.
Lock(p) ==
  /\ MayAcquire(p)
  /\ k_stage = "K_MULTICORE"
  /\ Goto(p, IF recursive /\ owner = HartOf[p] THEN "lock_inc" ELSE "lock_cas")
  /\ UNCHANGED <<owner, recursive_count, k_stage, recursive, held>>

\* Mutant: a nested acquisition is not counted.
LockInc_NotCounted(p) ==
  /\ pc[p] = "lock_inc"
  /\ Got(p)
  /\ Goto(p, "out")
  /\ UNCHANGED <<owner, recursive_count, k_stage, recursive>>

\* recursive_count++
LockInc(p) ==
  /\ pc[p] = "lock_inc"
  /\ recursive_count' = recursive_count + 1
  /\ Got(p)
  /\ Goto(p, "out")
  /\ UNCHANGED <<owner, k_stage, recursive>>

\* Mutant: the owner is stored without a comparison.
LockCas_PlainStore(p) ==
  /\ pc[p] = "lock_cas"
  /\ owner' = HartOf[p]
  /\ Goto(p, "lock_set")
  /\ UNCHANGED <<recursive_count, k_stage, recursive, held>>

\* The compare-exchange that succeeds; while it fails the hart spins.
LockCas(p) ==
  /\ pc[p] = "lock_cas"
  /\ owner = -1
  /\ owner' = HartOf[p]
  /\ Goto(p, "lock_set")
  /\ UNCHANGED <<recursive_count, k_stage, recursive, held>>

\* recursive_count = 1
LockSet(p) ==
  /\ pc[p] = "lock_set"
  /\ recursive_count' = 1
  /\ Got(p)
  /\ Goto(p, "out")
  /\ UNCHANGED <<owner, k_stage, recursive>>

\* __retarget_lock_try_acquire and __retarget_lock_try_acquire_recursive.
TryAcquire(p) ==
  /\ MayAcquire(p)
  /\ k_stage = "K_MULTICORE"
  /\ Goto(p, IF recursive /\ owner = HartOf[p] THEN "lock_inc" ELSE "try_cas")
  /\ UNCHANGED <<owner, recursive_count, k_stage, recursive, held>>

TryCas(p) ==
  /\ pc[p] = "try_cas"
  /\ owner = -1
  /\ owner' = HartOf[p]
  /\ Goto(p, "lock_set")
  /\ UNCHANGED <<recursive_count, k_stage, recursive, held>>

\* Mutant: the caller is told that it has the lock.
TryFails_Succeeds(p) ==
  /\ pc[p] = "try_cas"
  /\ Got(p)
  /\ Goto(p, "out")
  /\ UNCHANGED <<owner, recursive_count, k_stage, recursive>>

\* One weak compare-exchange: it may also fail on a free lock.
TryFails(p) ==
  /\ pc[p] = "try_cas"
  /\ Goto(p, "out")
  /\ UNCHANGED <<owner, recursive_count, k_stage, recursive, held>>

\* unlock: the caller is out of its critical section.  Nothing happens outside
\* K_MULTICORE, nor when the owner is another hart.
Unlock(p) ==
  /\ pc[p] = "out"
  /\ held[p] > 0
  /\ held' = [held EXCEPT ![p] = @ - 1]
  /\ IF k_stage # "K_MULTICORE" \/ owner # HartOf[p]
       THEN UNCHANGED pc
       ELSE Goto(p, IF recursive THEN "unlock_dec" ELSE "unlock_free")
  /\ UNCHANGED <<owner, recursive_count, k_stage, recursive>>

\* Mutant: recursive_count-- == 0.
UnlockDec_Post(p) ==
  /\ pc[p] = "unlock_dec"
  /\ recursive_count' = recursive_count - 1
  /\ Goto(p, IF recursive_count = 0 THEN "unlock_free" ELSE "out")
  /\ UNCHANGED <<owner, k_stage, recursive, held>>

\* --recursive_count == 0
UnlockDec(p) ==
  /\ pc[p] = "unlock_dec"
  /\ recursive_count' = recursive_count - 1
  /\ Goto(p, IF recursive_count = 1 THEN "unlock_free" ELSE "out")
  /\ UNCHANGED <<owner, k_stage, recursive, held>>

\* Mutant: the store is lost.
UnlockFree_Lost(p) ==
  /\ pc[p] = "unlock_free"
  /\ Goto(p, "out")
  /\ UNCHANGED <<owner, recursive_count, k_stage, recursive, held>>

\* owner = -1
UnlockFree(p) ==
  /\ pc[p] = "unlock_free"
  /\ owner' = -1
  /\ Goto(p, "out")
  /\ UNCHANGED <<recursive_count, k_stage, recursive, held>>

\* k_boot_harts: the boot hart switches to K_MULTICORE between two calls.
EnterMulticore ==
  /\ k_stage = "K_BOOT_HARTS"
  /\ held[BootProc] = 0
  /\ k_stage' = "K_MULTICORE"
  /\ UNCHANGED <<owner, recursive_count, recursive, pc, held>>

\* k_before_cleanup: the other harts have returned from k_main.  (HartBoot
\* shows when a hart that was given up or skipped has not.)
EnterClearup ==
  /\ k_stage = "K_MULTICORE"
  /\ \A p \in Procs : pc[p] = "out" /\ held[p] = 0
  /\ k_stage' = "K_CLEARUP"
  /\ UNCHANGED <<owner, recursive_count, recursive, pc, held>>

Step(p) ==
  \/ AcquireNoop(p) \/ Lock(p) \/ LockInc(p) \/ LockCas(p) \/ LockSet(p)
  \/ TryAcquire(p) \/ TryCas(p) \/ TryFails(p)
  \/ Unlock(p) \/ UnlockDec(p) \/ UnlockFree(p)

Next == EnterMulticore \/ EnterClearup \/ \E p \in Procs : Step(p)

Spec == Init /\ [][Next]_vars

\* The steps of a call that has begun.
Inside(p) ==
  \/ LockInc(p) \/ LockCas(p) \/ LockSet(p) \/ TryCas(p) \/ TryFails(p)
  \/ UnlockDec(p) \/ UnlockFree(p)

\* A call that can go on does, and a caller leaves its critical section; it
\* may never call again, and one spinning hart may be overtaken for ever.
FairSpec ==
  /\ Spec
  /\ \A p \in Procs : WF_vars(Inside(p)) /\ WF_vars(Unlock(p))

-----------------------------------------------------------------------------
(* Properties                                                              *)

TypeOK ==
  /\ owner \in {-1} \cup {HartOf[p] : p \in Procs}
  /\ recursive_count \in Nat
  /\ k_stage \in {"K_BOOT_HARTS", "K_MULTICORE", "K_CLEARUP"}
  /\ recursive \in BOOLEAN
  /\ pc \in [Procs -> Points]
  /\ held \in [Procs -> Nat]

\* At most one process is between a lock and its unlock.
MutualExclusion ==
  \A p, q \in Procs : held[p] > 0 /\ held[q] > 0 => p = q

\* The lock is never lost: an owner is a process that holds the lock or is
\* in the middle of taking or of releasing it.
NoLostLock ==
  owner # -1 =>
    \E p \in Procs :
      /\ owner = HartOf[p]
      /\ held[p] > 0 \/ pc[p] \in {"lock_set", "unlock_dec", "unlock_free"}

\* A recursive lock is released by the unlock that undoes the first lock, not
\* by an earlier one and not by a later one: between two calls the count of
\* the owner is the number of acquisitions it has to undo.
CountIsDepth ==
  k_stage = "K_MULTICORE" /\ recursive =>
    \A p \in Procs :
      /\ pc[p] = "out" /\ owner = HartOf[p] => recursive_count = held[p]
      /\ pc[p] = "out" /\ held[p] > 0 => owner = HartOf[p]

\* While a hart spins on a plain lock, the lock keeps changing hands: the
\* release of k_lock.h is never the last one that anybody sees.
SpinnersProgress ==
  (~recursive /\ \E p \in Procs : pc[p] = "lock_cas")
    ~> (\E p \in Procs : pc[p] = "lock_set")

\* The lock implements the abstract lock, the holder being the process that
\* is between a lock and its unlock.
HolderIn(f) == IF \E p \in Procs : f[p] > 0
                 THEN CHOOSE p \in Procs : f[p] > 0 ELSE None
Holder == HolderIn(held)
Depth == IF Holder = None THEN 0 ELSE held[Holder]

Abstract == INSTANCE AbstractLock WITH holder <- Holder, depth <- Depth

ImplementsAbstractLock == Abstract!Spec
=============================================================================
