----------------------------- MODULE KLockProofs -----------------------------
(***************************************************************************)
(* KLock excludes, for any number of processes with distinct values of     *)
(* ::hartid and any nesting depth, and implements AbstractLock.            *)
(***************************************************************************)
EXTENDS KLock, TLAPS

\* What the lock relies on: no two processes run with the same ::hartid.
DistinctIds == \A p, q \in Procs : HartOf[p] = HartOf[q] => p = q

\* Outside K_MULTICORE the lock is free, only the boot hart is active, and no
\* call is under way.
StageInv ==
  k_stage # "K_MULTICORE" =>
    /\ owner = -1
    /\ \A p \in Procs : pc[p] = "out" /\ (p # BootProc => held[p] = 0)

\* A process that holds the lock, or is about to change it, is its owner.
OwnerInv ==
  k_stage = "K_MULTICORE" =>
    \A p \in Procs :
      \/ held[p] > 0
      \/ pc[p] \in {"lock_inc", "lock_set", "unlock_dec", "unlock_free"}
      => owner = HartOf[p]

\* The converse: the owner holds the lock or is taking or releasing it.
LiveInv ==
  \A p \in Procs :
    owner = HartOf[p] =>
      held[p] > 0 \/ pc[p] \in {"lock_set", "unlock_dec", "unlock_free"}

\* What each program point says about the depth.
DepthInv ==
  \A p \in Procs :
    /\ pc[p] \in {"lock_cas", "lock_set", "try_cas", "unlock_free"} => held[p] = 0
    /\ pc[p] = "lock_inc" => recursive /\ held[p] > 0
    /\ pc[p] = "unlock_dec" => recursive
    /\ ~recursive => held[p] <= 1

\* The count of a recursive lock, at every point of its owner.
CountInv ==
  recursive /\ k_stage = "K_MULTICORE" =>
    \A p \in Procs :
      owner = HartOf[p] =>
        /\ pc[p] \in {"out", "lock_inc"} => recursive_count = held[p]
        /\ pc[p] = "unlock_dec" => recursive_count = held[p] + 1
        /\ pc[p] = "unlock_free" => recursive_count = 0

IInv == TypeOK /\ StageInv /\ OwnerInv /\ LiveInv /\ DepthInv /\ CountInv

-----------------------------------------------------------------------------
\* The initial states of KLock satisfy the inductive invariant.
LEMMA InitIInv == Init => IInv
<1> SUFFICES ASSUME Init PROVE IInv
  OBVIOUS
<1>1. TypeOK
  BY DEF Init, TypeOK, Points
<1>2. StageInv /\ OwnerInv /\ DepthInv /\ CountInv
  BY KLockAssumption DEF Init, StageInv, OwnerInv, DepthInv, CountInv
<1>3. LiveInv
  BY KLockAssumption DEF Init, LiveInv
<1> QED
  BY <1>1, <1>2, <1>3 DEF IInv

\* Every step of KLock preserves the inductive invariant.
LEMMA StepIInv ==
  ASSUME DistinctIds, IInv, [Next]_vars PROVE IInv'
<1> USE KLockAssumption DEF IInv, DistinctIds
<1>1. CASE UNCHANGED vars
  BY <1>1 DEF vars, TypeOK, StageInv, OwnerInv, LiveInv, DepthInv, CountInv
<1>2. CASE EnterMulticore
  BY <1>2 DEF EnterMulticore, TypeOK, StageInv, OwnerInv, LiveInv, DepthInv, CountInv
<1>3. CASE EnterClearup
  BY <1>3 DEF EnterClearup, TypeOK, StageInv, OwnerInv, LiveInv, DepthInv, CountInv
<1>4. ASSUME NEW p \in Procs, Step(p) PROVE IInv'
  <2> USE DEF TypeOK, StageInv, OwnerInv, LiveInv, DepthInv, CountInv, Points,
              Goto, Got, MayAcquire
  <2>1. CASE AcquireNoop(p)
    BY <2>1 DEF AcquireNoop
  <2>2. CASE Lock(p)
    BY <2>2 DEF Lock
  <2>3. CASE LockInc(p)
    BY <2>3 DEF LockInc
  <2>4. CASE LockCas(p)
    BY <2>4 DEF LockCas
  <2>5. CASE LockSet(p)
    BY <2>5 DEF LockSet
  <2>6. CASE TryAcquire(p)
    BY <2>6 DEF TryAcquire
  <2>7. CASE TryCas(p)
    BY <2>7 DEF TryCas
  <2>8. CASE TryFails(p)
    BY <2>8 DEF TryFails
  <2>9. CASE Unlock(p)
    BY <2>9 DEF Unlock
  <2>10. CASE UnlockDec(p)
    BY <2>10 DEF UnlockDec
  <2>11. CASE UnlockFree(p)
    BY <2>11 DEF UnlockFree
  <2> QED
    BY <1>4, <2>1, <2>2, <2>3, <2>4, <2>5, <2>6, <2>7, <2>8, <2>9, <2>10, <2>11, Zenon
       DEF Step
<1> QED
  BY <1>1, <1>2, <1>3, <1>4 DEF Next

-----------------------------------------------------------------------------
\* The inductive invariant gives the properties that the runs check.
LEMMA IInvImplies ==
  ASSUME DistinctIds, IInv
  PROVE  TypeOK /\ MutualExclusion /\ NoLostLock /\ CountIsDepth
<1> USE KLockAssumption DEF IInv, DistinctIds
<1>1. MutualExclusion
  BY DEF MutualExclusion, TypeOK, StageInv, OwnerInv
<1>2. NoLostLock
  BY DEF NoLostLock, TypeOK, LiveInv
<1>3. CountIsDepth
  BY DEF CountIsDepth, TypeOK, OwnerInv, CountInv
<1> QED
  BY <1>1, <1>2, <1>3

\* KLock keeps its types; in particular recursive_count never goes below 0.
THEOREM TypeCorrect == DistinctIds /\ Spec => []TypeOK
<1> SUFFICES ASSUME DistinctIds PROVE Spec => []TypeOK
  OBVIOUS
<1>1. IInv /\ [Next]_vars => IInv'
  BY StepIInv
<1> QED
  BY InitIInv, <1>1, IInvImplies, PTL DEF Spec

\* Two processes are never both between a lock and its unlock, whatever the
\* number of harts, provided their values of ::hartid differ (k_lock.h).
THEOREM Exclusion == DistinctIds /\ Spec => []MutualExclusion
<1> SUFFICES ASSUME DistinctIds PROVE Spec => []MutualExclusion
  OBVIOUS
<1>1. IInv /\ [Next]_vars => IInv'
  BY StepIInv
<1> QED
  BY InitIInv, <1>1, IInvImplies, PTL DEF Spec

\* unlock() never leaves the lock with an owner that has gone.
THEOREM Ownership == DistinctIds /\ Spec => []NoLostLock
<1> SUFFICES ASSUME DistinctIds PROVE Spec => []NoLostLock
  OBVIOUS
<1>1. IInv /\ [Next]_vars => IInv'
  BY StepIInv
<1> QED
  BY InitIInv, <1>1, IInvImplies, PTL DEF Spec

\* recursive_count is the depth at which the owner holds the lock.
THEOREM CountExact == DistinctIds /\ Spec => []CountIsDepth
<1> SUFFICES ASSUME DistinctIds PROVE Spec => []CountIsDepth
  OBVIOUS
<1>1. IInv /\ [Next]_vars => IInv'
  BY StepIInv
<1> QED
  BY InitIInv, <1>1, IInvImplies, PTL DEF Spec

-----------------------------------------------------------------------------
(* Refinement                                                              *)

\* The holder of a map from processes to depths of which at most one is
\* positive is that process, and None if there is none.
LEMMA HolderIsUnique ==
  ASSUME NEW f \in [Procs -> Nat], NEW p \in Procs, f[p] > 0,
         \A q \in Procs : f[q] > 0 => q = p
  PROVE  HolderIn(f) = p
BY DEF HolderIn

\* HolderIn is None when no process holds the lock.
LEMMA HolderIsNone ==
  ASSUME NEW f \in [Procs -> Nat], \A q \in Procs : f[q] = 0
  PROVE  HolderIn(f) = None
BY DEF HolderIn

\* A step by which a process gains the lock, or one more level of it, is an
\* Acquire of the abstract lock.
LEMMA GotIsAcquire ==
  ASSUME TypeOK, TypeOK', MutualExclusion, MutualExclusion',
         NEW p \in Procs, Got(p)
  PROVE  Abstract!Acquire(p)
<1>1. held'[p] > 0 /\ held'[p] = held[p] + 1
  BY DEF Got, TypeOK
<1>2. \A q \in Procs : held'[q] > 0 => q = p
  BY <1>1 DEF MutualExclusion
<1>3. Holder' = p
  BY <1>1, <1>2, HolderIsUnique DEF Holder, TypeOK
<1>4. Depth' = held[p] + 1
  BY <1>1, <1>3, KLockAssumption DEF Depth
<1>5. CASE held[p] > 0
  <2>1. Holder = p
    BY <1>5, HolderIsUnique DEF Holder, TypeOK, MutualExclusion
  <2> QED
    BY <2>1, <1>3, <1>4, KLockAssumption DEF Depth, Abstract!Acquire
<1>6. CASE held[p] = 0
  <2>1. \A q \in Procs : held[q] = 0
    BY <1>2, <1>6 DEF Got, TypeOK
  <2>2. Holder = None
    BY <2>1, HolderIsNone DEF Holder, TypeOK
  <2> QED
    BY <2>2, <1>3, <1>4, <1>6 DEF Depth, Abstract!Acquire
<1> QED
  BY <1>5, <1>6 DEF TypeOK

\* unlock is a Release of the abstract lock.
LEMMA UnlockIsRelease ==
  ASSUME TypeOK, TypeOK', MutualExclusion, MutualExclusion',
         NEW p \in Procs, Unlock(p)
  PROVE  Abstract!Release(p)
<1>1. held[p] > 0 /\ held'[p] = held[p] - 1
  BY DEF Unlock, TypeOK
<1>2. \A q \in Procs : held[q] > 0 => q = p
  BY <1>1 DEF MutualExclusion
<1>3. Holder = p
  BY <1>1, <1>2, HolderIsUnique DEF Holder, TypeOK
<1>4. Depth = held[p]
  BY <1>3, KLockAssumption DEF Depth
<1>5. CASE held[p] = 1
  <2>1. \A q \in Procs : held'[q] = 0
    BY <1>1, <1>2, <1>5 DEF Unlock, TypeOK
  <2>2. Holder' = None
    BY <2>1, HolderIsNone DEF Holder, TypeOK
  <2> QED
    BY <2>2, <1>3, <1>4, <1>5 DEF Depth, Abstract!Release
<1>6. CASE held[p] > 1
  <2>1. held'[p] > 0
    BY <1>1, <1>6 DEF TypeOK
  <2>2. Holder' = p
    BY <2>1, HolderIsUnique DEF Holder, TypeOK, MutualExclusion
  <2>3. Depth' = held[p] - 1
    BY <2>2, <1>1, KLockAssumption DEF Depth
  <2> QED
    BY <2>2, <2>3, <1>3, <1>4, <1>6, KLockAssumption DEF Abstract!Release, TypeOK
<1> QED
  BY <1>1, <1>5, <1>6 DEF TypeOK

\* Every step of KLock is a step of the abstract lock or leaves it alone.
LEMMA StepRefines ==
  ASSUME TypeOK, TypeOK', MutualExclusion, MutualExclusion', [Next]_vars
  PROVE  [Abstract!Next]_<<Holder, Depth>>
<1>1. ASSUME held' = held PROVE UNCHANGED <<Holder, Depth>>
  BY <1>1 DEF Holder, Depth
<1>2. ASSUME NEW p \in Procs, Step(p) PROVE [Abstract!Next]_<<Holder, Depth>>
  <2>1. CASE AcquireNoop(p) \/ LockInc(p) \/ LockSet(p)
    BY <2>1, GotIsAcquire DEF AcquireNoop, LockInc, LockSet, Abstract!Next
  <2>2. CASE Unlock(p)
    BY <2>2, UnlockIsRelease DEF Abstract!Next
  <2>3. CASE \/ Lock(p) \/ LockCas(p) \/ TryAcquire(p) \/ TryCas(p)
             \/ TryFails(p) \/ UnlockDec(p) \/ UnlockFree(p)
    BY <2>3, <1>1 DEF Lock, LockCas, TryAcquire, TryCas, TryFails, UnlockDec,
                      UnlockFree
  <2> QED
    BY <1>2, <2>1, <2>2, <2>3 DEF Step
<1> QED
  BY <1>1, <1>2 DEF Next, EnterMulticore, EnterClearup, vars

\* struct __lock implements the abstract lock for any number of harts.
THEOREM Refinement == DistinctIds /\ Spec => ImplementsAbstractLock
<1> SUFFICES ASSUME DistinctIds PROVE Spec => ImplementsAbstractLock
  OBVIOUS
<1>1. Init => Abstract!Init
  <2> SUFFICES ASSUME Init PROVE Abstract!Init
    OBVIOUS
  <2>1. Holder = None
    BY HolderIsNone DEF Init, Holder
  <2> QED
    BY <2>1 DEF Depth, Abstract!Init
<1>2. TypeOK /\ TypeOK' /\ MutualExclusion /\ MutualExclusion' /\ [Next]_vars
        => [Abstract!Next]_<<Holder, Depth>>
  BY StepRefines
<1>3. Spec => [](TypeOK /\ MutualExclusion)
  BY TypeCorrect, Exclusion, PTL
<1> QED
  BY <1>1, <1>2, <1>3, PTL DEF Spec, ImplementsAbstractLock, Abstract!Spec
=============================================================================
