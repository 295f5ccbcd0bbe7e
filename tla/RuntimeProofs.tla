---------------------------- MODULE RuntimeProofs ----------------------------
(***************************************************************************)
(* The lock of the heap, the scheduler's task numbers and the table of     *)
(* destructors, parts of the runtime that share no state, each for every   *)
(* value of its constants.                                                 *)
(***************************************************************************)
EXTENDS MallocLock, RoundRobin, AtExit, FiniteSetTheorems, SequenceTheorems, TLAPS

-----------------------------------------------------------------------------
(* The word of the heap's lock never names a hart that has left the heap,   *)
(* for any number of harts and any depth.                                   *)

\* Outside K_MULTICORE the word is free, and no hart is in the loop; a hart in
\* it has room for the call it is making.
HeapInv ==
  /\ HeapTypeOK
  /\ NoStaleOwner
  /\ k_stage # "K_MULTICORE" => k_malloc_lock = Zero
  /\ \A h \in Harts : lockPC[h] = "cas" => inside[h] < MaxDepth /\ k_stage = "K_MULTICORE"

LEMMA HeapInitInv == HeapInit => HeapInv
  BY MallocLockAssumption DEF HeapInit, HeapInv, HeapTypeOK, NoStaleOwner

LEMMA HeapStepInv == HeapInv /\ [HeapNext]_heapVars => HeapInv'
<1> SUFFICES ASSUME HeapInv, [HeapNext]_heapVars PROVE HeapInv'
  OBVIOUS
<1> USE MallocLockAssumption DEF HeapInv, HeapTypeOK, NoStaleOwner
<1>1. CASE EnterMulticore
  BY <1>1 DEF EnterMulticore
<1>2. CASE EnterClearup
  BY <1>2 DEF EnterClearup
<1>3. ASSUME NEW h \in Harts, LockReturns(h) PROVE HeapInv'
  BY <1>3 DEF LockReturns, EnterHeap
<1>4. ASSUME NEW h \in Harts, LockLoops(h) PROVE HeapInv'
  <2>1. UNCHANGED <<k_malloc_lock, k_stage, inside>> /\ inside[h] < MaxDepth
        /\ k_stage = "K_MULTICORE"
        /\ lockPC' = [lockPC EXCEPT ![h] = "cas"]
    BY <1>4 DEF LockLoops
  <2>2. lockPC' \in [Harts -> {"out", "cas"}] /\ \A g \in Harts : g # h => lockPC'[g] = lockPC[g]
    BY <2>1
  <2>3. \A g \in Harts : lockPC[g] = "cas" => lockPC'[g] = "cas"
    BY <2>1
  <2> QED
    BY <2>1, <2>2, <2>3
<1>5. ASSUME NEW h \in Harts, CasSucceeds(h) PROVE HeapInv'
  BY <1>5 DEF CasSucceeds
<1>6. ASSUME NEW h \in Harts, CasFails(h) PROVE HeapInv'
  BY <1>6 DEF CasFails, EnterHeap
<1>7. ASSUME NEW h \in Harts, CasFailsSpuriously(h) PROVE HeapInv'
  BY <1>7 DEF CasFailsSpuriously, EnterHeap
<1>8. ASSUME NEW h \in Harts, Unlock(h) PROVE HeapInv'
  BY <1>8 DEF Unlock
<1>9. CASE UNCHANGED heapVars
  BY <1>9 DEF heapVars
<1> QED
  BY <1>1, <1>2, <1>3, <1>4, <1>5, <1>6, <1>7, <1>8, <1>9 DEF HeapNext

LEMMA HeapAlwaysInv == HeapSpec => []HeapInv
  BY HeapInitInv, HeapStepInv, PTL DEF HeapSpec

\* The word of k_malloc_lock is 0 or the _reent of a hart.
THEOREM HeapTypeCorrect == HeapSpec => []HeapTypeOK
<1>1. HeapInv => HeapTypeOK
  BY DEF HeapInv
<1> QED
  BY <1>1, HeapAlwaysInv, PTL

\* __malloc_unlock leaves no word behind that names a hart outside the heap.
THEOREM OwnerIsInside == HeapSpec => []NoStaleOwner
<1>1. HeapInv => NoStaleOwner
  BY DEF HeapInv
<1> QED
  BY <1>1, HeapAlwaysInv, PTL

-----------------------------------------------------------------------------
(* The numbers of tasks, for words of any width, any number of groups and   *)
(* any set of tasks.                                                        *)

SchedInv == SchedTypeOK /\ HeldIsLive /\ SearchEnds

LEMMA IdsFinite == IsFiniteSet(Ids) /\ Cardinality(Ids) = WORD
<1>1. IsFiniteSet(0 .. (WORD - 1)) /\ Cardinality(0 .. (WORD - 1)) = WORD
  BY FS_Interval, RoundRobinAssumption
<1> QED
  BY <1>1 DEF Ids

LEMMA UsedFinite ==
  ASSUME NEW h \in Handles
  PROVE  IsFiniteSet(Used(h)) /\ Cardinality(Used(h)) \in Nat
<1>1. Used(h) \subseteq Ids
  BY DEF Used
<1> QED
  BY <1>1, IdsFinite, FS_Subset, FS_CardinalityType

LEMMA SchedInitInv == SchedInit => SchedInv
<1> SUFFICES ASSUME SchedInit PROVE SchedInv
  OBVIOUS
<1> USE RoundRobinAssumption
<1>1. NoTasks \in [Ids -> Tasks \cup {NoTask}]
  BY DEF NoTasks
<1>2. SchedTypeOK
  BY <1>1 DEF SchedInit, SchedTypeOK, Handles, Ids
<1>3. HeldIsLive
  BY DEF SchedInit, HeldIsLive, NoTasks
<1>4. ASSUME NEW h \in Handles PROVE Cardinality(Used(h)) < WORD
  <2>1. Used(h) = {}
    BY DEF SchedInit, Used, NoTasks
  <2> QED
    BY <2>1, FS_EmptySet
<1> QED
  BY <1>2, <1>3, <1>4 DEF SchedInv, SearchEnds

\* Numbers that are taken away leave room.
LEMMA FewerUsed ==
  ASSUME SchedInv, NEW h \in Handles, Used(h)' \subseteq Used(h)
  PROVE  Cardinality(Used(h)') < WORD
<1>1. Cardinality(Used(h)') <= Cardinality(Used(h)) /\ Cardinality(Used(h)') \in Nat
  BY UsedFinite, FS_Subset, FS_CardinalityType
<1> QED
  BY <1>1, UsedFinite, RoundRobinAssumption DEF SchedInv, SearchEnds

LEMMA AddDeviceInv == SchedInv /\ AddDevice => SchedInv'
<1> SUFFICES ASSUME SchedInv, AddDevice PROVE SchedInv'
  OBVIOUS
<1> USE RoundRobinAssumption DEF SchedInv
<1>1. hdl_count \in Handles /\ hdl_count + 1 \in Handles /\ 1 \in Ids
  BY DEF AddDevice, SchedTypeOK, Handles, Ids
<1>2. NoTasks \in [Ids -> Tasks \cup {NoTask}]
  BY DEF NoTasks
<1>3. hdl_count \notin groups
  BY DEF SchedTypeOK, Handles
<1>4. SchedTypeOK'
  <2>1. groups' \subseteq 0 .. (hdl_count' - 1) /\ hdl_count' \in Handles
    BY <1>1 DEF AddDevice, SchedTypeOK, Handles
  <2>2. next_task_id' \in [Handles -> Ids]
    BY <1>1 DEF AddDevice, SchedTypeOK
  <2>3. tasks' \in [Handles -> [Ids -> Tasks \cup {NoTask}]]
    BY <1>1, <1>2 DEF AddDevice, SchedTypeOK
  <2> QED
    BY <2>1, <2>2, <2>3 DEF AddDevice, SchedTypeOK, Handles, Ids
<1>5. HeldIsLive'
  <2> SUFFICES ASSUME NEW h \in Handles, NEW id \in Ids, held[h][id] # NoTask
               PROVE  h \in groups' /\ tasks'[h][id] = held[h][id]
    BY DEF HeldIsLive, AddDevice, Handles, Ids
  <2>1. h \in groups /\ tasks[h][id] = held[h][id]
    BY DEF HeldIsLive
  <2>2. tasks'[h] = tasks[h]
    BY <1>3, <2>1 DEF AddDevice, SchedTypeOK
  <2> QED
    BY <2>1, <2>2 DEF AddDevice
<1>6. SearchEnds'
  <2> SUFFICES ASSUME NEW h \in Handles PROVE Cardinality(Used(h)') < WORD
    BY DEF SearchEnds, Handles
  <2>1. Used(h)' \subseteq Used(h)
    BY DEF Used, AddDevice, SchedTypeOK, NoTasks, Ids
  <2> QED
    BY <2>1, FewerUsed
<1> QED
  BY <1>4, <1>5, <1>6

LEMMA RemoveDeviceInv ==
  ASSUME SchedInv, NEW g \in Handles, RemoveDevice(g)
  PROVE  SchedInv'
<1> USE RoundRobinAssumption DEF SchedInv
<1>1. NoTasks \in [Ids -> Tasks \cup {NoTask}]
  BY DEF NoTasks
<1>2. SchedTypeOK'
  BY <1>1 DEF RemoveDevice, SchedTypeOK, Handles, Ids
<1>3. HeldIsLive'
  <2> SUFFICES ASSUME NEW h \in Handles, NEW id \in Ids, held'[h][id] # NoTask
               PROVE  h \in groups' /\ tasks'[h][id] = held'[h][id]
    BY DEF HeldIsLive, Handles, Ids
  <2>1. h # g
    BY DEF RemoveDevice, SchedTypeOK, NoTasks
  <2>2. held'[h] = held[h] /\ tasks'[h] = tasks[h] /\ (h \in groups => h \in groups')
    BY <2>1 DEF RemoveDevice, SchedTypeOK
  <2> QED
    BY <2>2 DEF HeldIsLive
<1>4. SearchEnds'
  <2> SUFFICES ASSUME NEW h \in Handles PROVE Cardinality(Used(h)') < WORD
    BY DEF SearchEnds, Handles
  <2>1. Used(h)' \subseteq Used(h)
    BY DEF Used, RemoveDevice, SchedTypeOK, NoTasks, Ids
  <2> QED
    BY <2>1, FewerUsed
<1> QED
  BY <1>2, <1>3, <1>4

LEMMA AddTaskInv ==
  ASSUME SchedInv, NEW g \in Handles, NEW t \in Tasks, AddTask(g, t)
  PROVE  SchedInv'
<1> USE RoundRobinAssumption DEF SchedInv
<1>1. PICK n \in Ids :
        /\ IsNextFree(g, n)
        /\ tasks' = [tasks EXCEPT ![g][n] = t]
        /\ next_task_id' = [next_task_id EXCEPT ![g] = (n + 1) % WORD]
        /\ held' = IF n = 0 \/ held[g][n] # NoTask THEN held
                    ELSE [held EXCEPT ![g][n] = t]
  BY Zenon DEF AddTask
<1>2. tasks[g][n] = NoTask /\ UNCHANGED <<hdl_count, groups>> /\ g \in groups
  BY <1>1 DEF IsNextFree, Used, AddTask
<1>3. (n + 1) % WORD \in Ids
  <2>1. n + 1 \in Nat
    BY DEF Ids
  <2> QED
    BY <2>1 DEF Ids
<1>4. SchedTypeOK'
  <2>1. next_task_id' \in [Handles -> Ids]
    BY <1>1, <1>3 DEF SchedTypeOK
  <2>2. tasks' \in [Handles -> [Ids -> Tasks \cup {NoTask}]]
    BY <1>1 DEF SchedTypeOK
  <2>3. held' \in [Handles -> [Ids -> Tasks \cup {NoTask}]]
    BY <1>1 DEF SchedTypeOK
  <2> QED
    BY <1>2, <2>1, <2>2, <2>3, Zenon DEF SchedTypeOK, Handles, Ids
<1>5. HeldIsLive'
  <2> SUFFICES ASSUME NEW h \in Handles, NEW id \in Ids, held'[h][id] # NoTask
               PROVE  h \in groups' /\ tasks'[h][id] = held'[h][id]
    BY DEF HeldIsLive, Handles, Ids
  <2>1. held[g][n] = NoTask
    BY <1>2 DEF HeldIsLive
  <2>2. CASE h = g /\ id = n
    BY <1>1, <1>2, <2>1, <2>2 DEF SchedTypeOK
  <2>3. CASE ~(h = g /\ id = n)
    <3>1. held'[h][id] = held[h][id] /\ tasks'[h][id] = tasks[h][id]
      BY <1>1, <2>3 DEF SchedTypeOK
    <3> QED
      BY <1>2, <3>1 DEF HeldIsLive
  <2> QED
    BY <2>2, <2>3
<1>6. SearchEnds'
  <2> SUFFICES ASSUME NEW h \in Handles PROVE Cardinality(Used(h)') < WORD
    BY DEF SearchEnds, Handles
  <2>1. CASE h # g
    <3>1. Used(h)' = Used(h)
      BY <1>1, <2>1 DEF Used, SchedTypeOK, Ids
    <3> QED
      BY <3>1 DEF SearchEnds
  <2>2. CASE h = g
    <3>1. Used(h)' = Used(h) \cup {n} /\ n \notin Used(h)
      BY <1>1, <1>2, <2>2 DEF Used, SchedTypeOK, Ids
    <3>2. Cardinality(Used(h)') = Cardinality(Used(h)) + 1
      BY <3>1, UsedFinite, FS_AddElement, Zenon
    <3>3. Cardinality(Used(h)) # WORD - 1 /\ Cardinality(Used(h)) < WORD
      BY <2>2 DEF AddTask, Full, SearchEnds
    <3> QED
      BY <3>2, <3>3, UsedFinite
  <2> QED
    BY <2>1, <2>2
<1> QED
  BY <1>4, <1>5, <1>6

LEMMA RemoveTaskInv ==
  ASSUME SchedInv, NEW g \in Handles, NEW n \in Ids, RemoveTask(g, n)
  PROVE  SchedInv'
<1> USE RoundRobinAssumption DEF SchedInv
<1>1. UNCHANGED <<hdl_count, groups, next_task_id>>
  BY DEF RemoveTask
<1>2. SchedTypeOK'
  <2>1. tasks' \in [Handles -> [Ids -> Tasks \cup {NoTask}]]
    BY DEF RemoveTask, SchedTypeOK
  <2>2. held' \in [Handles -> [Ids -> Tasks \cup {NoTask}]]
    BY DEF RemoveTask, SchedTypeOK
  <2> QED
    BY <1>1, <2>1, <2>2 DEF SchedTypeOK, Handles, Ids
<1>3. HeldIsLive'
  <2> SUFFICES ASSUME NEW h \in Handles, NEW id \in Ids, held'[h][id] # NoTask
               PROVE  h \in groups' /\ tasks'[h][id] = held'[h][id]
    BY DEF HeldIsLive, Handles, Ids
  <2>1. ~(h = g /\ id = n)
    BY DEF RemoveTask, SchedTypeOK
  <2>2. held'[h][id] = held[h][id] /\ tasks'[h][id] = tasks[h][id]
    BY <2>1 DEF RemoveTask, SchedTypeOK
  <2> QED
    BY <1>1, <2>2 DEF HeldIsLive
<1>4. SearchEnds'
  <2> SUFFICES ASSUME NEW h \in Handles PROVE Cardinality(Used(h)') < WORD
    BY DEF SearchEnds, Handles
  <2>1. Used(h)' \subseteq Used(h)
    BY DEF Used, RemoveTask, SchedTypeOK, Ids
  <2> QED
    BY <2>1, FewerUsed
<1> QED
  BY <1>2, <1>3, <1>4

LEMMA SchedStepInv == SchedInv /\ [SchedNext]_schedVars => SchedInv'
<1> SUFFICES ASSUME SchedInv, [SchedNext]_schedVars PROVE SchedInv'
  OBVIOUS
<1>1. CASE AddDevice
  BY <1>1, AddDeviceInv
<1>2. ASSUME NEW h \in Handles, RemoveDevice(h) PROVE SchedInv'
  BY <1>2, RemoveDeviceInv
<1>3. ASSUME NEW h \in Handles, NEW t \in Tasks, AddTask(h, t) PROVE SchedInv'
  BY <1>3, AddTaskInv
<1>4. ASSUME NEW h \in Handles, NEW id \in Ids, RemoveTask(h, id) PROVE SchedInv'
  BY <1>4, RemoveTaskInv
<1>5. CASE UNCHANGED schedVars
  BY <1>5 DEF schedVars, SchedInv, SchedTypeOK, HeldIsLive, SearchEnds, Used, Handles, Ids
<1> QED
  BY <1>1, <1>2, <1>3, <1>4, <1>5 DEF SchedNext, AddTaskRefused, RemoveTaskRefused

LEMMA SchedAlwaysInv == SchedSpec => []SchedInv
  BY SchedInitInv, SchedStepInv, PTL DEF SchedSpec

\* A number that addTask has given out keeps naming the caller's task,
\* however often next_task_id has wrapped around.
THEOREM NumbersStayValid == SchedSpec => []HeldIsLive
<1>1. SchedInv => HeldIsLive
  BY DEF SchedInv
<1> QED
  BY <1>1, SchedAlwaysInv, PTL

\* The loop of addTask always has a free number to find.
THEOREM LoopEnds == SchedSpec => []SearchEnds
<1>1. SchedInv => SearchEnds
  BY DEF SchedInv
<1> QED
  BY <1>1, SchedAlwaysInv, PTL

-----------------------------------------------------------------------------
(* Every registered object is destroyed once, all of them by k_cleanup and  *)
(* the youngest first, for tables of any length and any sequence of calls.  *)

Obj(k) == table[k].obj_ptr

\* The objects destroyed so far.
Ran == {ran[j] : j \in 1 .. Len(ran)}

\* __cxa_finalize(NULL) has passed entry k; it leaves the entry as it is.
Passed(k) == phase # "run" /\ f = NULL /\ i < k /\ k <= from

\* The destructor of entry k is still to be run.
Live(k) == table[k].destructor_func # NULL /\ ~Passed(k)

\* The table is in the order of construction, an entry is live exactly if its
\* object is not destroyed, and only objects in the table are.
TableInv ==
  /\ \A k \in 1 .. Len(table) : Obj(k) <= objs
  /\ \A k, l \in 1 .. Len(table) : k < l => Obj(k) < Obj(l)
  /\ \A k \in 1 .. Len(table) : Live(k) <=> Obj(k) \notin Ran
  /\ \A o \in Ran : o <= objs
  /\ phase = "exited" => f = NULL /\ i = 0

AtExitInv == AtExitTypeOK /\ TableInv /\ DestroyedOnce

LEMMA AtExitInitInv == AtExitInit => AtExitInv
<1> SUFFICES ASSUME AtExitInit PROVE AtExitInv
  OBVIOUS
<1> USE AtExitAssumption DEF AtExitInit
<1>1. AtExitTypeOK
  <2>1. <<>> \in Seq(Entry) /\ <<>> \in Seq(1 .. MaxObjs) /\ Len(<<>>) = 0
    OBVIOUS
  <2> QED
    BY <2>1 DEF AtExitTypeOK
<1>2. TableInv
  BY DEF TableInv, Ran
<1>3. DestroyedOnce
  BY DEF DestroyedOnce
<1> QED
  BY <1>1, <1>2, <1>3 DEF AtExitInv

\* What a longer list of destroyed objects holds.
LEMMA RanAppend ==
  ASSUME AtExitTypeOK, NEW o \in 1 .. MaxObjs, ran' = Append(ran, o)
  PROVE  Ran' = Ran \cup {o} /\ ran' \in Seq(1 .. MaxObjs)
<1>1. ran \in Seq(1 .. MaxObjs) /\ Len(ran) \in Nat
  BY DEF AtExitTypeOK
<1>2. /\ ran' \in Seq(1 .. MaxObjs) /\ Len(ran') = Len(ran) + 1
      /\ \A j \in 1 .. Len(ran) : ran'[j] = ran[j]
      /\ ran'[Len(ran) + 1] = o
  BY <1>1, AppendProperties
<1> QED
  BY <1>1, <1>2 DEF Ran

LEMMA OnceAppend ==
  ASSUME AtExitTypeOK, DestroyedOnce, NEW o \in 1 .. MaxObjs, ran' = Append(ran, o), o \notin Ran
  PROVE  DestroyedOnce'
<1>1. ran \in Seq(1 .. MaxObjs) /\ Len(ran) \in Nat
  BY DEF AtExitTypeOK
<1>2. /\ Len(ran') = Len(ran) + 1
      /\ \A j \in 1 .. Len(ran) : ran'[j] = ran[j]
      /\ ran'[Len(ran) + 1] = o
  BY <1>1, AppendProperties
<1>3. \A j \in 1 .. Len(ran) : ran[j] # o
  BY DEF Ran
<1> QED
  BY <1>1, <1>2, <1>3 DEF DestroyedOnce

LEMMA EntryTypes ==
  ASSUME AtExitTypeOK
  PROVE  \A k \in 1 .. Len(table) : table[k] \in Entry /\ Obj(k) \in Int /\ Obj(k) \in 1 .. MaxObjs
<1>1. ASSUME NEW k \in 1 .. Len(table) PROVE table[k] \in Entry
  BY DEF AtExitTypeOK
<1>2. ASSUME NEW e \in Entry PROVE e.obj_ptr \in 1 .. MaxObjs /\ e.obj_ptr \in Int
  BY DEF Entry
<1> QED
  BY <1>1, <1>2 DEF Obj

LEMMA RegisterInv ==
  ASSUME AtExitInv, NEW g \in Funcs, __cxa_atexit(g)
  PROVE  AtExitInv'
<1> USE AtExitAssumption
<1> DEFINE e == [destructor_func |-> g, obj_ptr |-> objs + 1]
<1>1. /\ phase # "exited" /\ objs' = objs + 1 /\ UNCHANGED <<phase, f, i, from, ran>>
      /\ objs + 1 \in 1 .. MaxObjs /\ objs \in Nat
  BY DEF __cxa_atexit, AtExitInv, AtExitTypeOK
<1>2. Ran' = Ran /\ DestroyedOnce'
  BY <1>1 DEF Ran, AtExitInv, DestroyedOnce
<1>3. table \in Seq(Entry) /\ Len(table) \in Nat
  BY DEF AtExitInv, AtExitTypeOK
<1>4. \A k \in 1 .. Len(table) : Obj(k) \in Int
  BY EntryTypes DEF AtExitInv
<1>5. \A o \in Ran : o \in Int
  BY DEF AtExitInv, AtExitTypeOK, Ran
<1>6. CASE table' = table
  BY <1>1, <1>2, <1>4, <1>5, <1>6
     DEF AtExitInv, AtExitTypeOK, TableInv, Obj, Live, Passed
<1>7. CASE table' = Append(table, e) /\ Len(table) < ATEXIT_MAX_FUNCS
  <2>0. PICK n \in Nat : n = Len(table) + 1
    BY <1>3
  <2>1. e \in Entry
    BY <1>1 DEF Entry
  <2>2. /\ table' \in Seq(Entry) /\ Len(table') = n
        /\ \A k \in 1 .. Len(table) : table'[k] = table[k]
        /\ table'[n] = e
    BY <1>3, <1>7, <2>0, <2>1, AppendProperties
  <2>3. AtExitTypeOK'
    BY <1>1, <1>3, <1>7, <2>0, <2>2 DEF AtExitInv, AtExitTypeOK
  <2>4. \A k \in 1 .. Len(table) : Obj(k)' = Obj(k) /\ (Live(k)' <=> Live(k))
    BY <1>1, <2>2 DEF Obj, Live, Passed
  <2>5. Obj(n)' = objs + 1 /\ Live(n)'
    <3>1. table'[n].obj_ptr = objs + 1
          /\ table'[n].destructor_func = g
      BY <2>2
    <3>2. ~(n <= from)
      BY <1>3, <2>0 DEF AtExitInv, AtExitTypeOK
    <3> QED
      BY <1>1, <3>1, <3>2 DEF Obj, Live, Passed
  <2>6. objs + 1 \notin Ran
    BY <1>1, <1>5 DEF AtExitInv, TableInv
  <2>7. \A k \in 1 .. Len(table') : k \in 1 .. Len(table) \/ k = n
    BY <1>3, <2>0, <2>2
  <2>8. TableInv'
    <3>1. \A k \in 1 .. Len(table') : Obj(k)' <= objs'
      BY <1>1, <1>4, <2>4, <2>5, <2>7 DEF AtExitInv, TableInv
    <3>2. \A k, l \in 1 .. Len(table') : k < l => Obj(k)' < Obj(l)'
      BY <1>1, <1>3, <1>4, <2>0, <2>4, <2>5, <2>7, SMTT(40) DEF AtExitInv, TableInv
    <3>3. \A k \in 1 .. Len(table') : Live(k)' <=> Obj(k)' \notin Ran'
      BY <1>2, <2>4, <2>5, <2>6, <2>7 DEF AtExitInv, TableInv
    <3>4. \A o \in Ran' : o <= objs'
      BY <1>1, <1>2, <1>5 DEF AtExitInv, TableInv
    <3> QED
      BY <1>1, <3>1, <3>2, <3>3, <3>4 DEF TableInv
  <2> QED
    BY <1>2, <2>3, <2>8 DEF AtExitInv
<1> QED
  BY <1>3, <1>6, <1>7 DEF __cxa_atexit

LEMMA FinalizeInv ==
  ASSUME AtExitInv, NEW g \in Funcs \cup {NULL}, Finalize(g)
  PROVE  AtExitInv'
<1>1. /\ phase = "run" /\ phase' = "finalize" /\ f' = g /\ i' = Len(table) /\ from' = Len(table)
      /\ UNCHANGED <<objs, table, ran>>
  BY DEF Finalize
<1>2. Len(table) \in Nat
  BY DEF AtExitInv, AtExitTypeOK
<1>3. AtExitTypeOK'
  BY <1>1, <1>2 DEF AtExitInv, AtExitTypeOK
<1>4. Ran' = Ran /\ DestroyedOnce'
  BY <1>1 DEF Ran, AtExitInv, DestroyedOnce
<1>5. \A k \in 1 .. Len(table) : Obj(k)' = Obj(k) /\ (Live(k)' <=> Live(k))
  BY <1>1, <1>2 DEF Obj, Live, Passed
<1>6. TableInv'
  BY <1>1, <1>4, <1>5 DEF AtExitInv, TableInv
<1> QED
  BY <1>3, <1>4, <1>6 DEF AtExitInv

LEMMA ReturnInv ==
  ASSUME AtExitInv, Return
  PROVE  AtExitInv'
<1>1. /\ phase = "finalize" /\ phase' = (IF f = NULL THEN "exited" ELSE "run") /\ i = 0
      /\ UNCHANGED <<objs, table, f, i, from, ran>>
  BY DEF Return
<1>2. AtExitTypeOK'
  BY <1>1 DEF AtExitInv, AtExitTypeOK
<1>3. Ran' = Ran /\ DestroyedOnce'
  BY <1>1 DEF Ran, AtExitInv, DestroyedOnce
<1>4. \A k \in 1 .. Len(table) : Obj(k)' = Obj(k) /\ (Live(k)' <=> Live(k))
  BY <1>1 DEF Obj, Live, Passed
<1>5. TableInv'
  BY <1>1, <1>3, <1>4 DEF AtExitInv, TableInv
<1> QED
  BY <1>2, <1>3, <1>5 DEF AtExitInv

\* What one turn of the loop does to entry m, and leaves of the others.
LEMMA StepEffect ==
  ASSUME AtExitInv, Step, NEW m \in Nat, m = i
  PROVE  /\ m \in 1 .. Len(table) /\ i' = m - 1
         /\ table' \in Seq(Entry) /\ Len(table') = Len(table)
         /\ \A k \in 1 .. Len(table) : Obj(k)' = Obj(k)
         /\ \A k \in 1 .. Len(table) : k # m => (Live(k)' <=> Live(k))
         /\ Hits(table[m]) => Live(m) /\ ~Live(m)' /\ ran' = Append(ran, Obj(m))
         /\ ~Hits(table[m]) => (Live(m)' <=> Live(m)) /\ ran' = ran
<1>1. /\ phase = "finalize" /\ m > 0 /\ i' = m - 1 /\ UNCHANGED <<objs, phase, f, from>>
      /\ ran' = (IF Hits(table[m]) THEN Append(ran, Obj(m)) ELSE ran)
      /\ table' = (IF Hits(table[m]) /\ f # NULL
                     THEN [table EXCEPT ![m].destructor_func = NULL] ELSE table)
  BY DEF Step, Obj
<1>2. table \in Seq(Entry) /\ Len(table) \in Nat /\ m <= from /\ from \in Nat /\ from <= Len(table)
  BY DEF AtExitInv, AtExitTypeOK
<1>3. m \in 1 .. Len(table) /\ table[m] \in Entry
  BY <1>1, <1>2, EntryTypes DEF AtExitInv
<1>4. CASE Hits(table[m]) /\ f # NULL
  <2> DEFINE e == [table[m] EXCEPT !.destructor_func = NULL]
  <2>1. e \in Entry /\ e.destructor_func = NULL /\ e.obj_ptr = Obj(m)
    BY <1>3 DEF Entry, Obj
  <2>2. table' = [table EXCEPT ![m] = e]
    BY <1>1, <1>4
  <2> HIDE DEF e
  <2>3. /\ table' \in Seq(Entry) /\ Len(table') = Len(table)
        /\ \A k \in 1 .. Len(table) : table'[k] = IF k = m THEN e ELSE table[k]
    BY <1>2, <1>3, <2>1, <2>2, ExceptSeq
  <2>4. table'[m] = e /\ \A k \in 1 .. Len(table) : k # m => table'[k] = table[k]
    BY <1>3, <2>3
  <2>5. \A k \in 1 .. Len(table) : ~Passed(k) /\ ~Passed(k)'
    BY <1>1, <1>4 DEF Passed
  <2>6. Live(m) /\ ~Live(m)'
    BY <1>3, <1>4, <2>1, <2>4, <2>5 DEF Live, Hits
  <2>7. \A k \in 1 .. Len(table) : Obj(k)' = Obj(k)
    BY <2>1, <2>4 DEF Obj
  <2>8. \A k \in 1 .. Len(table) : k # m => (Live(k)' <=> Live(k))
    BY <2>4, <2>5 DEF Live
  <2> QED
    BY <1>1, <1>3, <1>4, <2>3, <2>6, <2>7, <2>8
<1>5. CASE table' = table /\ (f = NULL \/ ~Hits(table[m]))
  <2>1. \A k \in 1 .. Len(table) : k # m => (Passed(k)' <=> Passed(k))
    BY <1>1, <1>2 DEF Passed
  <2>2. ~Passed(m) /\ (f = NULL => Passed(m)') /\ (f # NULL => ~Passed(m)')
    BY <1>1, <1>2 DEF Passed
  <2>3. \A k \in 1 .. Len(table) : Obj(k)' = Obj(k)
    BY <1>5 DEF Obj
  <2>4. \A k \in 1 .. Len(table) : k # m => (Live(k)' <=> Live(k))
    BY <1>5, <2>1 DEF Live
  <2>5. Hits(table[m]) => Live(m) /\ ~Live(m)'
    BY <1>5, <2>2 DEF Live, Hits
  <2>6. ~Hits(table[m]) => (Live(m)' <=> Live(m))
    BY <1>5, <2>2 DEF Live, Hits
  <2> QED
    BY <1>1, <1>2, <1>3, <1>5, <2>3, <2>4, <2>5, <2>6
<1> QED
  BY <1>1, <1>4, <1>5

LEMMA StepKeeps ==
  ASSUME AtExitInv, Step
  PROVE  AtExitInv'
<1>1. PICK m \in Nat : m = i
  BY DEF AtExitInv, AtExitTypeOK
<1>2. /\ m \in 1 .. Len(table) /\ i' = m - 1
      /\ table' \in Seq(Entry) /\ Len(table') = Len(table)
      /\ \A k \in 1 .. Len(table) : Obj(k)' = Obj(k)
      /\ \A k \in 1 .. Len(table) : k # m => (Live(k)' <=> Live(k))
      /\ Hits(table[m]) => Live(m) /\ ~Live(m)' /\ ran' = Append(ran, Obj(m))
      /\ ~Hits(table[m]) => (Live(m)' <=> Live(m)) /\ ran' = ran
  BY <1>1, StepEffect
<1>3. UNCHANGED <<objs, phase, f, from>> /\ phase = "finalize"
  BY DEF Step
<1>4. Len(table) \in Nat /\ \A k \in 1 .. Len(table) : Obj(k) \in 1 .. MaxObjs /\ Obj(k) \in Int
  BY EntryTypes DEF AtExitInv, AtExitTypeOK
<1>5. CASE Hits(table[m])
  <2>1. Obj(m) \notin Ran /\ Obj(m) <= objs
    BY <1>2, <1>5 DEF AtExitInv, TableInv
  <2>2. Ran' = Ran \cup {Obj(m)} /\ ran' \in Seq(1 .. MaxObjs)
    BY <1>2, <1>4, <1>5, RanAppend DEF AtExitInv
  <2>3. DestroyedOnce'
    BY <1>2, <1>4, <1>5, <2>1, OnceAppend DEF AtExitInv
  <2>4. AtExitTypeOK'
    BY <1>1, <1>2, <1>3, <1>4, <2>2 DEF AtExitInv, AtExitTypeOK
  <2>5. \A k \in 1 .. Len(table) : k # m => Obj(k) # Obj(m)
    BY <1>2, <1>4 DEF AtExitInv, TableInv
  <2>6. \A k \in 1 .. Len(table) : Live(k)' <=> Obj(k) \notin Ran'
    BY <1>2, <1>5, <2>2, <2>5 DEF AtExitInv, TableInv
  <2>7. TableInv'
    BY <1>2, <1>3, <2>1, <2>2, <2>6 DEF AtExitInv, TableInv
  <2> QED
    BY <2>3, <2>4, <2>7 DEF AtExitInv
<1>6. CASE ~Hits(table[m])
  <2>1. Ran' = Ran /\ DestroyedOnce' /\ ran' = ran
    BY <1>2, <1>6 DEF Ran, AtExitInv, DestroyedOnce
  <2>2. AtExitTypeOK'
    BY <1>1, <1>2, <1>3, <1>4, <2>1 DEF AtExitInv, AtExitTypeOK
  <2>3. \A k \in 1 .. Len(table) : Live(k)' <=> Live(k)
    BY <1>2, <1>6
  <2>4. TableInv'
    BY <1>2, <1>3, <2>1, <2>3 DEF AtExitInv, TableInv
  <2> QED
    BY <2>1, <2>2, <2>4 DEF AtExitInv
<1> QED
  BY <1>5, <1>6

LEMMA AtExitStepInv == AtExitInv /\ [AtExitNext]_atExitVars => AtExitInv'
<1> SUFFICES ASSUME AtExitInv, [AtExitNext]_atExitVars PROVE AtExitInv'
  OBVIOUS
<1>1. CASE Step
  BY <1>1, StepKeeps
<1>2. CASE Return
  BY <1>2, ReturnInv
<1>3. CASE Finalize(NULL)
  BY <1>3, FinalizeInv
<1>4. ASSUME NEW g \in Funcs, __cxa_atexit(g) PROVE AtExitInv'
  BY <1>4, RegisterInv
<1>5. ASSUME NEW g \in Funcs, Finalize(g) PROVE AtExitInv'
  BY <1>5, FinalizeInv
<1>6. CASE UNCHANGED atExitVars
  BY <1>6 DEF atExitVars, AtExitInv, AtExitTypeOK, TableInv, DestroyedOnce, Obj, Live, Passed, Ran
<1> QED
  BY <1>1, <1>2, <1>3, <1>4, <1>5, <1>6 DEF AtExitNext

LEMMA AtExitAlwaysInv == AtExitSpec => []AtExitInv
  BY AtExitInitInv, AtExitStepInv, PTL DEF AtExitSpec

\* No destructor runs twice, whatever __cxa_finalize calls for single
\* functions come before the one of k_cleanup.
THEOREM NoDoubleDestroy == AtExitSpec => []DestroyedOnce
<1>1. AtExitInv => DestroyedOnce
  BY DEF AtExitInv
<1> QED
  BY <1>1, AtExitAlwaysInv, PTL

\* When k_cleanup's __cxa_finalize(NULL) is over, everything registered
\* before it has been destroyed.
THEOREM CleanupComplete == AtExitSpec => []AllDestroyed
<1>1. AtExitInv => AllDestroyed
  <2> SUFFICES ASSUME AtExitInv, phase = "exited", NEW k \in 1 .. from
               PROVE  \E j \in 1 .. Len(ran) : ran[j] = Obj(k)
    BY DEF AllDestroyed, Obj
  <2>1. k \in 1 .. Len(table) /\ Passed(k)
    BY DEF AtExitInv, AtExitTypeOK, TableInv, Passed
  <2>2. Obj(k) \in Ran
    BY <2>1 DEF AtExitInv, TableInv, Live
  <2> QED
    BY <2>2 DEF Ran
<1> QED
  BY <1>1, AtExitAlwaysInv, PTL

\* __cxa_finalize(NULL) destroys the younger objects first.
THEOREM YoungestFirst == AtExitSpec => ReverseOrder
<1> DEFINE A == phase = "finalize" /\ f = NULL /\ ran' # ran =>
                  \A k \in 1 .. from : table[k].obj_ptr > ran'[Len(ran')] =>
                    \E j \in 1 .. Len(ran) : ran[j] = table[k].obj_ptr
<1>1. AtExitInv /\ [AtExitNext]_atExitVars => [A]_atExitVars
  <2> SUFFICES ASSUME AtExitInv, AtExitNext, phase = "finalize", f = NULL, ran' # ran,
                      NEW k \in 1 .. from, Obj(k) > ran'[Len(ran')]
               PROVE  \E j \in 1 .. Len(ran) : ran[j] = Obj(k)
    BY DEF Obj
  <2>1. Step
    BY Zenon DEF AtExitNext, Return, Finalize, __cxa_atexit
  <2>2. PICK m \in Nat : m = i
    BY DEF AtExitInv, AtExitTypeOK
  <2>3. m \in 1 .. Len(table) /\ ran' = Append(ran, Obj(m))
    BY <2>1, <2>2, StepEffect
  <2>4. ran'[Len(ran')] = Obj(m)
    BY <2>3, EntryTypes, AppendProperties DEF AtExitInv, AtExitTypeOK
  <2>5. k \in 1 .. Len(table) /\ Obj(k) \in Int /\ Obj(m) \in Int
    BY <2>3, EntryTypes DEF AtExitInv, AtExitTypeOK
  <2>6. m < k
    BY <2>3, <2>4, <2>5 DEF AtExitInv, TableInv
  <2>7. Passed(k)
    BY <2>2, <2>6 DEF Passed
  <2>8. Obj(k) \in Ran
    BY <2>5, <2>7 DEF AtExitInv, TableInv, Live
  <2> QED
    BY <2>8 DEF Ran
<1> QED
  BY <1>1, AtExitAlwaysInv, PTL DEF AtExitSpec, ReverseOrder
=============================================================================
