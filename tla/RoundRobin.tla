----------------------------- MODULE RoundRobin -----------------------------
(***************************************************************************)
(* The task groups of the round-robin scheduler (roundrobin.cpp): one      *)
(* group per device handle, a map from task numbers to tasks, and the      *)
(* choice of the next number in a word that wraps.                         *)
(***************************************************************************)
EXTENDS Integers, FiniteSets

CONSTANTS
  WORD,    \* how many task numbers there are, 2^32 for a uint32_t
  MAXHDL,  \* bound: how many groups are ever created
  Tasks,   \* task_t values
  NoTask   \* not a task: the number is free

ASSUME RoundRobinAssumption ==
  /\ WORD \in Nat /\ WORD > 1
  /\ MAXHDL \in Nat
  /\ NoTask \notin Tasks

VARIABLES
  hdl_count,     \* long _hdl_count
  groups,        \* the handles in _taskgroups
  next_task_id,  \* taskgroup_t::next_task_id of every handle
  tasks,         \* taskgroup_t::tasks of every handle
  held           \* the numbers addTask has given out, with the task of the caller
                 \* it gave them to first, until they are removed

schedVars == <<hdl_count, groups, next_task_id, tasks, held>>

Handles == 0 .. MAXHDL
Ids == 0 .. (WORD - 1)
NoTasks == [i \in Ids |-> NoTask]
Used(h) == {i \in Ids : tasks[h][i] # NoTask}

SchedInit ==
  /\ hdl_count = 0
  /\ groups = {}
  /\ next_task_id = [h \in Handles |-> 1]
  /\ tasks = [h \in Handles |-> NoTasks]
  /\ held = [h \in Handles |-> NoTasks]

AddDevice ==
  /\ hdl_count < MAXHDL
  /\ groups' = groups \cup {hdl_count}
  /\ next_task_id' = [next_task_id EXCEPT ![hdl_count] = 1]
  /\ tasks' = [tasks EXCEPT ![hdl_count] = NoTasks]
  /\ hdl_count' = hdl_count + 1
  /\ UNCHANGED held

RemoveDevice(h) ==
  /\ h \in groups
  /\ groups' = groups \ {h}
  /\ tasks' = [tasks EXCEPT ![h] = NoTasks]
  /\ held' = [held EXCEPT ![h] = NoTasks]
  /\ UNCHANGED <<hdl_count, next_task_id>>

\* How many steps of next_task_id++ lead from a to b.
Ahead(a, b) == (b - a) % WORD

\* Mutant: the loop that looks for an empty slot is missing.
IsNextFree_First(h, i) == i = next_task_id[h]

\* while (tasks.find(next_task_id) != tasks.end()) next_task_id++
IsNextFree(h, i) ==
  /\ i \notin Used(h)
  /\ \A k \in Ids : Ahead(next_task_id[h], k) < Ahead(next_task_id[h], i)
                      => k \in Used(h)

\* Mutant: the number of tasks is compared with 2^32 instead of 2^32 - 1.
Full_OffByOne(h) == Cardinality(Used(h)) = WORD

\* tasks.size() == (uint32_t)-1
Full(h) == Cardinality(Used(h)) = WORD - 1

\* addTask answers the number; a caller that gets 0 takes it for a refusal.
AddTask(h, t) ==
  /\ h \in groups
  /\ ~Full(h)
  /\ \E i \in Ids :
       /\ IsNextFree(h, i)
       /\ tasks' = [tasks EXCEPT ![h][i] = t]
       /\ next_task_id' = [next_task_id EXCEPT ![h] = (i + 1) % WORD]
       /\ held' = IF i = 0 \/ held[h][i] # NoTask THEN held
                   ELSE [held EXCEPT ![h][i] = t]
  /\ UNCHANGED <<hdl_count, groups>>

\* removeTask of a number the caller was given.
RemoveTask(h, i) ==
  /\ h \in groups
  /\ held[h][i] # NoTask
  /\ tasks' = [tasks EXCEPT ![h][i] = NoTask]
  /\ held' = [held EXCEPT ![h][i] = NoTask]
  /\ UNCHANGED <<hdl_count, groups, next_task_id>>

\* The early returns: no group or a full one (answer 0) ...
AddTaskRefused(h) ==
  /\ h \notin groups \/ Full(h)
  /\ UNCHANGED schedVars

\* ... and no group (K_EINVAL) or no such task (K_EALREADY).
RemoveTaskRefused(h, i) ==
  /\ h \notin groups \/ i \notin Used(h)
  /\ UNCHANGED schedVars

SchedNext ==
  \/ AddDevice
  \/ \E h \in Handles :
       \/ RemoveDevice(h) \/ AddTaskRefused(h)
       \/ \E t \in Tasks : AddTask(h, t)
       \/ \E i \in Ids : RemoveTask(h, i) \/ RemoveTaskRefused(h, i)

SchedSpec == SchedInit /\ [][SchedNext]_schedVars

-----------------------------------------------------------------------------
SchedTypeOK ==
  /\ hdl_count \in Handles
  /\ groups \subseteq 0 .. (hdl_count - 1)
  /\ next_task_id \in [Handles -> Ids]
  /\ tasks \in [Handles -> [Ids -> Tasks \cup {NoTask}]]
  /\ held \in [Handles -> [Ids -> Tasks \cup {NoTask}]]

\* A number that addTask has given out names the caller's task until the
\* caller removes it: the number of a live task is never given out again
\* (addTask, the loop over next_task_id).
HeldIsLive ==
  \A h \in Handles, i \in Ids :
    held[h][i] # NoTask => h \in groups /\ tasks[h][i] = held[h][i]

\* A group always has a free number, so the loop of addTask ends
\* (the test for a full group).
SearchEnds == \A h \in Handles : Cardinality(Used(h)) < WORD
=============================================================================
