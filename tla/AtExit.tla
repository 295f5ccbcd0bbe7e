------------------------------- MODULE AtExit -------------------------------
(***************************************************************************)
(* The table of destructors of the C++ runtime (k_cxxabi.cpp): static      *)
(* objects are registered with __cxa_atexit as their constructors finish,  *)
(* __cxa_finalize(f) runs the destructors with address f, and k_cleanup    *)
(* ends the kernel with __cxa_finalize(NULL) (lowerenv.c).                 *)
(*                                                                         *)
(* A step of a finalize loop looks at one entry and runs its destructor;   *)
(* what that destructor registers itself comes between two steps.          *)
(***************************************************************************)
EXTENDS Integers, Sequences

CONSTANTS
  ATEXIT_MAX_FUNCS,  \* the length of the table, 1024
  Funcs,             \* destructor functions
  NULL,              \* not a function
  MaxObjs            \* bound: how many objects are ever constructed

ASSUME AtExitAssumption ==
  /\ ATEXIT_MAX_FUNCS \in Nat
  /\ NULL \notin Funcs
  /\ MaxObjs \in Nat

VARIABLES
  objs,    \* how many objects have been constructed; the last is obj_ptr objs
  table,   \* __atexit_funcs up to __atexit_func_count
  phase,      \* "run", "finalize": in a loop of __cxa_finalize, or "exited"
  f,       \* the argument of the call under way
  i,       \* its index: the entries up to i are still to be looked at
  from,    \* __atexit_func_count when the call began
  ran      \* the objects destroyed so far, in order

atExitVars == <<objs, table, phase, f, i, from, ran>>

Entry == [destructor_func : Funcs \cup {NULL}, obj_ptr : 1 .. MaxObjs]

AtExitInit ==
  /\ objs = 0
  /\ table = <<>>
  /\ phase = "run"
  /\ f = NULL
  /\ i = 0
  /\ from = 0
  /\ ran = <<>>

\* __cxa_atexit of a new object; a full table refuses it.
__cxa_atexit(g) ==
  /\ phase # "exited"
  /\ objs < MaxObjs
  /\ objs' = objs + 1
  /\ table' = IF Len(table) >= ATEXIT_MAX_FUNCS THEN table
              ELSE Append(table, [destructor_func |-> g, obj_ptr |-> objs + 1])
  /\ UNCHANGED <<phase, f, i, from, ran>>

\* Mutant: the loop begins below the last entry.
Finalize_OffByOne(g) ==
  /\ phase = "run"
  /\ phase' = "finalize" /\ f' = g
  /\ i' = IF table = <<>> THEN 0 ELSE Len(table) - 1
  /\ from' = Len(table)
  /\ UNCHANGED <<objs, table, ran>>

\* __cxa_finalize(g), NULL included: i = __atexit_func_count.
Finalize(g) ==
  /\ phase = "run"
  /\ phase' = "finalize" /\ f' = g
  /\ i' = Len(table) /\ from' = Len(table)
  /\ UNCHANGED <<objs, table, ran>>

Hits(e) == e.destructor_func # NULL /\ (f = NULL \/ e.destructor_func = f)

\* Mutant: the destructor is not taken out of the table.
Step_KeepsEntry ==
  /\ phase = "finalize" /\ i > 0
  /\ i' = i - 1
  /\ ran' = IF Hits(table[i]) THEN Append(ran, table[i].obj_ptr) ELSE ran
  /\ UNCHANGED <<objs, table, phase, f, from>>

\* Mutant: the table is walked in the order of registration.
Step_Forward ==
  /\ phase = "finalize" /\ i > 0
  /\ i' = i - 1
  /\ LET e == table[from - i + 1] IN
       /\ ran' = IF Hits(e) THEN Append(ran, e.obj_ptr) ELSE ran
       /\ table' = IF Hits(e) /\ f # NULL
                     THEN [table EXCEPT ![from - i + 1].destructor_func = NULL]
                     ELSE table
  /\ UNCHANGED <<objs, phase, f, from>>

\* One turn of while (i--).  Only the call for one function takes the
\* destructor out of the table.
Step ==
  /\ phase = "finalize" /\ i > 0
  /\ i' = i - 1
  /\ ran' = IF Hits(table[i]) THEN Append(ran, table[i].obj_ptr) ELSE ran
  /\ table' = IF Hits(table[i]) /\ f # NULL
                THEN [table EXCEPT ![i].destructor_func = NULL] ELSE table
  /\ UNCHANGED <<objs, phase, f, from>>

\* The loop is over; after __cxa_finalize(NULL), the last thing k_cleanup
\* does to the objects, the kernel is done.
Return ==
  /\ phase = "finalize" /\ i = 0
  /\ phase' = IF f = NULL THEN "exited" ELSE "run"
  /\ UNCHANGED <<objs, table, f, i, from, ran>>

AtExitNext ==
  \/ Step \/ Return \/ Finalize(NULL)
  \/ \E g \in Funcs : __cxa_atexit(g) \/ Finalize(g)

AtExitSpec == AtExitInit /\ [][AtExitNext]_atExitVars

-----------------------------------------------------------------------------
AtExitTypeOK ==
  /\ objs \in 0 .. MaxObjs
  /\ table \in Seq(Entry) /\ Len(table) <= ATEXIT_MAX_FUNCS
  /\ phase \in {"run", "finalize", "exited"}
  /\ f \in Funcs \cup {NULL}
  /\ i \in 0 .. from /\ from \in 0 .. Len(table)
  /\ ran \in Seq(1 .. MaxObjs)

\* "multiple calls ... should not destroy objects multiple times"
\* (k_cxxabi.cpp:104): no object is destroyed twice, whatever calls for
\* single functions come before the one of k_cleanup.
DestroyedOnce == \A j, k \in 1 .. Len(ran) : ran[j] = ran[k] => j = k

\* k_cleanup destroys everything that was registered before it began.
AllDestroyed ==
  phase = "exited" =>
    \A k \in 1 .. from : \E j \in 1 .. Len(ran) : ran[j] = table[k].obj_ptr

\* "the last initialized object's destructor must be first" (:110): when
\* __cxa_finalize(NULL) destroys an object, every younger one that was
\* registered before the call has been destroyed.
ReverseOrder ==
  [][phase = "finalize" /\ f = NULL /\ ran' # ran =>
       \A k \in 1 .. from : table[k].obj_ptr > ran'[Len(ran')] =>
         \E j \in 1 .. Len(ran) : ran[j] = table[k].obj_ptr]_atExitVars
=============================================================================
