------------------------------ MODULE MCRuntime ------------------------------
(***************************************************************************)
(* The parts of the kernel's runtime that share no state: the lock of the  *)
(* heap, the task groups, the table of destructors and the traps of a      *)
(* hart.  What holds of one of them does not depend on where the others    *)
(* are, so a behaviour moves one, and the others stay where they start.    *)
(***************************************************************************)
EXTENDS MallocLock, RoundRobin, AtExit, Trap

VARIABLE part   \* the one that moves

\* Where the parts come to rest.
AtRest == UNCHANGED <<heapVars, schedVars, atExitVars, trapVars>>

RuntimeInit ==
  /\ part \in {"heap", "sched", "exit", "trap"}
  /\ HeapInit /\ SchedInit /\ AtExitInit /\ TrapInit
  /\ part # "trap" => sp = Top - TlsLen

RuntimeNext ==
  /\ UNCHANGED part
  /\ \/ part = "heap" /\ HeapNext /\ UNCHANGED <<schedVars, atExitVars, trapVars>>
     \/ part = "sched" /\ SchedNext /\ UNCHANGED <<heapVars, atExitVars, trapVars>>
     \/ part = "exit" /\ AtExitNext /\ UNCHANGED <<heapVars, schedVars, trapVars>>
     \/ part = "exit" /\ phase = "exited" /\ AtRest
     \/ part = "trap" /\ TrapNext /\ UNCHANGED <<heapVars, schedVars, atExitVars>>
     \/ part = "trap" /\ stage \in {"hung", "lost"} /\ AtRest

RuntimeSpec ==
  RuntimeInit /\ [][RuntimeNext]_<<part, heapVars, schedVars, atExitVars, trapVars>>
=============================================================================
