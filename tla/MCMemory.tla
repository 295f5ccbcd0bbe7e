------------------------------ MODULE MCMemory ------------------------------
(***************************************************************************)
(* The two layers of virtual memory: the page tables of one MMU, and the   *)
(* managers, for which an MMU is the set of what it has mapped.  A         *)
(* behaviour is one of either layer, the other stays as it starts.         *)
(***************************************************************************)
EXTENDS MCPageTable, VMemoryMgr

VARIABLE layer   \* the one that moves

MemoryInit == layer \in {"tables", "managers"} /\ MMUInit /\ VMInit

\* A caller gives up after a failure of map or unmap.
MemoryNext ==
  /\ UNCHANGED layer
  /\ \/ layer = "tables" /\ CallerNext /\ UNCHANGED vmVars
     \/ layer = "tables" /\ ~Working /\ UNCHANGED <<mmuVars, vmVars>>
     \/ layer = "managers" /\ CarefulNext /\ UNCHANGED mmuVars

MemorySpec == MemoryInit /\ [][MemoryNext]_<<layer, mmuVars, vmVars>>
=============================================================================
