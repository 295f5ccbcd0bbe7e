------------------------------- MODULE MCKLock -------------------------------
(* KLock with one process per hart: every process has its own ::hartid.      *)
EXTENDS KLock

OwnHart == [p \in Procs |-> p]
=============================================================================
