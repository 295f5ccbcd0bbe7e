------------------------------- MODULE KLockIrq -------------------------------
(***************************************************************************)
(* A recursive KLock used by the code of each hart and by its interrupt    *)
(* handler: k_isr_timer and k_isr_softirq call printf, which takes the     *)
(* lock of stdout, and k_pre_main enables interrupts before k_main.  The   *)
(* handler runs between any two instructions of the hart, with the hart's  *)
(* own ::hartid, and runs to its end before the hart's code goes on.       *)
(***************************************************************************)
EXTENDS KLock

CONSTANT Harts

IrqProcs == Harts \X {"main", "isr"}
IrqHartOf == [p \in IrqProcs |-> p[1]]

Idle(p) == pc[p] = "out" /\ held[p] = 0

\* The hart's code waits while its handler runs.
MainStep(h) == Idle(<<h, "isr">>) /\ Step(<<h, "main">>)

\* printf in the handler locks and unlocks once.
IsrStep(h) ==
  LET p == <<h, "isr">> IN
  \/ held[p] = 0 /\ Lock(p)
  \/ LockInc(p) \/ LockCas(p) \/ LockSet(p)
  \/ Unlock(p) \/ UnlockDec(p) \/ UnlockFree(p)

IrqInit == Init /\ recursive

IrqNext == EnterMulticore \/ EnterClearup
           \/ \E h \in Harts : MainStep(h) \/ IsrStep(h)

IrqSpec == IrqInit /\ [][IrqNext]_vars

\* "Multi-hart is supported" (ReadMe.md:57) through the retargeted locks of
\* newlib: while one hart is between a lock and its unlock, no other hart is.
HartsExclusive ==
  \A p, q \in Procs : held[p] > 0 /\ held[q] > 0 => HartOf[p] = HartOf[q]
=============================================================================
