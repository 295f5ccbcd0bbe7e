------------------------------ MODULE MCKLockIrq ------------------------------
(* KLockIrq on two harts; hart 1 has booted the kernel.                      *)
EXTENDS KLockIrq

IrqBoot == <<1, "main">>
=============================================================================
