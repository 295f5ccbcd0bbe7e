------------------------------ MODULE MCDevices ------------------------------
(***************************************************************************)
(* What the kernel learns from the device tree, and the console it finds   *)
(* there: the probes of the boot, the helpers that read the tree for the   *)
(* drivers, and the writes to the UART.  They share no state: a behaviour  *)
(* is one of a single part, and the others stay where they start (the      *)
(* console where it ends, so that its fairness asks nothing of it).        *)
(***************************************************************************)
EXTENDS MCSysBoot, MCFdtHelper, Console

VARIABLE part   \* the one that moves

AtRest == UNCHANGED <<sysBootVars, fdtVars, consoleVars>>

\* The console when nobody has written and main has returned.
ConsoleOver ==
  /\ stage = "clearup" /\ switched = FALSE /\ dbcn = -1 /\ fifoOn = TRUE
  /\ pc = [h \in Harts |-> IF h = Boot THEN "run" ELSE "returned"]
  /\ left = [h \in Harts |-> 0] /\ sent = [h \in Harts |-> 0]
  /\ fifo = <<>> /\ line = <<>>

DevicesInit ==
  /\ part \in {"boot", "fdt", "console"}
  /\ IF part = "boot" THEN SysBootInit
     ELSE SysBootStart(Board("chosen", "firmware", "memory", 39, 39, FALSE, 0, "good", 39))
  /\ IF part = "fdt" THEN FdtInit ELSE FdtStart([entries |-> <<>>, index |-> 0], "list")
  /\ IF part = "console" THEN ConsoleInit ELSE ConsoleOver

DevicesNext ==
  /\ UNCHANGED part
  /\ \/ part = "boot" /\ SysBootNext /\ UNCHANGED <<fdtVars, consoleVars>>
     \/ part = "boot" /\ bootStage = "done" /\ AtRest
     \/ part = "fdt" /\ FdtNext /\ UNCHANGED <<sysBootVars, consoleVars>>
     \/ part = "fdt" /\ fdtPC = "done" /\ AtRest
     \/ part = "console" /\ ConsoleNext /\ UNCHANGED <<sysBootVars, fdtVars>>
     \/ part = "console" /\ stage = "clearup" /\ AtRest

DevicesSpec ==
  /\ DevicesInit /\ [][DevicesNext]_<<part, sysBootVars, fdtVars, consoleVars>>
  /\ ConsoleFairness
=============================================================================
