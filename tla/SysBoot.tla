------------------------------- MODULE SysBoot -------------------------------
(***************************************************************************)
(* k_boot_sysdev and k_boot_perip (k_boot.cpp): the two probes, what the   *)
(* boot takes from the drivers, the choice of the MMU, and the switch of   *)
(* the console, each with its way out.                                     *)
(*                                                                         *)
(* tree.stdout is the node /chosen/stdout-path names (0: none or unknown), *)
(* tree.initrd what the initrd of /chosen is worth, and tree.satp the      *)
(* largest mode that the boot hart's satp takes.                           *)
(***************************************************************************)
EXTENDS DriverManager, FiniteSets

CONSTANTS
  StackCPUs   \* the CPUs whose stacks fit in 512K, K_CONFIG_MAX_PROCESSORS

VARIABLES
  bootStage,      \* "sysdev", "perip", "done"
  rc,         \* what the boot returned
  mmu_type,   \* 39, 48, 57; 255 before
  stack,      \* where the stacks are: "none", "start", "malloc"
  console     \* the node k_stdout_func writes to, 0 for the SBI

sysBootVars == <<drvVars, bootStage, rc, mmu_type, stack, console>>

SysBootStart(t) ==
  /\ DrvStart(t)
  /\ bootStage = "sysdev" /\ rc = "none"
  /\ mmu_type = 255 /\ stack = "none" /\ console = 0

SysBootInit == \E t \in Trees : SysBootStart(t)

\* Mutant: the MMU is the best that some CPU has.
MinMMU_Max(list) ==
  LET kinds == { Node(list[k]).mmu : k \in 1 .. Len(list) } IN
  IF kinds = {} THEN 255 ELSE CHOOSE m \in kinds : \A l \in kinds : m >= l

\* the smallest MMU type
MinMMU(list) ==
  LET kinds == { Node(list[k]).mmu : k \in 1 .. Len(list) } IN
  IF kinds = {} THEN 255 ELSE Lowest(kinds)

\* satp reads back what was written
EnableWorks(m) == m <= tree.satp

Leave(code) == bootStage' = "done" /\ rc' = code /\ UNCHANGED <<drvVars, mmu_type, stack, console>>

Begin ==
  /\ type = "none"
  /\ bootStage = "sysdev" /\ StartProbe("SYS")
  /\ UNCHANGED <<bootStage, rc, mmu_type, stack, console>>

Step == bootStage # "done" /\ ProbeStep /\ UNCHANGED <<bootStage, rc, mmu_type, stack, console>>

SysProbed == bootStage = "sysdev" /\ ProbeDone

\* getDrvByPath of "/", "/cpus" and "/memory"
NotInstalled == \E path \in {1, ByName("cpus"), ByName("memory")} : path \notin DOMAIN devhdl

NoDevice == SysProbed /\ NotInstalled /\ Leave("K_ENOSPC")

NoMMU == SysProbed /\ ~NotInstalled /\ MinMMU(cpus) \in {255, 32} /\ Leave("K_EINVAL")

\* The mappings are confirmed (VMemoryMgr, PageTable) and satp is written.
EnableFails ==
  /\ SysProbed /\ ~NotInstalled
  /\ MinMMU(cpus) \notin {255, 32} /\ ~EnableWorks(MinMMU(cpus))
  /\ Leave("K_EFAIL")

SmallEnough(n) == n < StackCPUs

\* The stacks are found, and the peripherals are probed.
SysdevOK ==
  /\ SysProbed /\ ~NotInstalled
  /\ MinMMU(cpus) \notin {255, 32} /\ EnableWorks(MinMMU(cpus))
  /\ mmu_type' = MinMMU(cpus)
  /\ \/ SmallEnough(Len(cpus)) /\ stack' = "start"
     \/ ~SmallEnough(Len(cpus)) /\ stack' = "malloc"
  /\ bootStage' = "perip" /\ StartProbe("PERIP")
  /\ UNCHANGED <<rc, console>>

NoMemory ==
  /\ SysProbed /\ ~NotInstalled
  /\ MinMMU(cpus) \notin {255, 32} /\ EnableWorks(MinMMU(cpus))
  /\ ~SmallEnough(Len(cpus))
  /\ Leave("K_ENOMEM")

\* Mutant: the console is switched to the node of stdout-path whether or not
\* a driver has it.
Console_Unchecked == tree.stdout

\* where stdout-path leads
Console == IF tree.stdout \in DOMAIN devhdl THEN tree.stdout ELSE 0

\* k_boot_perip behind its probe: stdout, then the root file system
Perip ==
  /\ bootStage = "perip" /\ ProbeDone
  /\ console' = Console
  /\ rc' = IF tree.initrd = "broken" THEN "K_EFAIL" ELSE "OK"
  /\ bootStage' = "done"
  /\ UNCHANGED <<drvVars, mmu_type, stack>>

SysBootNext ==
  \/ Begin \/ Step \/ NoDevice \/ NoMMU \/ EnableFails \/ NoMemory \/ SysdevOK \/ Perip

SysBootSpec == SysBootInit /\ [][SysBootNext]_sysBootVars

-----------------------------------------------------------------------------
(* Properties *)

GoodCpus == { i \in Nodes : Node(i).name = "cpu" /\ ~Node(i).bad }

\* Every usable CPU of the machine is listed once after any number of probes,
\* and has the handler that is its place in the list.
CpusExact ==
  bootStage # "sysdev" =>
    /\ Len(cpus) = Cardinality(GoodCpus)
    /\ \A i \in GoodCpus : i \in DOMAIN devhdl /\ cpus[devhdl[i].hdl + 1] = i

\* No memory that /reserved-memory describes is offered as available: the
\* driver covers that node, and the walk does not enter it in either probe.
ReservedNotAvailable ==
  \A k \in 1 .. Len(avail) : Node(avail[k]).up # ByName("reserved-memory")
                             \/ ByName("reserved-memory") = 0

\* Whether the boot ends, and how, is decided by the machine: it has the
\* nodes that are looked up by path, usable CPUs, all of them with a 64-bit
\* MMU, and enable(true) fails only if none of the described modes exists.
BootOutcome ==
  LET kinds == { Node(i).mmu : i \in GoodCpus } IN
  /\ rc # "none" =>
       (rc = "K_ENOSPC" <=> \E name \in {"chosen", "cpus", "memory"} : ByName(name) = 0)
  /\ rc = "K_EINVAL" => kinds = {} \/ 32 \in kinds
  /\ rc = "K_EFAIL" => tree.initrd = "broken" \/ \A m \in kinds : tree.satp < m
  /\ rc = "OK" => mmu_type \in kinds /\ \A m \in kinds : mmu_type <= m

\* The console is switched only to a UART that its driver has set up.
ConsoleIsUart ==
  console # 0 => /\ console \in DOMAIN devhdl
                 /\ devhdl[console].drv = "uart"
                 /\ uarts[devhdl[console].hdl + 1] = console
=============================================================================
