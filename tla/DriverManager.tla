---------------------------- MODULE DriverManager ----------------------------
(***************************************************************************)
(* The driver manager (k_drvif.h, k_drvif.cpp) and the drivers it has:     *)
(* GenericRoot, GenericMem, GenericCPU and Drv_Uart8250.  A probe walks    *)
(* the device tree and offers each node to the drivers of one type.        *)
(*                                                                         *)
(* A tree is the sequence of its nodes in the order of their offsets,      *)
(* which is the order of the walk.  A node has a name (that of its driver  *)
(* matching: the unit address is gone and the compatible string decides    *)
(* for cpu and uart), the number of its parent, and for cpus an mmu type;  *)
(* bad tells that its properties make addDevice fail.                      *)
(***************************************************************************)
EXTENDS Integers, Sequences

CONSTANT Trees   \* the machines: [nodes, stdout, initrd, satp],
                 \* see SysBoot

\* What a flat device tree is: its nodes are in the order of a walk from the
\* root, every node before its subtree and the subtree in one piece.  A cpu is
\* below a node cpus of the root, with one of the MMU types that have a name,
\* and stdout-path does not lead to a node of the system's drivers.
WellFormed(t) ==
  LET n == t.nodes IN
  /\ Len(n) \in Nat \ {0} /\ n[1].name = "" /\ n[1].up = 0
  /\ \A i \in 2 .. Len(n) :
       /\ n[i].up \in 1 .. i - 1
       /\ \A k \in n[i].up + 1 .. i : n[k].up >= n[i].up
       /\ n[i].bad \in BOOLEAN
       /\ n[i].name = "cpu" =>
            /\ n[n[i].up].name = "cpus" /\ n[n[i].up].up = 1
            /\ ~n[i].bad => n[i].mmu \in {32, 39, 48, 57}
  /\ t.stdout \in 1 .. Len(n) =>
       n[t.stdout].name \notin {"", "chosen", "memory", "memory-controller",
                               "reserved-memory", "cpus", "cpu-map", "cpu"}
  /\ t.satp \in Nat

ASSUME TreesAssumption == \A t \in Trees : WellFormed(t)

VARIABLES
  tree,     \* k_fdt
  type,     \* the type asked for by the probe under way, "none" between
  at,       \* the node it comes to next
  devhdl,   \* _devhdl: installed nodes -> driver, capability and handler
  cpus,     \* _cpus of the CPU driver, as nodes
  avail,    \* _mem_avail of the memory driver, as nodes
  rsv,      \* _mem_rsv
  uarts     \* the UART driver's devices, by handler

drvVars == <<tree, type, at, devhdl, cpus, avail, rsv, uarts>>

Node(i) == tree.nodes[i]
Nodes == 1 .. Len(tree.nodes)
Children(i) == { j \in Nodes : Node(j).up = i }

Lowest(S) == CHOOSE j \in S : \A k \in S : j <= k

\* fdt_path_offset of a child of the root: the first of that name, or 0
ByName(name) ==
  LET found == { j \in Children(1) : Node(j).name = name } IN
  IF found = {} THEN 0 ELSE Lowest(found)

\* in the order of their constructors' priorities
DrvList == <<"root", "mem", "cpu", "uart">>

DevType(d) == IF d = "uart" THEN "CHAR" ELSE "SYS"

\* probe of each driver: 0 none, DRV_CAP_THIS 1, DRV_CAP_COVER 2
ProbeRoot(name) == IF name = "" THEN 1 ELSE 0

\* the names that begin with "memory", and one more
MemNames == {"memory", "memory-controller", "reserved-memory"}

\* Mutant: the memory driver does not cover its node.
ProbeMem_NoCover(name) == IF name \in MemNames THEN 1 ELSE 0

ProbeMem(name) == IF name \in MemNames THEN 2 ELSE 0

ProbeCpu(name) == IF name = "cpus" THEN 1 ELSE IF name \in {"cpu-map", "cpu"} THEN 2 ELSE 0

ProbeUart(name) == IF name = "uart" THEN 1 ELSE 0

Claims(d, name) ==
  CASE d = "root" -> ProbeRoot(name)
    [] d = "mem"  -> ProbeMem(name)
    [] d = "cpu"  -> ProbeCpu(name)
    [] d = "uart" -> ProbeUart(name)

\* a probe for DEV_TYPE_PERIP takes all types above it
Wanted(d) == IF type = "PERIP" THEN DevType(d) = "CHAR" ELSE DevType(d) = type

Takers(i) == { k \in 1 .. Len(DrvList) :
                 Wanted(DrvList[k]) /\ Claims(DrvList[k], Node(i).name) > 0 }

\* the first driver in the list that claims node i
Driver(i) == DrvList[Lowest(Takers(i))]

\* the node where the walk goes on after i, whose driver has this capability
After(i, cap) ==
  LET out == { j \in i + 1 .. Len(tree.nodes) : cap < 2 \/ Node(j).up < i } IN
  IF out = {} THEN Len(tree.nodes) + 1 ELSE Lowest(out)

DrvStart(t) ==
  /\ tree = t
  /\ type = "none" /\ at = 1
  /\ devhdl = <<>>
  /\ cpus = <<>> /\ avail = <<>> /\ rsv = <<>> /\ uarts = <<>>

\* DriverManager::probe(k_fdt, t)
StartProbe(t) == type' = t /\ at' = 1 /\ UNCHANGED <<tree, devhdl, cpus, avail, rsv, uarts>>

Probing == type # "none" /\ at \in Nodes

Installed(i) == i \in DOMAIN devhdl

\* _try: the node is installed already, or nobody claims it.
Pass ==
  /\ Probing
  /\ Installed(at) \/ Takers(at) = {}
  /\ at' = After(at, IF Installed(at) THEN devhdl[at].cap ELSE 0)
  /\ UNCHANGED <<tree, type, devhdl, cpus, avail, rsv, uarts>>

\* The node is claimed.  addDevice has failed or returned a handler.
Try(d, fails, hdl, more) ==
  LET cap == Claims(d, Node(at).name)
      rec == [drv |-> d, cap |-> cap, hdl |-> hdl]
  IN
  /\ Probing
  /\ ~Installed(at) /\ Takers(at) # {} /\ Driver(at) = d
  /\ devhdl' = IF fails THEN devhdl
               ELSE [i \in DOMAIN devhdl \cup more \cup {at} |->
                       IF i = at THEN rec
                       ELSE IF i \in DOMAIN devhdl THEN devhdl[i]
                       ELSE [rec EXCEPT !.cap = 1]]
  /\ at' = After(at, cap)
  /\ UNCHANGED <<tree, type>>

\* GenericRoot needs /chosen and marks it installed.
AddRoot ==
  /\ Try("root", ByName("chosen") = 0, 0, {ByName("chosen")})
  /\ UNCHANGED <<cpus, avail, rsv, uarts>>

\* GenericMem: the children of /reserved-memory, or a node with memory
AddMem ==
  /\ Try("mem", FALSE, 0, {})
  /\ IF Node(at).name = "reserved-memory"
       THEN /\ rsv' = rsv \o SelectSeq([j \in Nodes |-> j],
                               LAMBDA j : Node(j).up = ByName("reserved-memory"))
            /\ UNCHANGED avail
       ELSE avail' = Append(avail, at) /\ UNCHANGED rsv
  /\ UNCHANGED <<cpus, uarts>>

\* the handlers of /cpus and of its cpu-map
CpusHandler == 65535
MapHandler == 65520

\* Mutant: a CPU is listed before its properties are found to be bad.
AddCpu_ListedFirst ==
  LET n == Node(at) IN
  /\ Probing
  /\ \/ n.name = "cpus" /\ Try("cpu", FALSE, CpusHandler, {}) /\ UNCHANGED cpus
     \/ n.name = "cpu-map" /\ Try("cpu", FALSE, MapHandler, {}) /\ UNCHANGED cpus
     \/ /\ n.name = "cpu"
        /\ Try("cpu", n.bad, Len(cpus), {})
        /\ cpus' = Append(cpus, at)
  /\ UNCHANGED <<avail, rsv, uarts>>

\* GenericCPU: /cpus and cpu-map have fixed handlers, a cpu is listed.
AddCpu ==
  LET n == Node(at) IN
  /\ Probing
  /\ \/ n.name = "cpus" /\ Try("cpu", FALSE, CpusHandler, {}) /\ UNCHANGED cpus
     \/ n.name = "cpu-map" /\ Try("cpu", FALSE, MapHandler, {}) /\ UNCHANGED cpus
     \/ /\ n.name = "cpu"
        /\ Try("cpu", n.bad, Len(cpus), {})
        /\ cpus' = IF n.bad THEN cpus ELSE Append(cpus, at)
  /\ UNCHANGED <<avail, rsv, uarts>>

\* Drv_Uart8250: handlers count from 0
AddUart ==
  /\ Try("uart", Node(at).bad, Len(uarts), {})
  /\ uarts' = IF Node(at).bad THEN uarts ELSE Append(uarts, at)
  /\ UNCHANGED <<cpus, avail, rsv>>

ProbeStep == Pass \/ AddRoot \/ AddMem \/ AddCpu \/ AddUart

ProbeDone == type # "none" /\ at = Len(tree.nodes) + 1
=============================================================================
