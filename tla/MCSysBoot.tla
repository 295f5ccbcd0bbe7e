------------------------------ MODULE MCSysBoot ------------------------------
(***************************************************************************)
(* Machines of the shape of QEMU's virt board, with parts missing, broken  *)
(* or doubled.                                                             *)
(***************************************************************************)
EXTENDS SysBoot

N(name, up) == [name |-> name, up |-> up, bad |-> FALSE, mmu |-> 0]
Cpu(up, bad, mmu) == [name |-> "cpu", up |-> up, bad |-> bad, mmu |-> mmu]
Uart(up, bad) == [name |-> "uart", up |-> up, bad |-> bad, mmu |-> 0]

\* the nodes: 1 root, 2 chosen, 3 reserved memory and 4 its region, 5 memory,
\* 6 cpus with 7, 8 and 9, 10 a bus with two UARTs
Board(chosen, region, memory, a, b, badUart, stdout, initrd, satp) ==
  [nodes  |-> << N("", 0), N(chosen, 1), N("reserved-memory", 1), N(region, 3),
                 N(memory, 1), N("cpus", 1), Cpu(6, a = 0, a), Cpu(6, b = 0, b),
                 N("cpu-map", 6), N("soc", 1), Uart(10, badUart), Uart(10, FALSE) >>,
   stdout |-> stdout, initrd |-> initrd, satp |-> satp]

Boards(memories) ==
  { Board(chosen, region, memory, a, b, badUart, stdout, initrd, satp) :
      chosen \in {"chosen", "aliases"}, region \in {"memory", "firmware"},
      memory \in memories, a \in {0, 32, 39, 48}, b \in {0, 39, 57},
      badUart \in BOOLEAN, stdout \in {0, 11, 12}, initrd \in {"good", "broken"}, satp \in {39, 57} }

MCTrees == Boards({"memory", "sram"})
=============================================================================
