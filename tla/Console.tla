------------------------------- MODULE Console -------------------------------
(***************************************************************************)
(* The console: VirtualFS::_write_stdout (k_vfs.cpp), which writes through *)
(* the firmware until k_boot_perip switches it to the driver of the UART   *)
(* (k_boot.cpp, uart8250.cpp), and k_before_cleanup, which switches back.  *)
(* No lock guards it: every hart polls the UART and writes its bytes       *)
(* while the others do.                                                    *)
(*                                                                         *)
(* A byte is <<hart, its number among the bytes of that hart>>.            *)
(***************************************************************************)
EXTENDS Integers, Sequences, FiniteSets

CONSTANTS
  Harts,
  Boot,        \* the boot hart
  Depth,       \* bytes the FIFO of the UART holds
  Size,        \* bytes of one call of _write_stdout
  MaxBoot,     \* bound: bytes the boot hart writes
  MaxOther     \* bound: bytes any other hart writes

ASSUME ConsoleAssumption ==
  /\ IsFiniteSet(Harts) /\ Boot \in Harts
  /\ Depth \in Nat \ {0} /\ Size \in Nat \ {0} /\ MaxBoot \in Nat /\ MaxOther \in Nat

VARIABLES
  stage,       \* "boot", "perip", "multicore", "clearup"
  switched,    \* k_stdout_switched
  dbcn,        \* support_dbcn: -1, 0 or 1
  fifoOn,      \* the UART's FIFO is enabled
  pc,          \* pc[h]: "run", "sbi", "poll", "thr", "returned"
  left,        \* left[h]: bytes of the call under way still to write
  sent,        \* sent[h]: bytes h has written
  fifo,        \* bytes in the UART
  line         \* bytes that left it

consoleVars == <<stage, switched, dbcn, fifoOn, pc, left, sent, fifo, line>>

Limit(h) == IF h = Boot THEN MaxBoot ELSE MaxOther

Running(h) == stage = "multicore" \/ h = Boot

Capacity == IF fifoOn THEN Depth ELSE 1

-----------------------------------------------------------------------------
(* _write_stdout *)

\* What SBI_EXT_BASE_PROBE_EXT answers is the platform's.
Write(h) ==
  /\ Running(h) /\ pc[h] = "run" /\ sent[h] + Size <= Limit(h)
  /\ IF dbcn < 0 THEN dbcn' \in {0, 1} ELSE UNCHANGED dbcn
  /\ pc' = [pc EXCEPT ![h] = IF switched THEN "poll" ELSE "sbi"]
  /\ left' = [left EXCEPT ![h] = Size]
  /\ UNCHANGED <<stage, switched, fifoOn, sent, fifo, line>>

\* One call of the firmware, which waits for the UART to be idle: the whole
\* buffer with DBCN, one byte without.
SbiWrite(h) ==
  LET n == IF dbcn = 1 THEN left[h] ELSE 1
  IN /\ pc[h] = "sbi" /\ fifo = <<>>
     /\ line' = line \o [k \in 1 .. n |-> <<h, sent[h] + k>>]
     /\ sent' = [sent EXCEPT ![h] = @ + n]
     /\ left' = [left EXCEPT ![h] = @ - n]
     /\ pc' = [pc EXCEPT ![h] = IF left[h] = n THEN "run" ELSE "sbi"]
     /\ UNCHANGED <<stage, switched, dbcn, fifoOn, fifo>>

-----------------------------------------------------------------------------
(* UART8250::write, a byte at a time *)

\* Mutant: the transmitter is not waited for.
Poll_NoWait(h) ==
  /\ pc[h] = "poll"
  /\ pc' = [pc EXCEPT ![h] = "thr"]
  /\ UNCHANGED <<stage, switched, dbcn, fifoOn, left, sent, fifo, line>>

\* Mutant: the test of UART_LSR_THRE is inverted.
Poll_Inverted(h) ==
  /\ pc[h] = "poll" /\ fifo # <<>>
  /\ pc' = [pc EXCEPT ![h] = "thr"]
  /\ UNCHANGED <<stage, switched, dbcn, fifoOn, left, sent, fifo, line>>

\* UART_LSR_THRE is seen set.
Poll(h) ==
  /\ pc[h] = "poll" /\ fifo = <<>>
  /\ pc' = [pc EXCEPT ![h] = "thr"]
  /\ UNCHANGED <<stage, switched, dbcn, fifoOn, left, sent, fifo, line>>

\* The write of UART_THR; a full UART drops the byte.
Thr(h) ==
  /\ pc[h] = "thr"
  /\ fifo' = IF Len(fifo) < Capacity THEN Append(fifo, <<h, sent[h] + 1>>) ELSE fifo
  /\ sent' = [sent EXCEPT ![h] = @ + 1]
  /\ left' = [left EXCEPT ![h] = @ - 1]
  /\ pc' = [pc EXCEPT ![h] = IF left[h] = 1 THEN "run" ELSE "poll"]
  /\ UNCHANGED <<stage, switched, dbcn, fifoOn, line>>

\* The UART sends a byte.
Drain ==
  /\ fifo # <<>>
  /\ line' = Append(line, Head(fifo)) /\ fifo' = Tail(fifo)
  /\ UNCHANGED <<stage, switched, dbcn, fifoOn, pc, left, sent>>

-----------------------------------------------------------------------------
(* The stages of the boot hart *)

\* Mutant: the FIFO is left off.
AddDevice_NoFifo ==
  /\ stage = "boot" /\ pc[Boot] = "run"
  /\ stage' = "perip"
  /\ UNCHANGED <<switched, dbcn, fifoOn, pc, left, sent, fifo, line>>

\* The UART is programmed by the probe of the peripherals.
AddDevice ==
  /\ stage = "boot" /\ pc[Boot] = "run"
  /\ fifoOn' = TRUE /\ stage' = "perip"
  /\ UNCHANGED <<switched, dbcn, pc, left, sent, fifo, line>>

\* stdout-path names the UART.
SwitchStdout ==
  /\ stage = "perip" /\ pc[Boot] = "run"
  /\ switched' = TRUE
  /\ UNCHANGED <<stage, dbcn, fifoOn, pc, left, sent, fifo, line>>

Multicore ==
  /\ stage = "perip" /\ pc[Boot] = "run"
  /\ stage' = "multicore"
  /\ UNCHANGED <<switched, dbcn, fifoOn, pc, left, sent, fifo, line>>

\* k_after_main: the hart's state becomes 3.
AfterMain(h) ==
  /\ stage = "multicore" /\ h # Boot /\ pc[h] = "run"
  /\ pc' = [pc EXCEPT ![h] = "returned"]
  /\ UNCHANGED <<stage, switched, dbcn, fifoOn, left, sent, fifo, line>>

BeforeCleanup ==
  /\ stage = "multicore" /\ pc[Boot] = "run"
  /\ \A h \in Harts \ {Boot} : pc[h] = "returned"
  /\ switched' = FALSE /\ stage' = "clearup"
  /\ UNCHANGED <<dbcn, fifoOn, pc, left, sent, fifo, line>>

-----------------------------------------------------------------------------
ConsoleInit ==
  /\ stage = "boot" /\ switched = FALSE /\ dbcn = -1 /\ fifoOn = FALSE
  /\ pc = [h \in Harts |-> "run"]
  /\ left = [h \in Harts |-> 0] /\ sent = [h \in Harts |-> 0]
  /\ fifo = <<>> /\ line = <<>>

HartStep(h) == Write(h) \/ SbiWrite(h) \/ Poll(h) \/ Thr(h) \/ AfterMain(h)

ConsoleNext ==
  \/ \E h \in Harts : HartStep(h)
  \/ Drain \/ AddDevice \/ SwitchStdout \/ Multicore \/ BeforeCleanup

ConsoleSpec == ConsoleInit /\ [][ConsoleNext]_consoleVars

\* Harts run, the UART sends what it holds, and main returns.
ConsoleFairness ==
  /\ WF_consoleVars(Drain) /\ WF_consoleVars(Multicore) /\ WF_consoleVars(AddDevice)
  /\ WF_consoleVars(BeforeCleanup)
  /\ \A h \in Harts : /\ WF_consoleVars(SbiWrite(h) \/ Poll(h) \/ Thr(h))
                      /\ WF_consoleVars(AfterMain(h))

-----------------------------------------------------------------------------
Byte == Harts \X Nat

ConsoleTypeOK ==
  /\ stage \in {"boot", "perip", "multicore", "clearup"}
  /\ switched \in BOOLEAN /\ dbcn \in {-1, 0, 1} /\ fifoOn \in BOOLEAN
  /\ pc \in [Harts -> {"run", "sbi", "poll", "thr", "returned"}]
  /\ left \in [Harts -> 0 .. Size] /\ sent \in [Harts -> Nat]
  /\ fifo \in Seq(Byte) /\ line \in Seq(Byte)

\* The unlocked loop of UART8250::write never writes to a full UART, although
\* any number of harts may have seen it empty: the FIFO is on by then, and has
\* room for a byte of each.
NothingDropped == \A h \in Harts : pc[h] = "thr" => Len(fifo) < Capacity

\* out has the first num[h] bytes of every hart h and nothing else, those of
\* one hart in the order in which it wrote them.
Complete(out, num) ==
  /\ \A p \in 1 .. Len(out) : out[p][2] \in 1 .. num[out[p][1]]
  /\ \A h \in Harts : \A k \in 1 .. num[h] : \E p \in 1 .. Len(out) : out[p] = <<h, k>>
  /\ \A p, q \in 1 .. Len(out) : p < q /\ out[p][1] = out[q][1] => out[p][2] < out[q][2]

\* What _write_stdout returned as written reaches the line: no byte is lost or
\* sent twice and the bytes of a hart stay in order, across both switches.
BytesInOrder == Complete(line \o fifo, sent)

\* Every byte written is sent, and the boot hart reaches k_before_cleanup's end.
AllSent ==
  <>[](/\ stage = "clearup" /\ fifo = <<>>
       /\ \A h \in Harts : pc[h] \in {"run", "returned"})
=============================================================================
