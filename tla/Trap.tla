-------------------------------- MODULE Trap --------------------------------
(***************************************************************************)
(* Traps of one hart (k_isr.cpp): the vector table, the switch to the      *)
(* kernel stack through sscratch, the frames, the handlers and the way     *)
(* back.  User mode is as runInUserMode sets it up, which k_main.cpp has   *)
(* in comments for now: sp in sscratch, and a place to resume at.          *)
(*                                                                         *)
(* A register is named by the slot of the frame it is saved in: 0 ra,      *)
(* 1 gp, 2 tp, 3-9 t0-t6, 10-17 a0-a7, 18-29 s0-s11; slots 30 and 31 are   *)
(* for sp and pc.  Outside the handlers register i holds the value i.      *)
(* Interrupts stay masked from trap to sret, so that entry, handler and    *)
(* exit are one step each.                                                 *)
(***************************************************************************)
EXTENDS Integers

CONSTANTS
  Causes,       \* traps that happen: see Vector
  Hart,         \* the hart's number
  StackBase,    \* k_stack_base, the top of hart 0's stack
  StackSize,    \* K_CONFIG_STACK_SIZE
  Processors,   \* K_CONFIG_MAX_PROCESSORS
  TlsLen,       \* _tls_len, kept at the top of each stack
  SaveSpace,    \* the size of a frame
  UserSP,       \* the stack pointer of the user program
  Junk,         \* what stale stack memory may hold
  MaxPC         \* bound on pc

ASSUME TrapAssumption ==
  /\ Hart \in Nat /\ StackBase \in Nat /\ TlsLen \in Nat
  /\ StackSize \in Nat \ {0} /\ Processors \in Nat \ {0} /\ SaveSpace \in Nat \ {0}
  /\ UserSP \in Int \ {0} /\ Junk \subseteq Int /\ MaxPC \in Nat
  /\ TlsLen + SaveSpace < StackSize
  /\ (Hart + 1) * StackSize <= StackBase

Top == StackBase - Hart * StackSize

\* kernel stack pointers at which a frame and a handler still fit
KernelSPs == Top - StackSize + SaveSpace + 1 .. Top - TlsLen

VARIABLES
  stage,      \* "run", "handler", "exit", "hung"; "lost": resumed elsewhere
  cause,      \* of the trap being handled
  mode, pc, sp, regs, sscratch, sepc,
  spp,        \* sstatus.SPP, the mode sret goes to
  ssie,       \* sie.SSIP: software interrupts are taken
  frame,      \* slot -> value, of the frame at sp
  tls,        \* tp as recomputed for the handler
  was,        \* the interrupted context
  k_halt,
  k_local_resume   \* whether it is set

trapVars == <<stage, cause, mode, pc, sp, regs, sscratch, sepc, spp, ssie,
              frame, tls, was, k_halt, k_local_resume>>

Resume == -1   \* the label k_local_resume points to

Context == [mode |-> mode, sp |-> sp, sscratch |-> sscratch, pc |-> pc]

Own == [i \in 0 .. 29 |-> i]

TrapInit ==
  /\ stage = "run" /\ cause = "none"
  /\ pc = 0 /\ sepc = 0
  /\ regs = Own
  /\ \E k \in KernelSPs :
       \/ mode = "S" /\ sp = k /\ sscratch = 0
       \/ mode = "U" /\ sp = UserSP /\ sscratch = k
  /\ frame = [i \in 0 .. 31 |-> 0]
  /\ tls = 0
  /\ spp = mode /\ ssie = TRUE
  /\ was = Context
  /\ k_halt = FALSE /\ k_local_resume = (mode = "U")

-----------------------------------------------------------------------------
\* _exctable and the jump table of k_exception_entry, entered through the
\* number of the cause.  External interrupts are never enabled.
Vector(c) ==
  CASE c = "software" -> "k_isr_softirq"   \* interrupt 1
    [] c = "timer"    -> "k_isr_timer"     \* interrupt 5
    [] c = "ebreak"   -> "k_esr_break"     \* exception 3
    [] c = "ecall"    -> "k_esr_ecall"     \* exception 8, from U-mode
    [] c = "fault"    -> "k_other_exception"
    [] c = "high"     -> "_start_hang"     \* exception 16 and above

\* frames that hold s0-s11, sp and pc as well
Additional(c) == c \in {"timer", "ecall"}

\* Mutant: the stacks are swapped whatever sscratch holds.
SwitchSP_Always(s, scratch) == [sp |-> scratch, sscratch |-> s]

\* K_ISR_SWITCH_SP: a zero in sscratch means S-mode
SwitchSP(s, scratch) ==
  IF scratch # 0 THEN [sp |-> scratch, sscratch |-> s]
                 ELSE [sp |-> s, sscratch |-> scratch]

\* Mutant: the pointer is rounded down to the bottom of the stack.
RecalcTp_RoundsDown(s) == (s \div StackSize) * StackSize - TlsLen

\* _K_ISR_SAVE_RECALC_PTRS: tp from the stack pointer, rounded up
RecalcTp(s) ==
  (IF s % (Processors * StackSize) = 0 THEN s \div StackSize
                                       ELSE s \div StackSize + 1)
    * StackSize - TlsLen

\* Mutant: tp is recomputed before it is saved.
Saved_AfterRecalc(c, s, j) ==
  [i \in 0 .. 31 |-> IF i = 2 THEN RecalcTp(s)
                     ELSE IF i <= 29 THEN regs[i]
                     ELSE IF c # "ecall" THEN j[i] ELSE IF i = 30 THEN s ELSE pc]

\* The frame at s.  A normal one leaves the slots from 18 on, the timer's
\* leaves 30 and 31: they hold what was there.
Saved(c, s, j) ==
  [i \in 0 .. 31 |-> IF i <= 17 \/ (Additional(c) /\ i <= 29) THEN regs[i]
                     ELSE IF c # "ecall" THEN j[i]
                     ELSE IF i = 30 THEN s ELSE pc]

Stale == { [i \in 18 .. 31 |-> IF i = 30 THEN a ELSE b] : a, b \in Junk }

\* The hardware takes the trap, and the entry code runs up to the handler.
Enter(c) ==
  LET k == SwitchSP(sp, sscratch)
      s == k.sp - SaveSpace
  IN
  /\ stage = "run"
  /\ pc <= MaxPC
  /\ c = "ecall" => mode = "U"
  /\ c = "software" => ssie
  /\ Vector(c) # "_start_hang"
  /\ stage' = "handler" /\ cause' = c
  /\ was' = Context
  /\ mode' = "S" /\ spp' = mode
  /\ sepc' = pc
  /\ sp' = s /\ sscratch' = k.sscratch
  /\ \E j \in Stale : frame' = Saved(c, s, j)
  /\ tls' = RecalcTp(s)
  /\ UNCHANGED <<pc, regs, ssie, k_halt, k_local_resume>>

\* A trap without a handler.
Hang(c) ==
  /\ stage = "run"
  /\ Vector(c) = "_start_hang"
  /\ stage' = "hung" /\ cause' = c /\ mode' = "S"
  /\ UNCHANGED <<pc, sp, regs, sscratch, sepc, spp, ssie, frame, tls, was, k_halt,
                 k_local_resume>>

\* A software interrupt sends the hart back into the kernel.
Resuming == cause = "software" /\ k_local_resume

\* The handlers are C++: they keep s0-s11 and use the other registers.  A
\* breakpoint waits until it is continued by hand.
Handler ==
  /\ stage = "handler"
  /\ stage' = IF cause = "fault" THEN "hung" ELSE "exit"
  /\ regs' = [i \in 0 .. 29 |-> IF i >= 18 THEN regs[i] ELSE -1]
  /\ k_halt' = (k_halt \/ cause = "software")
  /\ sepc' = IF Resuming THEN Resume ELSE IF cause = "ebreak" THEN sepc + 2 ELSE sepc
  /\ spp' = IF Resuming THEN "S" ELSE spp
  /\ ssie' = (ssie /\ ~Resuming)
  /\ sscratch' = IF Resuming THEN 0 ELSE sscratch
  /\ frame' = IF cause = "ecall" THEN [frame EXCEPT ![31] = @ + 4] ELSE frame
  /\ UNCHANGED <<cause, mode, pc, sp, tls, was, k_local_resume>>

\* Where the hart should be after the trap: behind the instruction for a
\* breakpoint and a system call, on its kernel stack if it resumes.
Expected ==
  IF Resuming /\ was.mode = "U"
    THEN [mode |-> "S", sp |-> was.sscratch, sscratch |-> 0, pc |-> Resume]
    ELSE [was EXCEPT !.pc = CASE cause = "ebreak" -> @ + 2 [] cause = "ecall" -> @ + 4
                                [] OTHER -> @]

\* Mutant: the way back does not switch the stacks.
Restored_NoSwitch ==
  [sp |-> sp + SaveSpace, sscratch |-> IF Additional(cause) THEN frame[30] ELSE sscratch]

\* the stacks after K_ISR_RESTORE_CONTEXT_NORMAL or _ADDITIONAL and the switch
Restored ==
  SwitchSP(sp + SaveSpace, IF Additional(cause) THEN frame[30] ELSE sscratch)

\* the registers come back, and sret
Exit ==
  /\ stage = "exit"
  /\ regs' = [i \in 0 .. 29 |-> IF i <= 17 \/ Additional(cause) THEN frame[i] ELSE regs[i]]
  /\ sepc' = IF Additional(cause) THEN frame[31] ELSE sepc
  /\ pc' = sepc'
  /\ sp' = Restored.sp /\ sscratch' = Restored.sscratch
  /\ mode' = spp
  /\ stage' = IF Context' = Expected THEN "run" ELSE "lost"
  /\ UNCHANGED <<cause, spp, ssie, frame, tls, was, k_halt, k_local_resume>>

\* Between traps programs go on, and the kernel's stack grows and shrinks.
Work ==
  /\ stage = "run"
  /\ pc' = 0
  /\ IF mode = "S" THEN sp' \in KernelSPs ELSE UNCHANGED sp
  /\ UNCHANGED <<stage, cause, mode, regs, sscratch, sepc, spp, ssie, frame, tls, was,
                 k_halt, k_local_resume>>

TrapNext == Work \/ Handler \/ Exit \/ \E c \in Causes : Enter(c) \/ Hang(c)

TrapSpec == TrapInit /\ [][TrapNext]_trapVars

-----------------------------------------------------------------------------
(* Properties *)

\* What the switch relies on, and what it is for: outside traps sscratch is
\* zero exactly while the kernel runs, and holds a free place on the hart's
\* stack while the user does; a handler then always runs on the hart's own
\* kernel stack, with the user's stack pointer kept (K_ISR_SWITCH_SP).
ScratchTellsMode ==
  /\ stage = "run" => IF mode = "S" THEN sscratch = 0 /\ sp \in KernelSPs
                                    ELSE sscratch \in KernelSPs /\ sp = UserSP
  /\ stage = "handler" => /\ sp + SaveSpace \in KernelSPs
                          /\ sscratch = IF was.mode = "S" THEN 0 ELSE UserSP

\* A trap with a normal frame returns to where it came from, to the mode and
\* the stacks it came from (behind the instruction for a breakpoint), or
\* resumes the kernel on the stack that it left for user mode.
NormalResumes == stage = "lost" => Additional(cause)

\* Every trap that returns gives back all general registers, although the
\* handler has used them and tp and gp were recomputed.
RegsRestored == stage \in {"run", "lost"} => regs = Own

\* "No stack space used, do not add 1 to recover" (k_isr.cpp:77): the handler
\* finds the thread-local storage of its own hart, which prepC.S has put at
\* the top of the hart's stack, from any depth of the stack.
TlsRecovered == stage = "handler" => tls = Top - TlsLen

\* Slot 31 is "PC" and slot 30 "SP" (k_isr.cpp:134, 136): the frame that a
\* trap returns through holds the interrupted program's.
Resumes == stage # "lost"
=============================================================================
