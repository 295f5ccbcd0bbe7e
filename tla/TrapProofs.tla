----------------------------- MODULE TrapProofs -----------------------------
(***************************************************************************)
(* Traps give back what they interrupted, for stacks of any size, frames   *)
(* at any depth, and any sequence of traps.                                *)
(***************************************************************************)
EXTENDS Trap, TLAPS

\* A context between traps: the kernel's, with its stack in sp, or the user's,
\* with the kernel's stack in sscratch.
Sound(c) ==
  /\ c = [mode |-> c.mode, sp |-> c.sp, sscratch |-> c.sscratch, pc |-> c.pc]
  /\ \/ c.mode = "S" /\ c.sscratch = 0 /\ c.sp \in KernelSPs
     \/ c.mode = "U" /\ c.sscratch \in KernelSPs /\ c.sp = UserSP

KernelSP(c) == IF c.mode = "S" THEN c.sp ELSE c.sscratch
Other(c)    == IF c.mode = "S" THEN 0 ELSE c.sp

\* The frame holds the registers that its kind has room for.
FrameOwn ==
  \A i \in 0 .. 29 : i <= 17 \/ Additional(cause) => frame[i] = i

\* While a trap is handled.
InTrap ==
  /\ Sound(was) /\ FrameOwn
  /\ sp = KernelSP(was) - SaveSpace
  /\ Resuming => was.mode = "U"

TrapInv ==
  /\ stage \in {"run", "handler", "exit", "hung", "lost"}
  /\ stage = "run" => Sound(Context) /\ regs = Own
  /\ stage = "run" /\ k_local_resume /\ ssie => mode = "U"
  /\ stage = "handler" =>
       /\ InTrap /\ regs = Own
       /\ sscratch = Other(was) /\ spp = was.mode /\ sepc = was.pc
       /\ tls = RecalcTp(sp)
       /\ k_local_resume /\ ssie => was.mode = "U"
  /\ stage = "exit" =>
       /\ InTrap
       /\ \E r \in [0 .. 29 -> Int] : regs = r /\ \A i \in 18 .. 29 : r[i] = i
       /\ sscratch = IF Resuming THEN 0 ELSE Other(was)
       /\ spp = IF Resuming THEN "S" ELSE was.mode
       /\ ~Additional(cause) => sepc = Expected.pc
       /\ Resuming => ~ssie
       /\ k_local_resume /\ ssie => was.mode = "U"
  /\ stage = "lost" => Additional(cause) /\ regs = Own

\* The kernel's stack lies above address 0.
LEMMA StackPointers == KernelSPs \subseteq Int /\ 0 \notin KernelSPs /\ UserSP # 0 /\ SaveSpace \in Int
<1>1. Hart * StackSize \in Nat /\ (Hart + 1) * StackSize = Hart * StackSize + StackSize
  BY TrapAssumption
<1>2. Top \in Int /\ Top >= StackSize
  BY <1>1, TrapAssumption DEF Top
<1> QED
  BY <1>2, TrapAssumption DEF KernelSPs

LEMMA InitInv == TrapInit => TrapInv
<1> SUFFICES ASSUME TrapInit PROVE TrapInv
  OBVIOUS
<1>1. Sound(Context)
  BY DEF TrapInit, Sound, Context
<1> QED
  BY <1>1, Zenon DEF TrapInit, TrapInv

LEMMA EnterInv ==
  ASSUME TrapInv, NEW c \in Causes, Enter(c)
  PROVE  TrapInv'
<1> USE StackPointers
<1>1. stage = "run" /\ stage' = "handler" /\ cause' = c /\ was' = Context
  BY DEF Enter
<1>2. Sound(Context) /\ regs = Own
  BY <1>1 DEF TrapInv
<1>3. Sound(was')
  BY <1>1, <1>2 DEF Sound, KernelSPs, Top
<1>4. was'.mode = mode /\ was'.sp = sp /\ was'.sscratch = sscratch /\ was'.pc = pc
  BY <1>1 DEF Context
<1>5. SwitchSP(sp, sscratch).sp = KernelSP(Context)
      /\ SwitchSP(sp, sscratch).sscratch = Other(Context)
  BY <1>2 DEF SwitchSP, KernelSP, Other, Context, Sound
<1>6. sp' = KernelSP(was') - SaveSpace /\ sscratch' = Other(was')
  BY <1>1, <1>5 DEF Enter, KernelSP, Other
<1>7. FrameOwn'
  <2>1. PICK j \in Stale : frame' = Saved(c, SwitchSP(sp, sscratch).sp - SaveSpace, j)
    BY DEF Enter
  <2> QED
    BY <1>1, <1>2, <2>1 DEF FrameOwn, Saved, Own, Additional
<1>8. Resuming' => was'.mode = "U"
  BY <1>1, <1>4 DEF Enter, Resuming, TrapInv
<1>9. tls' = RecalcTp(sp)' /\ spp' = mode /\ sepc' = pc /\ regs' = regs
      /\ UNCHANGED <<k_local_resume, ssie>>
  BY DEF Enter, RecalcTp
<1>10. (k_local_resume /\ ssie)' => was'.mode = "U"
  BY <1>1, <1>4, <1>9 DEF TrapInv
<1> QED
  BY <1>1, <1>2, <1>3, <1>4, <1>6, <1>7, <1>8, <1>9, <1>10 DEF TrapInv, InTrap, Own

LEMMA HandlerInv ==
  ASSUME TrapInv, Handler
  PROVE  TrapInv'
<1>1. stage = "handler" /\ stage' \in {"hung", "exit"}
      /\ UNCHANGED <<cause, sp, tls, was, k_local_resume>>
  BY DEF Handler
<1>2. InTrap /\ regs = Own /\ sscratch = Other(was) /\ spp = was.mode /\ sepc = was.pc
      /\ (k_local_resume /\ ssie => was.mode = "U")
  BY <1>1 DEF TrapInv
<1>3. FrameOwn'
  BY <1>1, <1>2 DEF Handler, FrameOwn, InTrap, Additional
<1>4. InTrap'
  BY <1>1, <1>2, <1>3 DEF InTrap, Resuming, Sound, KernelSP, KernelSPs, Top
<1>5. \E r \in [0 .. 29 -> Int] : regs' = r /\ \A i \in 18 .. 29 : r[i] = i
  <2>1. regs' \in [0 .. 29 -> Int] /\ \A i \in 18 .. 29 : regs'[i] = i
    BY <1>2 DEF Handler, Own
  <2> QED
    BY <2>1
<1>6. (~Additional(cause) => sepc = Expected.pc)'
  BY <1>1, <1>2 DEF Handler, Additional, Expected, Resuming, InTrap, Sound
<1>7. Resuming' <=> Resuming
  BY <1>1 DEF Resuming
<1>8. sscratch' = (IF Resuming THEN 0 ELSE Other(was))'
  BY <1>1, <1>2, <1>7 DEF Handler, Other
<1>9. spp' = (IF Resuming THEN "S" ELSE was.mode)'
  BY <1>1, <1>2, <1>7 DEF Handler
<1>10. (ssie' => ssie) /\ (Resuming' => ~ssie')
  BY <1>7, Zenon DEF Handler
<1>11. (k_local_resume /\ ssie)' => was'.mode = "U"
  BY <1>1, <1>2, <1>10
<1> QED
  BY <1>1, <1>4, <1>5, <1>6, <1>8, <1>9, <1>10, <1>11 DEF TrapInv

\* The stacks after a normal frame are those of the expected context.
LEMMA ExitInv ==
  ASSUME TrapInv, Exit
  PROVE  TrapInv'
<1> USE StackPointers
<1>1. stage = "exit" /\ InTrap
      /\ UNCHANGED <<cause, spp, ssie, frame, tls, was, k_local_resume>>
  BY DEF Exit, TrapInv
<1>2. regs' = Own
  BY <1>1 DEF TrapInv, Exit, InTrap, FrameOwn, Own
<1>3. Sound(was) /\ sp + SaveSpace = KernelSP(was) /\ (Resuming => was.mode = "U")
  BY <1>1 DEF InTrap, KernelSP, Sound
<1>4. Sound(Expected)
  BY <1>3 DEF Sound, Expected
<1>5. ASSUME ~Additional(cause) PROVE Context' = Expected
  <2>1. Restored = SwitchSP(KernelSP(was), IF Resuming THEN 0 ELSE Other(was))
    BY <1>1, <1>3, <1>5 DEF Restored, TrapInv
  <2>2. Restored.sp = Expected.sp /\ Restored.sscratch = Expected.sscratch
    BY <1>3, <2>1 DEF SwitchSP, KernelSP, Other, Sound, Expected
  <2>3. spp = Expected.mode
    BY <1>1, <1>3 DEF TrapInv, Expected, Sound
  <2>4. sepc' = Expected.pc
    BY <1>1, <1>5 DEF Exit, TrapInv
  <2> QED
    BY <1>4, <2>2, <2>3, <2>4 DEF Exit, Context, Sound
<1>6. CASE stage' = "lost"
  <2>1. Additional(cause)
    BY <1>5, <1>6 DEF Exit
  <2> QED
    BY <1>1, <1>2, <1>6, <2>1 DEF TrapInv, Additional, Own
<1>7. CASE stage' = "run"
  <2>1. Context' = Expected
    BY <1>7 DEF Exit
  <2>2. Sound(Context')
    BY <1>4, <2>1
  <2>3. (k_local_resume /\ ssie)' => mode' = "U"
    <3>1. mode' = Expected.mode
      BY <2>1 DEF Context
    <3>2. CASE Resuming
      BY <1>1, <3>2 DEF TrapInv
    <3>3. CASE ~Resuming
      BY <1>1, <1>3, <3>1, <3>3 DEF TrapInv, Expected, Sound
    <3> QED
      BY <3>2, <3>3
  <2> QED
    BY <1>2, <1>7, <2>2, <2>3 DEF TrapInv, Sound, Own, KernelSPs, Top
<1> QED
  BY <1>6, <1>7 DEF Exit

LEMMA StepInv == TrapInv /\ [TrapNext]_trapVars => TrapInv'
<1> SUFFICES ASSUME TrapInv, [TrapNext]_trapVars PROVE TrapInv'
  OBVIOUS
<1>1. CASE Work
  <2>1. stage = "run" /\ Sound(Context) /\ UNCHANGED <<stage, mode, sscratch, regs, k_local_resume, ssie>>
    BY <1>1 DEF Work, TrapInv
  <2>2. Sound(Context')
    BY <1>1, <2>1 DEF Work, Context, Sound
  <2> QED
    BY <2>1, <2>2 DEF TrapInv, Sound, KernelSPs, Top, Own
<1>2. CASE Handler
  BY <1>2, HandlerInv
<1>3. CASE Exit
  BY <1>3, ExitInv
<1>4. ASSUME NEW c \in Causes, Enter(c) PROVE TrapInv'
  BY <1>4, EnterInv
<1>5. ASSUME NEW c \in Causes, Hang(c) PROVE TrapInv'
  <2>1. stage' = "hung"
    BY <1>5 DEF Hang
  <2> QED
    BY <2>1 DEF TrapInv
<1>6. CASE UNCHANGED trapVars
  BY <1>6 DEF trapVars, TrapInv, InTrap, FrameOwn, Resuming, Expected, Context, Sound,
              KernelSP, KernelSPs, Top, Other, Additional, RecalcTp, Own
<1> QED
  BY <1>1, <1>2, <1>3, <1>4, <1>5, <1>6 DEF TrapNext

LEMMA AlwaysInv == TrapSpec => []TrapInv
  BY InitInv, StepInv, PTL DEF TrapSpec

\* sscratch tells K_ISR_SWITCH_SP the mode a trap comes from, whatever traps
\* came before.
THEOREM ScratchSound == TrapSpec => []ScratchTellsMode
<1>1. TrapInv => ScratchTellsMode
  BY StackPointers DEF TrapInv, ScratchTellsMode, InTrap, Sound, Context, Other, KernelSP
<1> QED
  BY <1>1, AlwaysInv, PTL

\* Every trap with a normal frame comes back to the context it interrupted,
\* or to the kernel if it was to resume there.
THEOREM NormalComesBack == TrapSpec => []NormalResumes
<1>1. TrapInv => NormalResumes
  BY DEF TrapInv, NormalResumes
<1> QED
  BY <1>1, AlwaysInv, PTL

\* The save and restore sequences give back every general register.
THEOREM RegistersComeBack == TrapSpec => []RegsRestored
<1>1. TrapInv => RegsRestored
  BY DEF TrapInv, RegsRestored
<1> QED
  BY <1>1, AlwaysInv, PTL

-----------------------------------------------------------------------------
(* Thread-local storage: found if the stacks start at a multiple of their  *)
(* size, as they do when all harts fit below K_START_STACK_ADDR.            *)

LEMMA Between ==
  ASSUME NEW n \in Nat \ {0}, NEW a \in Int, NEW b \in Int, (a - 1) * n < b * n, b * n < a * n
  PROVE  FALSE
<1>1. CASE b >= a
  <2>1. (b - a) * n >= 0
    BY <1>1
  <2> QED
    BY <2>1
<1>2. CASE b <= a - 1
  <2>1. (a - 1 - b) * n >= 0
    BY <1>2
  <2> QED
    BY <2>1
<1> QED
  BY <1>1, <1>2

LEMMA Division ==
  ASSUME NEW s \in Int, NEW n \in Nat \ {0}
  PROVE  /\ s \div n \in Int /\ s % n \in 0 .. n - 1
         /\ s = (s \div n) * n + (s % n)
  BY SMT

\* A pointer inside the stack below t * n rounds up to t.
LEMMA RoundUp ==
  ASSUME NEW n \in Nat \ {0}, NEW t \in Int, NEW s \in Int,
         (t - 1) * n < s, s < t * n
  PROVE  s \div n + 1 = t /\ s % n # 0
<1> DEFINE q == s \div n
           r == s % n
<1>1. q \in Int /\ r \in 0 .. n - 1 /\ s = q * n + r
  BY Division
<1> HIDE DEF q, r
<1>2. q < t
  <2> SUFFICES ASSUME q >= t PROVE FALSE
    BY <1>1
  <2>1. (q - t) * n >= 0
    BY <1>1
  <2> QED
    BY <1>1, <2>1
<1>3. q >= t - 1
  <2> SUFFICES ASSUME t - 2 - q >= 0 PROVE FALSE
    BY <1>1
  <2>1. (t - 2 - q) * n >= 0
    BY <1>1
  <2> QED
    BY <1>1, <2>1
<1>4. q = t - 1
  BY <1>1, <1>2, <1>3
<1>5. r # 0
  BY <1>1, <1>4
<1> QED
  BY <1>4, <1>5 DEF q, r

\* A multiple of all the stacks together is a multiple of one.
LEMMA MultipleOfAll ==
  ASSUME NEW n \in Nat \ {0}, NEW p \in Nat \ {0}, NEW s \in Int, s % (p * n) = 0
  PROVE  s % n = 0
<1>1. p * n \in Nat \ {0}
  BY SMT
<1>2. PICK q \in Int : s = q * (p * n)
  <2> DEFINE d == p * n
             w == s \div d
  <2>1. s = w * d + 0 /\ w \in Int /\ d \in Nat
    BY <1>1, Division, Zenon
  <2> HIDE DEF w
  <2>2. s = w * d
    BY <2>1
  <2> QED
    BY <2>1, <2>2
<1>3. s = (q * p) * n /\ q * p \in Int
  BY <1>2
<1> DEFINE u == s \div n
           r == s % n
           v == q * p
<1>4. u \in Int /\ r \in 0 .. n - 1 /\ s = u * n + r
  BY Division
<1>5. v \in Int /\ s = v * n
  BY <1>3
<1> SUFFICES ASSUME r # 0 PROVE FALSE
  OBVIOUS
<1> HIDE DEF u, r, v
<1>6. (u + 1 - 1) * n < v * n /\ v * n < (u + 1) * n
  BY <1>4, <1>5
<1> QED
  BY <1>4, <1>5, <1>6, Between

\* The handler's tp is that of its hart from every depth of the stack, if
\* k_stack_base is a multiple of the stack size.
THEOREM TlsFound ==
  ASSUME StackBase % StackSize = 0
  PROVE  TrapSpec => []TlsRecovered
<1>1. TrapInv => TlsRecovered
  <2> SUFFICES ASSUME TrapInv, stage = "handler" PROVE tls = Top - TlsLen
    BY DEF TlsRecovered
  <2> DEFINE t == StackBase \div StackSize - Hart
             s == KernelSP(was) - SaveSpace
  <2>1. t \in Int /\ Top = t * StackSize
    <3>1. StackBase = (StackBase \div StackSize) * StackSize /\ StackBase \div StackSize \in Int
      BY TrapAssumption, Division
    <3> QED
      BY <3>1, TrapAssumption DEF Top
  <2>2. tls = RecalcTp(s) /\ KernelSP(was) \in KernelSPs
    BY DEF TrapInv, InTrap, Sound, KernelSP
  <2> HIDE DEF t
  <2>3. (t - 1) * StackSize = Top - StackSize
    BY <2>1, TrapAssumption
  <2>4. s \in Int /\ (t - 1) * StackSize < s /\ s < t * StackSize
    <3>1. Top \in Int
      BY <2>1, TrapAssumption
    <3> QED
      BY <2>1, <2>2, <2>3, <3>1, TrapAssumption DEF KernelSPs
  <2> HIDE DEF s
  <2>5. s \div StackSize + 1 = t /\ s % StackSize # 0
    BY <2>1, <2>4, RoundUp, TrapAssumption
  <2>6. s % (Processors * StackSize) # 0
    BY <2>4, <2>5, MultipleOfAll, TrapAssumption
  <2> QED
    BY <2>1, <2>2, <2>5, <2>6 DEF RecalcTp
<1> QED
  BY <1>1, AlwaysInv, PTL

=============================================================================
