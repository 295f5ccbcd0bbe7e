------------------------------ MODULE HartBoot ------------------------------
(***************************************************************************)
(* Start-up and shut-down of the harts of the kernel: the lottery at       *)
(* _entry (preloader.S), the boot stages run by the winner (lowerenv.c,    *)
(* k_boot.cpp), the hand-shake through k_hart_state that starts the other  *)
(* harts, k_pre_main / k_main / k_after_main run by every hart (k_main.cpp,*)
(* prepC.S) and the wait of k_before_cleanup.                              *)
(*                                                                         *)
(* Grain: one step per access to a variable that another hart reads or     *)
(* writes (k_stage, k_hart_state, the lottery word).  k_hart_state is a    *)
(* std::atomic_int and k_stage a volatile word that only the boot hart     *)
(* writes, so the accesses are taken as sequentially consistent.  What     *)
(* k_boot_sysdev and k_boot_perip do to devices belongs to other modules;  *)
(* here they succeed or return an error.                                   *)
(***************************************************************************)
EXTENDS Integers

CONSTANTS
  Harts,           \* the hart ids listed by syscpu->CPUs()
  MAX_PROCESSORS,  \* K_CONFIG_MAX_PROCESSORS, the length of k_hart_state
  NoHart           \* not a hart id: nobody has won the lottery yet

\* Every id indexes k_hart_state, and id 0 is the value a zeroed TLS block
\* gives ::hartid.
ASSUME HartsAssumption ==
  /\ MAX_PROCESSORS \in Nat \ {0}
  /\ Harts \subseteq 0 .. (MAX_PROCESSORS - 1)
  /\ NoHart \notin Nat

VARIABLES
  lottery,       \* _hart_lottery: how many harts have drawn
  boot,          \* the hart in s0 of _start, the winner of the lottery
  k_stage,       \* volatile k_stage_t k_stage
  k_hart_state,  \* std::atomic_int k_hart_state[K_CONFIG_MAX_PROCESSORS]
  hartid,        \* thread_local int hartid, one per hart
  pc,            \* where each hart is
  todo,          \* the CPUs k_boot_harts has not visited yet
  cur,           \* i, the CPU k_boot_harts is starting
  scan,          \* i, the index of the loop of k_before_cleanup
  reported       \* what k_boot_harts printed about each hart

vars == <<lottery, boot, k_stage, k_hart_state, hartid, pc, todo, cur, scan,
          reported>>

Slots == 0 .. (MAX_PROCESSORS - 1)

\* enum k_stage_t
Stages == {"K_BEFORE_BOOT", "K_BOOT", "K_BOOT_PERIP", "K_BOOT_HARTS",
           "K_MULTICORE", "K_CLEARUP"}

\* Program points that only the winner of the lottery reaches before it
\* joins the code shared by all harts, and after it has left it.
BootPoints == {"k_boot_sysdev", "k_boot_perip", "k_boot_harts", "bh_loop",
               "bh_start", "bh_wait", "bh_check", "bh_reset", "bh_multicore"}
CleanupPoints == {"bc_test", "bc_scan", "bc_clear", "k_cleanup"}

\* k_pre_main, k_main and k_after_main.
PreMainPoints == {"pm_check", "pm_timer", "pm_failed", "pm_ready", "pm_wait"}
MainPoints == {"k_main", "k_after_main"}

Points == {"absent", "stopped", "_entry", "_entry_hang", "_entry_hart",
           "exited", "_start_hang"}
          \cup BootPoints \cup CleanupPoints \cup PreMainPoints \cup MainPoints

Goto(h, p) == pc' = [pc EXCEPT ![h] = p]

\* What SBI HSM answers about hart i: an error for an id the firmware does
\* not know, STOPPED, or one of the states of a hart that runs.
getHartState(i) ==
  IF pc[i] = "absent" THEN "ERROR"
  ELSE IF pc[i] \in {"stopped", "exited"} THEN "STOPPED" ELSE "STARTED"

-----------------------------------------------------------------------------
(* The firmware enters the kernel on one hart or on several at once; the   *)
(* others are stopped, or not known to the firmware at all.                *)
Init ==
  /\ lottery = 0
  /\ boot = NoHart
  /\ k_stage = "K_BEFORE_BOOT"
  /\ k_hart_state = [i \in Slots |-> 0]
  /\ hartid = [h \in Harts |-> 0]
  /\ pc \in [Harts -> {"absent", "stopped", "_entry"}]
  /\ \E h \in Harts : pc[h] = "_entry"
  /\ todo = {}
  /\ cur = NoHart
  /\ scan = 0
  /\ reported = [h \in Harts |-> "none"]

\* Mutant: the word is loaded, not incremented.
Entry_NoAdd(h) ==
  /\ pc[h] = "_entry"
  /\ boot' = h /\ Goto(h, "k_boot_sysdev")
  /\ UNCHANGED <<lottery, k_stage, k_hart_state, hartid, todo, cur, scan, reported>>

\* amoadd.w on _hart_lottery: the hart that reads 0 boots the kernel.
Entry(h) ==
  /\ pc[h] = "_entry"
  /\ lottery' = lottery + 1
  /\ IF lottery = 0
       THEN boot' = h /\ Goto(h, "k_boot_sysdev")
       ELSE boot' = boot /\ Goto(h, "_entry_hang")
  /\ UNCHANGED <<k_stage, k_hart_state, hartid, todo, cur, scan, reported>>

\* k_boot up to the return of k_boot_sysdev.  An error goes to _kernel_exit;
\* running out of memory for the device tree fails before the stage is set.
BootSysdev(h) ==
  /\ pc[h] = "k_boot_sysdev"
  /\ \/ k_stage' = "K_BOOT" /\ Goto(h, "k_boot_perip")
     \/ k_stage' \in {k_stage, "K_BOOT"} /\ Goto(h, "bc_test")
  /\ UNCHANGED <<lottery, boot, k_hart_state, hartid, todo, cur, scan, reported>>

\* k_boot_perip, and _setup_hart, which leaves the start stack.
BootPerip(h) ==
  /\ pc[h] = "k_boot_perip"
  /\ k_stage' = "K_BOOT_PERIP"
  /\ Goto(h, "k_boot_harts") \/ Goto(h, "bc_test")
  /\ UNCHANGED <<lottery, boot, k_hart_state, hartid, todo, cur, scan, reported>>

-----------------------------------------------------------------------------
(* k_boot_harts                                                            *)

\* Mutant: the stage of the end of k_boot_harts is set at its beginning.
BootHartsEnter_Early(h) ==
  /\ pc[h] = "k_boot_harts"
  /\ k_stage' = "K_MULTICORE"
  /\ todo' = Harts \ {h}
  /\ Goto(h, "bh_loop")
  /\ UNCHANGED <<lottery, boot, k_hart_state, hartid, cur, scan, reported>>

\* k_stage = K_BOOT_HARTS; cpus is a copy of the CPU list.
BootHartsEnter(h) ==
  /\ pc[h] = "k_boot_harts"
  /\ k_stage' = "K_BOOT_HARTS"
  /\ todo' = Harts \ {h}
  /\ Goto(h, "bh_loop")
  /\ UNCHANGED <<lottery, boot, k_hart_state, hartid, cur, scan, reported>>

\* The head of the loop.  A hart that is unknown or not stopped is passed
\* over; a stopped one gets its state preset to 1.
BootHartsPick(h) ==
  /\ pc[h] = "bh_loop"
  /\ \E i \in todo :
       /\ todo' = todo \ {i}
       /\ IF getHartState(i) = "STOPPED"
            THEN /\ k_hart_state' = [k_hart_state EXCEPT ![i] = 1]
                 /\ cur' = i
                 /\ Goto(h, "bh_start")
            ELSE UNCHANGED <<k_hart_state, cur, pc>>
  /\ UNCHANGED <<lottery, boot, k_stage, hartid, scan, reported>>

\* SBIF::HSM::startHart succeeds: hart cur begins at _entry_hart.
StartHartOK(h) ==
  /\ pc[h] = "bh_start"
  /\ pc' = [pc EXCEPT ![h] = "bh_wait", ![cur] = "_entry_hart"]
  /\ UNCHANGED <<lottery, boot, k_stage, k_hart_state, hartid, todo, cur, scan,
                 reported>>

\* Mutant: the preset state is not taken back.
StartHartFails_KeepsState(h) ==
  /\ pc[h] = "bh_start"
  /\ reported' = [reported EXCEPT ![cur] = "Failed"]
  /\ Goto(h, "bh_loop")
  /\ UNCHANGED <<lottery, boot, k_stage, k_hart_state, hartid, todo, cur, scan>>

\* SBIF::HSM::startHart returns an error: the state goes back to 0.
StartHartFails(h) ==
  /\ pc[h] = "bh_start"
  /\ k_hart_state' = [k_hart_state EXCEPT ![cur] = 0]
  /\ reported' = [reported EXCEPT ![cur] = "Failed"]
  /\ Goto(h, "bh_loop")
  /\ UNCHANGED <<lottery, boot, k_stage, hartid, todo, cur, scan>>

\* The busy wait ends because the state reached 2 or because three seconds
\* have passed; the second may happen in any state.
WaitHartEnds(h) ==
  /\ pc[h] = "bh_wait"
  /\ Goto(h, "bh_check")
  /\ UNCHANGED <<lottery, boot, k_stage, k_hart_state, hartid, todo, cur, scan,
                 reported>>

\* The state is read again after the wait.
CheckHart(h) ==
  /\ pc[h] = "bh_check"
  /\ IF k_hart_state[cur] >= 2
       THEN Goto(h, "bh_loop") /\ reported' = [reported EXCEPT ![cur] = "OK"]
       ELSE Goto(h, "bh_reset") /\ reported' = [reported EXCEPT ![cur] = "Timeout"]
  /\ UNCHANGED <<lottery, boot, k_stage, k_hart_state, hartid, todo, cur, scan>>

\* After printing "Timeout!" the state is overwritten with 0.
ResetHart(h) ==
  /\ pc[h] = "bh_reset"
  /\ k_hart_state' = [k_hart_state EXCEPT ![cur] = 0]
  /\ Goto(h, "bh_loop")
  /\ UNCHANGED <<lottery, boot, k_stage, hartid, todo, cur, scan, reported>>

\* All CPUs visited: k_hart_state[boot_hartid] = 1 ...
BootHartsDone(h) ==
  /\ pc[h] = "bh_loop"
  /\ todo = {}
  /\ k_hart_state' = [k_hart_state EXCEPT ![h] = 1]
  /\ Goto(h, "bh_multicore")
  /\ UNCHANGED <<lottery, boot, k_stage, hartid, todo, cur, scan, reported>>

\* Mutant: the stage is not switched.
SwitchMulticore_Missing(h) ==
  /\ pc[h] = "bh_multicore"
  /\ Goto(h, "pm_check")
  /\ UNCHANGED <<lottery, boot, k_stage, k_hart_state, hartid, todo, cur, scan,
                 reported>>

\* ... and k_stage = K_MULTICORE releases the harts that wait in k_pre_main.
SwitchMulticore(h) ==
  /\ pc[h] = "bh_multicore"
  /\ k_stage' = "K_MULTICORE"
  /\ Goto(h, "pm_check")
  /\ UNCHANGED <<lottery, boot, k_hart_state, hartid, todo, cur, scan, reported>>

-----------------------------------------------------------------------------
(* Run by every hart                                                       *)

\* _entry_hart and _start_hart up to the call of k_pre_main.
EntryHart(h) ==
  /\ pc[h] = "_entry_hart"
  /\ Goto(h, "pm_check")
  /\ UNCHANGED <<lottery, boot, k_stage, k_hart_state, hartid, todo, cur, scan,
                 reported>>

\* Where a hart goes when k_pre_main fails or k_after_main returns: the boot
\* hart to _kernel_exit, another one to _exit_hart, which stops it.
Leave(h) == Goto(h, IF h = boot THEN "bc_test" ELSE "exited")

\* k_pre_main: a hart whose state is not 1 is not wanted.
PreMainCheck(h) ==
  /\ pc[h] = "pm_check"
  /\ IF k_hart_state[h] = 1 THEN Goto(h, "pm_timer") ELSE Leave(h)
  /\ UNCHANGED <<lottery, boot, k_stage, k_hart_state, hartid, todo, cur, scan,
                 reported>>

\* setTimer(0) works: the hart's thread-locals are initialised.
PreMainTimer(h) ==
  /\ pc[h] = "pm_timer"
  /\ hartid' = [hartid EXCEPT ![h] = h]
  /\ Goto(h, "pm_ready")
  /\ UNCHANGED <<lottery, boot, k_stage, k_hart_state, todo, cur, scan, reported>>

\* setTimer(0) fails: the thread-locals keep their initial values.
PreMainTimerFails(h) ==
  /\ pc[h] = "pm_timer"
  /\ Goto(h, "pm_failed")
  /\ UNCHANGED <<lottery, boot, k_stage, k_hart_state, hartid, todo, cur, scan,
                 reported>>

\* ... and the hart is marked as failed.
PreMainFailed(h) ==
  /\ pc[h] = "pm_failed"
  /\ k_hart_state' = [k_hart_state EXCEPT ![h] = 3]
  /\ Leave(h)
  /\ UNCHANGED <<lottery, boot, k_stage, hartid, todo, cur, scan, reported>>

PreMainReady(h) ==
  /\ pc[h] = "pm_ready"
  /\ k_hart_state' = [k_hart_state EXCEPT ![h] = 2]
  /\ Goto(h, "pm_wait")
  /\ UNCHANGED <<lottery, boot, k_stage, hartid, todo, cur, scan, reported>>

\* while (k_stage != K_MULTICORE) ;
PreMainWait(h) ==
  /\ pc[h] = "pm_wait"
  /\ k_stage = "K_MULTICORE"
  /\ Goto(h, "k_main")
  /\ UNCHANGED <<lottery, boot, k_stage, k_hart_state, hartid, todo, cur, scan,
                 reported>>

\* k_main reads /2.txt and returns 0 (its file operations: module VFS).
Main(h) ==
  /\ pc[h] = "k_main"
  /\ Goto(h, "k_after_main")
  /\ UNCHANGED <<lottery, boot, k_stage, k_hart_state, hartid, todo, cur, scan,
                 reported>>

\* Mutant: the slot of a hart that has returned is cleared.
AfterMain_Clears(h) ==
  /\ pc[h] = "k_after_main"
  /\ k_hart_state' = [k_hart_state EXCEPT ![hartid[h]] = 0]
  /\ Leave(h)
  /\ UNCHANGED <<lottery, boot, k_stage, hartid, todo, cur, scan, reported>>

\* k_after_main marks the hart as returned, through its own ::hartid.
AfterMain(h) ==
  /\ pc[h] = "k_after_main"
  /\ k_hart_state' = [k_hart_state EXCEPT ![hartid[h]] = 3]
  /\ Leave(h)
  /\ UNCHANGED <<lottery, boot, k_stage, hartid, todo, cur, scan, reported>>

-----------------------------------------------------------------------------
(* _kernel_exit: k_before_cleanup and k_cleanup on the boot hart           *)

BeforeCleanup(h) ==
  /\ pc[h] = "bc_test"
  /\ IF k_stage = "K_MULTICORE"
       THEN scan' = 0 /\ Goto(h, "bc_scan")
       ELSE scan' = scan /\ Goto(h, "bc_clear")
  /\ UNCHANGED <<lottery, boot, k_stage, k_hart_state, hartid, todo, cur, reported>>

\* Mutant: only harts that have not got through k_pre_main are waited for.
CleanupScan_IgnoresRunning(h) ==
  /\ pc[h] = "bc_scan"
  /\ scan \in Slots
  /\ scan' = IF scan # hartid[h] /\ k_hart_state[scan] = 1 THEN 0 ELSE scan + 1
  /\ UNCHANGED <<lottery, boot, k_stage, k_hart_state, hartid, pc, todo, cur,
                 reported>>

\* One iteration of the for loop: the hart's own slot is skipped, a slot in
\* state 1 or 2 starts the scan again.
CleanupScan(h) ==
  /\ pc[h] = "bc_scan"
  /\ scan \in Slots
  /\ scan' = IF scan # hartid[h] /\ k_hart_state[scan] \in {1, 2}
               THEN 0 ELSE scan + 1
  /\ UNCHANGED <<lottery, boot, k_stage, k_hart_state, hartid, pc, todo, cur,
                 reported>>

CleanupScanEnds(h) ==
  /\ pc[h] = "bc_scan"
  /\ scan = MAX_PROCESSORS
  /\ Goto(h, "bc_clear")
  /\ UNCHANGED <<lottery, boot, k_stage, k_hart_state, hartid, todo, cur, scan,
                 reported>>

\* k_stage = K_CLEARUP; _kernel_exit then returns to the start stack.
CleanupStage(h) ==
  /\ pc[h] = "bc_clear"
  /\ k_stage' = "K_CLEARUP"
  /\ Goto(h, "k_cleanup")
  /\ UNCHANGED <<lottery, boot, k_hart_state, hartid, todo, cur, scan, reported>>

Cleanup(h) ==
  /\ pc[h] = "k_cleanup"
  /\ Goto(h, "_start_hang")
  /\ UNCHANGED <<lottery, boot, k_stage, k_hart_state, hartid, todo, cur, scan,
                 reported>>

-----------------------------------------------------------------------------
Step(h) ==
  \/ Entry(h) \/ BootSysdev(h) \/ BootPerip(h)
  \/ BootHartsEnter(h) \/ BootHartsPick(h) \/ StartHartOK(h)
  \/ StartHartFails(h) \/ WaitHartEnds(h) \/ CheckHart(h) \/ ResetHart(h)
  \/ BootHartsDone(h) \/ SwitchMulticore(h)
  \/ EntryHart(h) \/ PreMainCheck(h) \/ PreMainTimer(h)
  \/ PreMainTimerFails(h) \/ PreMainFailed(h) \/ PreMainReady(h)
  \/ PreMainWait(h) \/ Main(h) \/ AfterMain(h)
  \/ BeforeCleanup(h) \/ CleanupScan(h) \/ CleanupScanEnds(h)
  \/ CleanupStage(h) \/ Cleanup(h)

Next == \E h \in Harts : Step(h)

Spec == Init /\ [][Next]_vars

\* A hart that can take a step eventually takes one: the code is straight
\* line, its busy waits end with the clock or with another hart's store, and
\* k_main returns at the end of its file.
FairSpec == Spec /\ \A h \in Harts : WF_vars(Step(h))

-----------------------------------------------------------------------------
(* The stacks.  Hart i's stack ends at k_stack_base - i * 8K.  With fewer  *)
(* than 64 CPUs k_stack_base is K_START_STACK_ADDR, so that the start      *)
(* stack used by k_boot and k_cleanup is hart 0's.                         *)

\* Mutant: _setup_hart does not switch the boot hart's stack.
OnStartStack_NoSwitch(h) == h = boot

OnStartStack(h) ==
  \/ pc[h] \in {"k_boot_sysdev", "k_boot_perip", "k_cleanup"}
  \/ pc[h] \in CleanupPoints /\ k_stage \notin {"K_MULTICORE", "K_CLEARUP"}

StackSlot(h) == IF OnStartStack(h) THEN 0 ELSE h

Running(h) ==
  pc[h] \in BootPoints \cup CleanupPoints \cup PreMainPoints \cup MainPoints
            \cup {"_entry_hart"}

-----------------------------------------------------------------------------
(* Properties                                                              *)

TypeOK ==
  /\ lottery \in Nat
  /\ boot \in Harts \cup {NoHart}
  /\ k_stage \in Stages
  /\ k_hart_state \in [Slots -> 0 .. 3]
  /\ hartid \in [Harts -> Slots]
  /\ pc \in [Harts -> Points]
  /\ todo \in SUBSET Harts
  /\ cur \in Harts \cup {NoHart}
  /\ scan \in 0 .. MAX_PROCESSORS
  /\ reported \in [Harts -> {"none", "OK", "Timeout", "Failed"}]

\* However many harts the firmware enters at once, at most one of them runs
\* the boot sequence or the shut-down (the amoadd of _entry).
OneBootHart ==
  \A g, h \in Harts :
    pc[g] \in BootPoints \cup CleanupPoints /\
    pc[h] \in BootPoints \cup CleanupPoints => g = h

\* No hart is in k_main before the boot hart has visited every CPU and has
\* left k_boot_harts: the spin on k_stage in k_pre_main is a barrier.
MainAfterBoot ==
  (\E h \in Harts : pc[h] \in MainPoints) =>
    /\ k_stage \in {"K_MULTICORE", "K_CLEARUP"}
    /\ todo = {}
    /\ \A b \in Harts : pc[b] \notin BootPoints

\* k_before_cleanup lets K_CLEARUP begin only after every hart reported "OK!"
\* has left k_main, except the one hart whose slot the scan takes for its own:
\* ::hartid of a boot hart whose timer failed is still 0.
CleanupAfterOK ==
  k_stage = "K_CLEARUP" =>
    \A h \in Harts :
      reported[h] = "OK" => pc[h] = "exited" \/ h = hartid[boot]

\* Two harts never run on one stack, except that k_cleanup, back on the start
\* stack, may meet hart 0 if hart 0 was given up after the timeout or is the
\* slot that the scan of k_before_cleanup skipped.
StackExclusive ==
  \A g, h \in Harts :
    g # h /\ Running(g) /\ Running(h) /\ StackSlot(g) = StackSlot(h) =>
      \E x \in {g, h} :
        x # boot /\ (reported[x] = "Timeout" \/ x = hartid[boot])

\* The store that gives a hart up takes back a slot at most when the boot hart
\* has reported that hart: no other store of k_hart_state lowers it.
OnlyBootRevokes ==
  [][\A h \in Harts : k_hart_state'[h] < k_hart_state[h] =>
       reported'[h] \in {"Timeout", "Failed"}]_vars

\* The kernel always reaches the end of k_cleanup: no hart that failed to
\* start, failed its timer or was given up keeps k_before_cleanup waiting.
KernelExits == <>(\E h \in Harts : pc[h] = "_start_hang")

\* A hart reported "OK!" runs to its end and stops, except the one that the
\* scan of k_before_cleanup skips (CleanupAfterOK).
OKHartStops ==
  \A h \in Harts :
    reported[h] = "OK" ~>
      \/ pc[h] = "exited"
      \/ k_stage = "K_CLEARUP" /\ hartid[boot] = h

\* "Not desired to be bootup, maybe timeout, or failed" (k_main.cpp:24): a
\* hart the boot hart has given up does not get into k_main.
TimedOutStaysOut ==
  \A h \in Harts : reported[h] = "Timeout" => pc[h] \notin MainPoints

\* "> Waiting for other harts to return..." (k_boot.cpp:339): every hart
\* reported "OK!" has returned when K_CLEARUP begins.
OKHartsReturned ==
  k_stage = "K_CLEARUP" =>
    \A h \in Harts : reported[h] = "OK" => pc[h] = "exited"
=============================================================================
