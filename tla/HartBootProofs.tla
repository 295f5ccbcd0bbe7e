---------------------------- MODULE HartBootProofs ----------------------------
(***************************************************************************)
(* The safety properties of HartBoot for any set of harts.                 *)
(***************************************************************************)
EXTENDS HartBoot, TLAPS

\* Points of a hart that has not been started by the boot hart.
IdlePoints == {"absent", "stopped", "_entry", "_entry_hang"}

\* Points of the boot hart while it deals with hart cur.
CurPoints == {"bh_start", "bh_wait", "bh_check", "bh_reset"}

\* Points of the boot hart inside the loop of k_boot_harts.
LoopPoints == CurPoints \cup {"bh_loop"}

\* Only the winner of the lottery boots and cleans up, and until there is a
\* winner nothing has happened.
BootInv ==
  /\ boot = NoHart =>
       /\ lottery = 0
       /\ k_stage = "K_BEFORE_BOOT"
       /\ todo = {}
       /\ \A h \in Harts : pc[h] \in IdlePoints
  /\ boot # NoHart => lottery > 0 /\ pc[boot] \notin IdlePoints \cup {"_entry_hart", "exited"}
  /\ \A h \in Harts :
       pc[h] \in BootPoints \cup CleanupPoints \cup {"_start_hang"} => h = boot

\* The stage is the one of the point the boot hart has reached.
StageInv ==
  boot # NoHart =>
    /\ pc[boot] = "k_boot_sysdev" => k_stage = "K_BEFORE_BOOT"
    /\ pc[boot] = "k_boot_perip" => k_stage = "K_BOOT"
    /\ pc[boot] = "k_boot_harts" => k_stage = "K_BOOT_PERIP"
    /\ pc[boot] \in LoopPoints \cup {"bh_multicore"} => k_stage = "K_BOOT_HARTS"
    /\ pc[boot] \in PreMainPoints \cup MainPoints \cup {"bc_scan"} => k_stage = "K_MULTICORE"
    /\ pc[boot] \in {"bc_test", "bc_clear"} => k_stage \notin {"K_BOOT_HARTS", "K_CLEARUP"}
    /\ pc[boot] \in {"k_cleanup", "_start_hang"} => k_stage = "K_CLEARUP"

\* The loop of k_boot_harts: harts it has not visited are not running, and
\* hart cur has not been reported before it is given up.
LoopInv ==
  /\ todo # {} => boot # NoHart /\ pc[boot] \in LoopPoints
  /\ \A h \in todo : h # boot /\ pc[h] \in IdlePoints /\ reported[h] = "none"
  /\ boot # NoHart /\ pc[boot] \in CurPoints =>
       /\ cur \in Harts
       /\ cur # boot
       /\ cur \notin todo
       /\ reported[cur] = IF pc[boot] = "bh_reset" THEN "Timeout" ELSE "none"
       /\ pc[boot] = "bh_start" => pc[cur] \in IdlePoints
  /\ k_stage \in {"K_BEFORE_BOOT", "K_BOOT", "K_BOOT_PERIP"} =>
       \A h \in Harts : reported[h] = "none" /\ pc[h] # "exited"

\* The other harts: one that runs has been reported, or is about to be; its
\* slot tells where it is; its ::hartid is its own from k_pre_main on.
HartInv ==
  \A h \in Harts :
    /\ pc[h] \in {"pm_ready", "pm_wait"} \cup MainPoints => hartid[h] = h
    /\ pc[h] \in MainPoints => k_stage \in {"K_MULTICORE", "K_CLEARUP"}
    /\ h # boot =>
         /\ k_hart_state[h] = 2 => pc[h] \in {"pm_wait"} \cup MainPoints
         /\ k_hart_state[h] = 3 => pc[h] = "exited"
         /\ pc[h] \notin IdlePoints \cup {"exited"} =>
              \/ reported[h] \in {"OK", "Timeout"}
              \/ h = cur /\ boot # NoHart /\ pc[boot] \in {"bh_wait", "bh_check"}

\* The slot of a hart reported "OK!" is 2 until it returns, and 3 when the
\* scan of k_before_cleanup has passed it.
OKInv ==
  \A h \in Harts :
    reported[h] = "OK" =>
      /\ h # boot
      /\ k_hart_state[h] \in {2, 3}
      /\ boot # NoHart /\ h # hartid[boot] /\
         (\/ pc[boot] = "bc_scan" /\ h < scan
          \/ pc[boot] \in {"bc_clear", "k_cleanup", "_start_hang"})
           => k_hart_state[h] = 3

IInv == TypeOK /\ BootInv /\ StageInv /\ LoopInv /\ HartInv /\ OKInv

-----------------------------------------------------------------------------
\* The initial states of HartBoot satisfy the inductive invariant.
LEMMA InitIInv == Init => IInv
<1> SUFFICES ASSUME Init PROVE IInv
  OBVIOUS
<1> USE HartsAssumption DEF Init
<1>1. TypeOK
  BY DEF TypeOK, Points, Slots, Stages
<1>2. BootInv /\ StageInv /\ LoopInv
  BY DEF BootInv, StageInv, LoopInv, IdlePoints, LoopPoints, CurPoints,
         BootPoints, CleanupPoints
<1>3. HartInv /\ OKInv
  BY DEF HartInv, OKInv, IdlePoints, MainPoints, Slots
<1> QED
  BY <1>1, <1>2, <1>3 DEF IInv

\* Every step of HartBoot preserves the inductive invariant.
LEMMA StepIInv == ASSUME IInv, [Next]_vars PROVE IInv'
<1> USE HartsAssumption DEF IInv, IdlePoints, CurPoints, LoopPoints, BootPoints,
        CleanupPoints, PreMainPoints, MainPoints, Goto, Leave
<1>1. CASE UNCHANGED vars
  BY <1>1 DEF vars, TypeOK, BootInv, StageInv, LoopInv, HartInv, OKInv
<1>2. ASSUME NEW h \in Harts, Step(h) PROVE IInv'
  <2>1. CASE Entry(h)
    <3>1. TypeOK'
      BY <2>1, SMTT(40) DEF Entry, TypeOK, Points, Slots, Stages
    <3>2. BootInv'
      BY <2>1 DEF Entry, TypeOK, BootInv
    <3>3. StageInv'
      BY <2>1 DEF Entry, TypeOK, BootInv, StageInv
    <3>4. LoopInv'
      BY <2>1 DEF Entry, TypeOK, BootInv, StageInv, LoopInv
    <3>5. HartInv'
      BY <2>1 DEF Entry, TypeOK, BootInv, StageInv, LoopInv, HartInv, Slots
    <3>6. OKInv'
      BY <2>1 DEF Entry, TypeOK, BootInv, StageInv, LoopInv, HartInv, OKInv,
         Slots
    <3> QED
      BY <3>1, <3>2, <3>3, <3>4, <3>5, <3>6
  <2>2. CASE BootSysdev(h)
    <3>1. TypeOK'
      BY <2>2 DEF BootSysdev, TypeOK, Points, Slots, Stages
    <3>2. BootInv'
      BY <2>2 DEF BootSysdev, TypeOK, BootInv
    <3>3. StageInv'
      BY <2>2 DEF BootSysdev, TypeOK, BootInv, StageInv
    <3>4. LoopInv'
      BY <2>2 DEF BootSysdev, TypeOK, BootInv, StageInv, LoopInv
    <3>5. HartInv'
      BY <2>2 DEF BootSysdev, TypeOK, BootInv, StageInv, LoopInv, HartInv,
         Slots
    <3>6. OKInv'
      BY <2>2 DEF BootSysdev, TypeOK, BootInv, StageInv, LoopInv, HartInv,
         OKInv, Slots
    <3> QED
      BY <3>1, <3>2, <3>3, <3>4, <3>5, <3>6
  <2>3. CASE BootPerip(h)
    <3>1. TypeOK'
      BY <2>3, Zenon DEF BootPerip, TypeOK, Points, Slots, Stages
    <3>2. BootInv'
      BY <2>3 DEF BootPerip, TypeOK, BootInv
    <3>3. StageInv'
      BY <2>3 DEF BootPerip, TypeOK, BootInv, StageInv
    <3>4. LoopInv'
      BY <2>3 DEF BootPerip, TypeOK, BootInv, StageInv, LoopInv
    <3>5. HartInv'
      BY <2>3 DEF BootPerip, TypeOK, BootInv, StageInv, LoopInv, HartInv, Slots
    <3>6. OKInv'
      BY <2>3 DEF BootPerip, TypeOK, BootInv, StageInv, LoopInv, HartInv,
         OKInv, Slots
    <3> QED
      BY <3>1, <3>2, <3>3, <3>4, <3>5, <3>6
  <2>4. CASE BootHartsEnter(h)
    <3>1. TypeOK'
      BY <2>4 DEF BootHartsEnter, TypeOK, Points, Slots, Stages
    <3>2. BootInv'
      BY <2>4 DEF BootHartsEnter, TypeOK, BootInv
    <3>3. StageInv'
      BY <2>4 DEF BootHartsEnter, TypeOK, BootInv, StageInv
    <3>4. LoopInv'
      BY <2>4 DEF BootHartsEnter, TypeOK, BootInv, StageInv, LoopInv, HartInv
    <3>5. HartInv'
      BY <2>4 DEF BootHartsEnter, TypeOK, BootInv, StageInv, LoopInv, HartInv,
         Slots
    <3>6. OKInv'
      BY <2>4 DEF BootHartsEnter, TypeOK, BootInv, StageInv, LoopInv, HartInv,
         OKInv, Slots
    <3> QED
      BY <3>1, <3>2, <3>3, <3>4, <3>5, <3>6
  <2>5. CASE BootHartsPick(h)
    <3>1. TypeOK'
      <4> PICK i \in todo :
            /\ todo' = todo \ {i}
            /\ IF getHartState(i) = "STOPPED"
                 THEN /\ k_hart_state' = [k_hart_state EXCEPT ![i] = 1]
                      /\ cur' = i
                      /\ Goto(h, "bh_start")
                 ELSE UNCHANGED <<k_hart_state, cur, pc>>
        BY <2>5 DEF BootHartsPick
      <4>1. i \in Harts /\ i \in Slots
        BY DEF TypeOK, Slots
      <4>2. k_hart_state' \in [Slots -> 0 .. 3]
        BY <4>1 DEF TypeOK
      <4>3. pc' \in [Harts -> Points] /\ cur' \in Harts \cup {NoHart}
        BY <4>1 DEF TypeOK, Points
      <4> QED
        BY <2>5, <4>2, <4>3 DEF BootHartsPick, TypeOK
    <3>2. BootInv'
      BY <2>5 DEF BootHartsPick, TypeOK, BootInv
    <3>3. StageInv'
      BY <2>5 DEF BootHartsPick, TypeOK, BootInv, StageInv
    <3>4. LoopInv'
      BY <2>5, SMTT(40) DEF BootHartsPick, getHartState, TypeOK, BootInv, StageInv,
         LoopInv, HartInv, OKInv, Slots
    <3>5. HartInv'
      BY <2>5, SMTT(30) DEF BootHartsPick, getHartState, TypeOK, BootInv, StageInv,
         LoopInv, HartInv, OKInv, Slots
    <3>6. OKInv'
      BY <2>5, SMTT(30) DEF BootHartsPick, getHartState, TypeOK, BootInv, StageInv,
         LoopInv, HartInv, OKInv, Slots
    <3> QED
      BY <3>1, <3>2, <3>3, <3>4, <3>5, <3>6
  <2>6. CASE StartHartOK(h)
    <3>1. TypeOK'
      BY <2>6, Zenon DEF StartHartOK, TypeOK, Points, Slots, Stages
    <3>2. BootInv'
      BY <2>6 DEF StartHartOK, TypeOK, BootInv
    <3>3. StageInv'
      BY <2>6 DEF StartHartOK, TypeOK, BootInv, StageInv
    <3>4. LoopInv'
      BY <2>6 DEF StartHartOK, TypeOK, BootInv, StageInv, LoopInv
    <3>5. HartInv'
      BY <2>6 DEF StartHartOK, TypeOK, BootInv, StageInv, LoopInv, HartInv,
         Slots
    <3>6. OKInv'
      BY <2>6 DEF StartHartOK, TypeOK, BootInv, StageInv, LoopInv, HartInv,
         OKInv, Slots
    <3> QED
      BY <3>1, <3>2, <3>3, <3>4, <3>5, <3>6
  <2>7. CASE StartHartFails(h)
    <3>1. TypeOK'
      BY <2>7 DEF StartHartFails, TypeOK, BootInv, LoopInv, Points, Slots
    <3>2. BootInv'
      BY <2>7 DEF StartHartFails, TypeOK, BootInv
    <3>3. StageInv'
      BY <2>7 DEF StartHartFails, TypeOK, BootInv, StageInv
    <3>4. LoopInv'
      BY <2>7 DEF StartHartFails, TypeOK, BootInv, StageInv, LoopInv
    <3>5. HartInv'
      BY <2>7 DEF StartHartFails, TypeOK, BootInv, StageInv, LoopInv, HartInv,
         Slots
    <3>6. OKInv'
      BY <2>7 DEF StartHartFails, TypeOK, BootInv, StageInv, LoopInv, HartInv,
         OKInv, Slots
    <3> QED
      BY <3>1, <3>2, <3>3, <3>4, <3>5, <3>6
  <2>8. CASE WaitHartEnds(h)
    <3>1. TypeOK'
      BY <2>8 DEF WaitHartEnds, TypeOK, Points, Slots, Stages
    <3>2. BootInv'
      BY <2>8 DEF WaitHartEnds, TypeOK, BootInv
    <3>3. StageInv'
      BY <2>8 DEF WaitHartEnds, TypeOK, BootInv, StageInv
    <3>4. LoopInv'
      BY <2>8 DEF WaitHartEnds, TypeOK, BootInv, StageInv, LoopInv
    <3>5. HartInv'
      BY <2>8 DEF WaitHartEnds, TypeOK, BootInv, StageInv, LoopInv, HartInv,
         Slots
    <3>6. OKInv'
      BY <2>8 DEF WaitHartEnds, TypeOK, BootInv, StageInv, LoopInv, HartInv,
         OKInv, Slots
    <3> QED
      BY <3>1, <3>2, <3>3, <3>4, <3>5, <3>6
  <2>9. CASE CheckHart(h)
    <3>1. TypeOK'
      BY <2>9, ZenonT(30) DEF CheckHart, TypeOK, Points, Slots, Stages
    <3>2. BootInv'
      BY <2>9 DEF CheckHart, TypeOK, BootInv
    <3>3. StageInv'
      BY <2>9 DEF CheckHart, TypeOK, BootInv, StageInv
    <3>4. LoopInv'
      BY <2>9 DEF CheckHart, TypeOK, BootInv, StageInv, LoopInv
    <3>5. HartInv'
      BY <2>9 DEF CheckHart, TypeOK, BootInv, StageInv, LoopInv, HartInv, Slots
    <3>6. OKInv'
      BY <2>9 DEF CheckHart, TypeOK, BootInv, StageInv, LoopInv, HartInv,
         OKInv, Slots
    <3> QED
      BY <3>1, <3>2, <3>3, <3>4, <3>5, <3>6
  <2>10. CASE ResetHart(h)
    <3>1. TypeOK'
      BY <2>10 DEF ResetHart, TypeOK, BootInv, LoopInv, Points, Slots
    <3>2. BootInv'
      BY <2>10 DEF ResetHart, TypeOK, BootInv
    <3>3. StageInv'
      BY <2>10 DEF ResetHart, TypeOK, BootInv, StageInv
    <3>4. LoopInv'
      BY <2>10 DEF ResetHart, TypeOK, BootInv, StageInv, LoopInv
    <3>5. HartInv'
      BY <2>10 DEF ResetHart, TypeOK, BootInv, StageInv, LoopInv, HartInv,
         Slots
    <3>6. OKInv'
      BY <2>10 DEF ResetHart, TypeOK, BootInv, StageInv, LoopInv, HartInv,
         OKInv, Slots
    <3> QED
      BY <3>1, <3>2, <3>3, <3>4, <3>5, <3>6
  <2>11. CASE BootHartsDone(h)
    <3>1. TypeOK'
      BY <2>11 DEF BootHartsDone, TypeOK, Points, Slots, Stages
    <3>2. BootInv'
      BY <2>11 DEF BootHartsDone, TypeOK, BootInv
    <3>3. StageInv'
      BY <2>11 DEF BootHartsDone, TypeOK, BootInv, StageInv
    <3>4. LoopInv'
      BY <2>11 DEF BootHartsDone, TypeOK, BootInv, StageInv, LoopInv
    <3>5. HartInv'
      BY <2>11 DEF BootHartsDone, TypeOK, BootInv, StageInv, LoopInv, HartInv,
         Slots
    <3>6. OKInv'
      BY <2>11 DEF BootHartsDone, TypeOK, BootInv, StageInv, LoopInv, HartInv,
         OKInv, Slots
    <3> QED
      BY <3>1, <3>2, <3>3, <3>4, <3>5, <3>6
  <2>12. CASE SwitchMulticore(h)
    <3>1. TypeOK'
      BY <2>12 DEF SwitchMulticore, TypeOK, Points, Slots, Stages
    <3>2. BootInv'
      BY <2>12 DEF SwitchMulticore, TypeOK, BootInv
    <3>3. StageInv'
      BY <2>12 DEF SwitchMulticore, TypeOK, BootInv, StageInv
    <3>4. LoopInv'
      BY <2>12 DEF SwitchMulticore, TypeOK, BootInv, StageInv, LoopInv
    <3>5. HartInv'
      BY <2>12 DEF SwitchMulticore, TypeOK, BootInv, StageInv, LoopInv,
         HartInv, Slots
    <3>6. OKInv'
      BY <2>12 DEF SwitchMulticore, TypeOK, BootInv, StageInv, LoopInv,
         HartInv, OKInv, Slots
    <3> QED
      BY <3>1, <3>2, <3>3, <3>4, <3>5, <3>6
  <2>13. CASE EntryHart(h)
    <3>1. TypeOK'
      BY <2>13 DEF EntryHart, TypeOK, Points, Slots, Stages
    <3>2. BootInv'
      BY <2>13 DEF EntryHart, TypeOK, BootInv
    <3>3. StageInv'
      BY <2>13 DEF EntryHart, TypeOK, BootInv, StageInv
    <3>4. LoopInv'
      BY <2>13 DEF EntryHart, TypeOK, BootInv, StageInv, LoopInv
    <3>5. HartInv'
      BY <2>13 DEF EntryHart, TypeOK, BootInv, StageInv, LoopInv, HartInv,
         Slots
    <3>6. OKInv'
      BY <2>13 DEF EntryHart, TypeOK, BootInv, StageInv, LoopInv, HartInv,
         OKInv, Slots
    <3> QED
      BY <3>1, <3>2, <3>3, <3>4, <3>5, <3>6
  <2>14. CASE PreMainCheck(h)
    <3>1. TypeOK'
      BY <2>14 DEF PreMainCheck, TypeOK, Points, Slots, Stages
    <3>2. BootInv'
      BY <2>14 DEF PreMainCheck, TypeOK, BootInv
    <3>3. StageInv'
      BY <2>14 DEF PreMainCheck, TypeOK, BootInv, StageInv
    <3>4. LoopInv'
      BY <2>14 DEF PreMainCheck, TypeOK, BootInv, StageInv, LoopInv, HartInv
    <3>5. HartInv'
      BY <2>14, SMTT(30) DEF PreMainCheck, TypeOK, BootInv, StageInv, LoopInv, HartInv,
         Slots
    <3>6. OKInv'
      BY <2>14 DEF PreMainCheck, TypeOK, BootInv, StageInv, LoopInv, HartInv,
         OKInv, Slots
    <3> QED
      BY <3>1, <3>2, <3>3, <3>4, <3>5, <3>6
  <2>15. CASE PreMainTimer(h)
    <3>1. TypeOK'
      BY <2>15, Zenon DEF PreMainTimer, TypeOK, Points, Slots, Stages
    <3>2. BootInv'
      BY <2>15 DEF PreMainTimer, TypeOK, BootInv
    <3>3. StageInv'
      BY <2>15 DEF PreMainTimer, TypeOK, BootInv, StageInv
    <3>4. LoopInv'
      BY <2>15 DEF PreMainTimer, TypeOK, BootInv, StageInv, LoopInv
    <3>5. HartInv'
      BY <2>15 DEF PreMainTimer, TypeOK, BootInv, StageInv, LoopInv, HartInv,
         Slots
    <3>6. OKInv'
      BY <2>15 DEF PreMainTimer, TypeOK, BootInv, StageInv, LoopInv, HartInv,
         OKInv, Slots
    <3> QED
      BY <3>1, <3>2, <3>3, <3>4, <3>5, <3>6
  <2>16. CASE PreMainTimerFails(h)
    <3>1. TypeOK'
      BY <2>16 DEF PreMainTimerFails, TypeOK, Points, Slots, Stages
    <3>2. BootInv'
      BY <2>16 DEF PreMainTimerFails, TypeOK, BootInv
    <3>3. StageInv'
      BY <2>16 DEF PreMainTimerFails, TypeOK, BootInv, StageInv
    <3>4. LoopInv'
      BY <2>16 DEF PreMainTimerFails, TypeOK, BootInv, StageInv, LoopInv
    <3>5. HartInv'
      BY <2>16 DEF PreMainTimerFails, TypeOK, BootInv, StageInv, LoopInv,
         HartInv, Slots
    <3>6. OKInv'
      BY <2>16 DEF PreMainTimerFails, TypeOK, BootInv, StageInv, LoopInv,
         HartInv, OKInv, Slots
    <3> QED
      BY <3>1, <3>2, <3>3, <3>4, <3>5, <3>6
  <2>17. CASE PreMainFailed(h)
    <3>1. TypeOK'
      BY <2>17 DEF PreMainFailed, TypeOK, Points, Slots, Stages
    <3>2. BootInv'
      BY <2>17 DEF PreMainFailed, TypeOK, BootInv
    <3>3. StageInv'
      BY <2>17 DEF PreMainFailed, TypeOK, BootInv, StageInv
    <3>4. LoopInv'
      BY <2>17 DEF PreMainFailed, TypeOK, BootInv, StageInv, LoopInv, HartInv
    <3>5. HartInv'
      BY <2>17 DEF PreMainFailed, TypeOK, BootInv, StageInv, LoopInv, HartInv,
         Slots
    <3>6. OKInv'
      BY <2>17 DEF PreMainFailed, TypeOK, BootInv, StageInv, LoopInv, HartInv,
         OKInv, Slots
    <3> QED
      BY <3>1, <3>2, <3>3, <3>4, <3>5, <3>6
  <2>18. CASE PreMainReady(h)
    <3>1. TypeOK'
      BY <2>18 DEF PreMainReady, TypeOK, Points, Slots, Stages
    <3>2. BootInv'
      BY <2>18 DEF PreMainReady, TypeOK, BootInv
    <3>3. StageInv'
      BY <2>18, Zenon DEF PreMainReady, TypeOK, BootInv, StageInv
    <3>4. LoopInv'
      BY <2>18 DEF PreMainReady, TypeOK, BootInv, StageInv, LoopInv
    <3>5. HartInv'
      BY <2>18 DEF PreMainReady, TypeOK, BootInv, StageInv, LoopInv, HartInv,
         Slots
    <3>6. OKInv'
      BY <2>18 DEF PreMainReady, TypeOK, BootInv, StageInv, LoopInv, HartInv,
         OKInv, Slots
    <3> QED
      BY <3>1, <3>2, <3>3, <3>4, <3>5, <3>6
  <2>19. CASE PreMainWait(h)
    <3>1. TypeOK'
      BY <2>19, Zenon DEF PreMainWait, TypeOK, Points, Slots, Stages
    <3>2. BootInv'
      BY <2>19 DEF PreMainWait, TypeOK, BootInv
    <3>3. StageInv'
      BY <2>19, Zenon DEF PreMainWait, TypeOK, BootInv, StageInv
    <3>4. LoopInv'
      BY <2>19, Zenon DEF PreMainWait, TypeOK, BootInv, StageInv, LoopInv
    <3>5. HartInv'
      BY <2>19 DEF PreMainWait, TypeOK, BootInv, StageInv, LoopInv, HartInv,
         Slots
    <3>6. OKInv'
      BY <2>19 DEF PreMainWait, TypeOK, BootInv, StageInv, LoopInv, HartInv,
         OKInv, Slots
    <3> QED
      BY <3>1, <3>2, <3>3, <3>4, <3>5, <3>6
  <2>20. CASE Main(h)
    <3>1. TypeOK'
      BY <2>20, Zenon DEF Main, TypeOK, Points, Slots, Stages
    <3>2. BootInv'
      BY <2>20 DEF Main, TypeOK, BootInv
    <3>3. StageInv'
      BY <2>20, Zenon DEF Main, TypeOK, BootInv, StageInv
    <3>4. LoopInv'
      BY <2>20 DEF Main, TypeOK, BootInv, StageInv, LoopInv
    <3>5. HartInv'
      BY <2>20 DEF Main, TypeOK, BootInv, StageInv, LoopInv, HartInv, Slots
    <3>6. OKInv'
      BY <2>20 DEF Main, TypeOK, BootInv, StageInv, LoopInv, HartInv, OKInv,
         Slots
    <3> QED
      BY <3>1, <3>2, <3>3, <3>4, <3>5, <3>6
  <2>21. CASE AfterMain(h)
    <3>1. TypeOK'
      BY <2>21 DEF AfterMain, TypeOK, Points, Slots, Stages
    <3>2. BootInv'
      BY <2>21, Zenon DEF AfterMain, TypeOK, BootInv
    <3>3. StageInv'
      BY <2>21, Zenon DEF AfterMain, TypeOK, BootInv, StageInv
    <3>4. LoopInv'
      BY <2>21 DEF AfterMain, TypeOK, BootInv, StageInv, LoopInv, HartInv
    <3>5. HartInv'
      BY <2>21 DEF AfterMain, TypeOK, BootInv, StageInv, LoopInv, HartInv,
         Slots
    <3>6. OKInv'
      BY <2>21 DEF AfterMain, TypeOK, BootInv, StageInv, LoopInv, HartInv,
         OKInv, Slots
    <3> QED
      BY <3>1, <3>2, <3>3, <3>4, <3>5, <3>6
  <2>22. CASE BeforeCleanup(h)
    <3>1. TypeOK'
      <4>1. scan' \in 0 .. MAX_PROCESSORS
        BY <2>22 DEF BeforeCleanup, TypeOK
      <4>2. pc' \in [Harts -> Points]
        BY <2>22 DEF BeforeCleanup, TypeOK, Points
      <4> QED
        BY <2>22, <4>1, <4>2 DEF BeforeCleanup, TypeOK
    <3>2. BootInv'
      BY <2>22 DEF BeforeCleanup, TypeOK, BootInv
    <3>3. StageInv'
      BY <2>22 DEF BeforeCleanup, TypeOK, BootInv, StageInv
    <3>4. LoopInv'
      BY <2>22 DEF BeforeCleanup, TypeOK, BootInv, StageInv, LoopInv
    <3>5. HartInv'
      BY <2>22 DEF BeforeCleanup, TypeOK, BootInv, StageInv, LoopInv, HartInv,
         Slots
    <3>6. OKInv'
      BY <2>22 DEF BeforeCleanup, TypeOK, BootInv, StageInv, LoopInv, OKInv,
         Slots, Stages
    <3> QED
      BY <3>1, <3>2, <3>3, <3>4, <3>5, <3>6
  <2>23. CASE CleanupScan(h)
    <3>1. TypeOK'
      BY <2>23 DEF CleanupScan, TypeOK, Points, Slots, Stages
    <3>2. BootInv'
      BY <2>23 DEF CleanupScan, TypeOK, BootInv
    <3>3. StageInv'
      BY <2>23, Zenon DEF CleanupScan, TypeOK, BootInv, StageInv
    <3>4. LoopInv'
      BY <2>23, Zenon DEF CleanupScan, TypeOK, BootInv, StageInv, LoopInv
    <3>5. HartInv'
      BY <2>23 DEF CleanupScan, TypeOK, BootInv, StageInv, LoopInv, HartInv,
         Slots
    <3>6. OKInv'
      BY <2>23 DEF CleanupScan, TypeOK, BootInv, StageInv, LoopInv, HartInv,
         OKInv, Slots
    <3> QED
      BY <3>1, <3>2, <3>3, <3>4, <3>5, <3>6
  <2>24. CASE CleanupScanEnds(h)
    <3>1. TypeOK'
      BY <2>24 DEF CleanupScanEnds, TypeOK, Points, Slots, Stages
    <3>2. BootInv'
      BY <2>24 DEF CleanupScanEnds, TypeOK, BootInv
    <3>3. StageInv'
      BY <2>24, Zenon DEF CleanupScanEnds, TypeOK, BootInv, StageInv
    <3>4. LoopInv'
      BY <2>24, Zenon DEF CleanupScanEnds, TypeOK, BootInv, StageInv, LoopInv
    <3>5. HartInv'
      BY <2>24 DEF CleanupScanEnds, TypeOK, BootInv, StageInv, LoopInv,
         HartInv, Slots
    <3>6. OKInv'
      BY <2>24 DEF CleanupScanEnds, TypeOK, BootInv, StageInv, LoopInv,
         HartInv, OKInv, Slots
    <3> QED
      BY <3>1, <3>2, <3>3, <3>4, <3>5, <3>6
  <2>25. CASE CleanupStage(h)
    <3>1. TypeOK'
      BY <2>25, Zenon DEF CleanupStage, TypeOK, Points, Slots, Stages
    <3>2. BootInv'
      BY <2>25, Zenon DEF CleanupStage, TypeOK, BootInv
    <3>3. StageInv'
      BY <2>25, Zenon DEF CleanupStage, TypeOK, BootInv, StageInv
    <3>4. LoopInv'
      BY <2>25, Zenon DEF CleanupStage, TypeOK, BootInv, StageInv, LoopInv
    <3>5. HartInv'
      BY <2>25 DEF CleanupStage, TypeOK, BootInv, StageInv, LoopInv, HartInv,
         Slots
    <3>6. OKInv'
      BY <2>25 DEF CleanupStage, TypeOK, BootInv, StageInv, LoopInv, HartInv,
         OKInv, Slots
    <3> QED
      BY <3>1, <3>2, <3>3, <3>4, <3>5, <3>6
  <2>26. CASE Cleanup(h)
    <3>1. TypeOK'
      BY <2>26, Zenon DEF Cleanup, TypeOK, Points, Slots, Stages
    <3>2. BootInv'
      BY <2>26 DEF Cleanup, TypeOK, BootInv
    <3>3. StageInv'
      BY <2>26 DEF Cleanup, TypeOK, BootInv, StageInv
    <3>4. LoopInv'
      BY <2>26, Zenon DEF Cleanup, TypeOK, BootInv, StageInv, LoopInv
    <3>5. HartInv'
      BY <2>26 DEF Cleanup, TypeOK, BootInv, StageInv, LoopInv, HartInv, Slots
    <3>6. OKInv'
      BY <2>26 DEF Cleanup, TypeOK, BootInv, StageInv, LoopInv, HartInv,
         OKInv, Slots
    <3> QED
      BY <3>1, <3>2, <3>3, <3>4, <3>5, <3>6
  <2> QED
    BY <1>2, <2>1, <2>2, <2>3, <2>4, <2>5, <2>6, <2>7, <2>8, <2>9, <2>10,
       <2>11, <2>12, <2>13, <2>14, <2>15, <2>16, <2>17, <2>18, <2>19, <2>20,
       <2>21, <2>22, <2>23, <2>24, <2>25, <2>26, Zenon
       DEF Step
<1> QED
  BY <1>1, <1>2 DEF Next

-----------------------------------------------------------------------------
\* The inductive invariant gives the properties that the runs check.
LEMMA IInvImplies ==
  ASSUME IInv
  PROVE  /\ TypeOK /\ OneBootHart /\ MainAfterBoot /\ CleanupAfterOK
         /\ StackExclusive
<1> USE HartsAssumption DEF IInv
<1>1. OneBootHart
  BY DEF OneBootHart, BootInv
<1>2. MainAfterBoot
  <2> SUFFICES ASSUME NEW h \in Harts, pc[h] \in MainPoints
               PROVE  /\ k_stage \in {"K_MULTICORE", "K_CLEARUP"}
                      /\ todo = {}
                      /\ \A b \in Harts : pc[b] \notin BootPoints
    BY DEF MainAfterBoot
  <2>1. k_stage \in {"K_MULTICORE", "K_CLEARUP"}
    BY DEF HartInv
  <2>2. todo = {}
    BY <2>1 DEF LoopInv, StageInv
  <2>3. \A b \in Harts : pc[b] \notin BootPoints
    BY <2>1 DEF BootInv, StageInv, BootPoints, LoopPoints, CurPoints
  <2> QED
    BY <2>1, <2>2, <2>3
<1>3. CleanupAfterOK
  <2> SUFFICES ASSUME k_stage = "K_CLEARUP", NEW h \in Harts,
                      reported[h] = "OK", h # hartid[boot]
               PROVE  pc[h] = "exited"
    BY DEF CleanupAfterOK
  <2>1. boot # NoHart /\ boot \in Harts
    BY DEF BootInv, TypeOK
  <2>2. pc[boot] \in {"k_cleanup", "_start_hang"}
    BY <2>1 DEF BootInv, StageInv, TypeOK, Points, IdlePoints, BootPoints,
                CleanupPoints, LoopPoints, CurPoints, PreMainPoints, MainPoints
  <2> QED
    BY <2>1, <2>2 DEF OKInv, HartInv
<1>4. StackExclusive
  <2> SUFFICES ASSUME NEW g \in Harts, NEW h \in Harts, g # h,
                      Running(g), Running(h), StackSlot(g) = StackSlot(h),
                      OnStartStack(g)
               PROVE  h # boot /\ (reported[h] = "Timeout" \/ h = hartid[boot])
    BY DEF StackExclusive, StackSlot
  <2>1. g = boot /\ h # boot
    BY DEF OnStartStack, BootInv, BootPoints, CleanupPoints
  <2>2. pc[g] \in {"k_boot_sysdev", "k_boot_perip"} \cup CleanupPoints
    BY DEF OnStartStack, CleanupPoints
  <2>3. reported[h] \in {"OK", "Timeout"}
    BY <2>1, <2>2 DEF HartInv, Running, BootPoints, CleanupPoints,
       PreMainPoints,
                      MainPoints, IdlePoints
  <2>4. k_stage \notin {"K_BEFORE_BOOT", "K_BOOT", "K_BOOT_PERIP"}
    BY <2>3 DEF LoopInv
  <2>5. pc[g] = "k_cleanup"
    BY <2>1, <2>2, <2>4 DEF OnStartStack, StageInv, TypeOK, Stages,
       CleanupPoints,
                            BootInv, IdlePoints
  <2>6. reported[h] = "OK" => h = hartid[boot]
    BY <2>1, <2>5, <1>3 DEF CleanupAfterOK, StageInv, BootInv, Running,
         BootPoints, CleanupPoints, PreMainPoints, MainPoints, IdlePoints
  <2> QED
    BY <2>1, <2>3, <2>6
<1> QED
  BY <1>1, <1>2, <1>3, <1>4

\* The variables of HartBoot keep their types for any set of harts.
THEOREM TypeCorrect == Spec => []TypeOK
<1>1. IInv /\ [Next]_vars => IInv'
  BY StepIInv
<1> QED
  BY InitIInv, <1>1, IInvImplies, PTL DEF Spec

\* One hart wins the race of preloader.S and boots.
THEOREM BootHartUnique == Spec => []OneBootHart
<1>1. IInv /\ [Next]_vars => IInv'
  BY StepIInv
<1> QED
  BY InitIInv, <1>1, IInvImplies, PTL DEF Spec

\* k_main starts on no hart before k_boot_harts is over (k_pre_main).
THEOREM BootOrder == Spec => []MainAfterBoot
<1>1. IInv /\ [Next]_vars => IInv'
  BY StepIInv
<1> QED
  BY InitIInv, <1>1, IInvImplies, PTL DEF Spec

\* k_before_cleanup has waited for every hart reported "OK!" but the one whose
\* slot it takes for its own.
THEOREM CleanupWaits == Spec => []CleanupAfterOK
<1>1. IInv /\ [Next]_vars => IInv'
  BY StepIInv
<1> QED
  BY InitIInv, <1>1, IInvImplies, PTL DEF Spec

\* Harts run on stacks of their own, but for the two named exceptions.
THEOREM StacksDisjoint == Spec => []StackExclusive
<1>1. IInv /\ [Next]_vars => IInv'
  BY StepIInv
<1> QED
  BY InitIInv, <1>1, IInvImplies, PTL DEF Spec

-----------------------------------------------------------------------------
(* What no store of k_hart_state does *)

\* Where the boot hart is before it is ready in k_pre_main.
EarlyPoints == BootPoints \cup {"pm_check", "pm_timer", "pm_failed", "pm_ready"}

\* Until then its own slot has not been counted up.
SlotInv ==
  /\ boot = NoHart => \A h \in Harts : k_hart_state[h] = 0
  /\ boot # NoHart /\ pc[boot] \in EarlyPoints => k_hart_state[boot] \in {0, 1}

\* What a step may do to the slot of hart h.
Revokes(h) == k_hart_state'[h] < k_hart_state[h] => reported'[h] \in {"Timeout", "Failed"}

SlotStepOK == SlotInv' /\ \A h \in Harts : Revokes(h)

\* Everybody but a hart at _entry knows the boot hart.
LEMMA BootKnown ==
  ASSUME IInv, NEW h \in Harts, pc[h] \notin IdlePoints
  PROVE  boot \in Harts /\ boot # NoHart
  BY DEF IInv, BootInv, TypeOK

\* A step that stores in no slot.
LEMMA Silent ==
  ASSUME IInv, SlotInv, UNCHANGED <<boot, k_hart_state>>, boot # NoHart,
         pc'[boot] \in EarlyPoints => pc[boot] \in EarlyPoints
  PROVE  SlotStepOK
<1>1. SlotInv'
  BY Zenon DEF SlotInv
<1>2. ASSUME NEW h \in Harts PROVE ~(k_hart_state[h] < k_hart_state[h])
  <2>1. k_hart_state[h] \in 0 .. 3
    BY HartsAssumption DEF IInv, TypeOK, Slots
  <2> QED
    BY <2>1
<1> QED
  BY <1>1, <1>2 DEF SlotStepOK, Revokes

\* A step that stores v in slot i.
LEMMA Stores ==
  ASSUME IInv, SlotInv, NEW i \in Harts, NEW v \in 0 .. 3, boot' = boot, boot # NoHart,
         k_hart_state' = [k_hart_state EXCEPT ![i] = v],
         k_hart_state[i] <= v \/ reported'[i] \in {"Timeout", "Failed"},
         i # boot => (pc'[boot] \in EarlyPoints => pc[boot] \in EarlyPoints),
         i = boot => (pc'[boot] \in EarlyPoints => v \in {0, 1})
  PROVE  SlotStepOK
<1>0. /\ k_hart_state'[i] = v /\ k_hart_state[i] \in 0 .. 3
      /\ \A h \in Harts : /\ h # i => k_hart_state'[h] = k_hart_state[h]
                          /\ k_hart_state[h] \in 0 .. 3
  BY HartsAssumption DEF IInv, TypeOK, Slots
<1>1. boot \in Harts
  BY DEF IInv, TypeOK
<1>2. SlotInv'
  BY <1>0, <1>1, Zenon DEF SlotInv
<1>3. ASSUME NEW h \in Harts PROVE Revokes(h)
  BY <1>0 DEF Revokes
<1> QED
  BY <1>2, <1>3 DEF SlotStepOK

LEMMA SlotStep ==
  ASSUME IInv, SlotInv, NEW h \in Harts, Step(h)
  PROVE  SlotStepOK
<1>0. pc \in [Harts -> Points] /\ k_hart_state \in [Slots -> 0 .. 3]
      /\ \A g \in Harts : g \in Slots /\ k_hart_state[g] \in 0 .. 3
  BY HartsAssumption DEF IInv, TypeOK, Slots
<1>1. CASE Entry(h)
  <2>1. pc[h] = "_entry" /\ k_hart_state' = k_hart_state
    BY <1>1 DEF Entry
  <2>2. CASE lottery = 0
    <3>1. boot = NoHart
      BY <2>2 DEF IInv, BootInv
    <3>2. boot' = h /\ \A g \in Harts : k_hart_state'[g] = 0 /\ k_hart_state[g] = 0
      BY <1>1, <2>1, <2>2, <3>1, Zenon DEF Entry, SlotInv
    <3>3. SlotInv'
      BY HartsAssumption, <3>2 DEF SlotInv
    <3> QED
      BY <3>2, <3>3 DEF SlotStepOK, Revokes
  <2>3. CASE lottery # 0
    <3>1. boot # NoHart /\ boot \in Harts /\ h # boot
      BY <2>1, <2>3 DEF IInv, BootInv, TypeOK, IdlePoints
    <3>2. boot' = boot /\ pc'[boot] = pc[boot]
      BY <1>0, <1>1, <2>3, <3>1 DEF Entry, Goto
    <3> QED
      BY <2>1, <3>1, <3>2, Silent
  <2> QED
    BY <2>2, <2>3
<1>2. ASSUME pc[h] \notin IdlePoints, boot' = boot, k_hart_state' = k_hart_state,
             NEW p, pc' = [pc EXCEPT ![h] = p], p \in EarlyPoints => pc[h] \in EarlyPoints \/ h # boot
      PROVE  SlotStepOK
  <2>1. boot \in Harts /\ boot # NoHart
    BY <1>2, BootKnown
  <2>2. pc'[boot] \in EarlyPoints => pc[boot] \in EarlyPoints
    BY <1>0, <1>2, <2>1
  <2> QED
    BY <1>2, <2>1, <2>2, Silent
<1>3. CASE BootSysdev(h) \/ BootPerip(h) \/ BootHartsEnter(h) \/ WaitHartEnds(h) \/ CheckHart(h)
           \/ SwitchMulticore(h)
  <2>1. pc[h] \in BootPoints /\ boot' = boot /\ k_hart_state' = k_hart_state
    BY <1>3 DEF BootSysdev, BootPerip, BootHartsEnter, WaitHartEnds, CheckHart, SwitchMulticore, BootPoints
  <2>2. \E p : pc' = [pc EXCEPT ![h] = p]
    BY <1>3, Zenon DEF BootSysdev, BootPerip, BootHartsEnter, WaitHartEnds, CheckHart,
                       SwitchMulticore, Goto
  <2>3. pc[h] \in EarlyPoints /\ pc[h] \notin IdlePoints
    BY <2>1 DEF EarlyPoints, BootPoints, IdlePoints
  <2> QED
    BY <1>2, <2>1, <2>2, <2>3, Zenon
<1>4. CASE EntryHart(h)
  <2>1. pc[h] = "_entry_hart" /\ boot' = boot /\ k_hart_state' = k_hart_state
        /\ pc' = [pc EXCEPT ![h] = "pm_check"]
    BY <1>4 DEF EntryHart, Goto
  <2>2. pc[h] \notin IdlePoints
    BY <2>1 DEF IdlePoints
  <2>3. h # boot
    <3>1. boot # NoHart
      BY <2>2, BootKnown
    <3> QED
      BY <2>1, <3>1 DEF IInv, BootInv
  <2> QED
    BY <1>2, <2>1, <2>2, <2>3, Zenon
<1>5. CASE PreMainCheck(h) \/ PreMainTimer(h) \/ PreMainTimerFails(h)
  <2>1. pc[h] \in {"pm_check", "pm_timer"} /\ boot' = boot /\ k_hart_state' = k_hart_state
    BY <1>5 DEF PreMainCheck, PreMainTimer, PreMainTimerFails
  <2>2. \E p : pc' = [pc EXCEPT ![h] = p]
    BY <1>5, Zenon DEF PreMainCheck, PreMainTimer, PreMainTimerFails, Goto, Leave
  <2>3. pc[h] \in EarlyPoints /\ pc[h] \notin IdlePoints
    BY <2>1 DEF EarlyPoints, IdlePoints
  <2> QED
    BY <1>2, <2>1, <2>2, <2>3, Zenon
<1>6. CASE PreMainWait(h) \/ Main(h) \/ BeforeCleanup(h) \/ CleanupScanEnds(h) \/ CleanupStage(h)
           \/ Cleanup(h)
  <2>1. /\ pc[h] \in {"pm_wait", "k_main", "bc_test", "bc_scan", "bc_clear", "k_cleanup"}
        /\ boot' = boot /\ k_hart_state' = k_hart_state
    BY <1>6 DEF PreMainWait, Main, BeforeCleanup, CleanupScanEnds, CleanupStage, Cleanup
  <2>2. \E p \in {"k_main", "k_after_main", "bc_scan", "bc_clear", "k_cleanup", "_start_hang"} :
          pc' = [pc EXCEPT ![h] = p]
    BY <1>6, Zenon DEF PreMainWait, Main, BeforeCleanup, CleanupScanEnds, CleanupStage, Cleanup, Goto
  <2>3. PICK p : pc' = [pc EXCEPT ![h] = p] /\ p \notin EarlyPoints
    BY <2>2 DEF EarlyPoints, BootPoints
  <2>4. pc[h] \notin IdlePoints
    BY <2>1 DEF IdlePoints
  <2> QED
    BY <1>2, <2>1, <2>3, <2>4, Zenon
<1>7. CASE CleanupScan(h)
  <2>1. pc[h] = "bc_scan" /\ UNCHANGED <<boot, k_hart_state, pc>>
    BY <1>7 DEF CleanupScan
  <2>2. boot # NoHart
    BY <2>1, BootKnown DEF IdlePoints
  <2> QED
    BY <2>1, <2>2, Silent
<1>8. CASE StartHartOK(h) \/ StartHartFails(h) \/ ResetHart(h)
  <2>1. pc[h] \in {"bh_start", "bh_reset"} /\ boot' = boot
    BY <1>8 DEF StartHartOK, StartHartFails, ResetHart
  <2>2. h = boot /\ boot # NoHart
    BY <2>1, BootKnown DEF IInv, BootInv, BootPoints, IdlePoints
  <2>3. cur \in Harts /\ cur # boot /\ (pc[h] = "bh_reset" => reported[cur] = "Timeout")
    BY <2>1, <2>2 DEF IInv, LoopInv, CurPoints
  <2>4. pc[boot] \in EarlyPoints
    BY <2>1, <2>2 DEF EarlyPoints, BootPoints
  <2>5. CASE StartHartOK(h)
    <3>1. k_hart_state' = k_hart_state
      BY <2>5 DEF StartHartOK
    <3> QED
      BY <2>1, <2>2, <2>4, <3>1, Silent
  <2>6. CASE StartHartFails(h) \/ ResetHart(h)
    <3>1. k_hart_state' = [k_hart_state EXCEPT ![cur] = 0]
      BY <2>6 DEF StartHartFails, ResetHart
    <3>2. reported'[cur] \in {"Timeout", "Failed"}
      <4>1. CASE StartHartFails(h)
        BY <2>3, <4>1 DEF StartHartFails, IInv, TypeOK
      <4>2. CASE ResetHart(h)
        BY <2>3, <4>2 DEF ResetHart
      <4> QED
        BY <2>6, <4>1, <4>2
    <3>3. 0 \in 0 .. 3
      OBVIOUS
    <3> QED
      BY <2>1, <2>2, <2>3, <2>4, <3>1, <3>2, <3>3, Stores, Zenon
  <2> QED
    BY <1>8, <2>5, <2>6
<1>9. CASE BootHartsPick(h)
  <2>1. pc[h] = "bh_loop" /\ boot' = boot
    BY <1>9 DEF BootHartsPick
  <2>2. h = boot /\ boot # NoHart /\ pc[boot] \in EarlyPoints
    BY <2>1, BootKnown DEF IInv, BootInv, BootPoints, IdlePoints, EarlyPoints
  <2>3. CASE k_hart_state' = k_hart_state
    BY <2>1, <2>2, <2>3, Silent
  <2>4. CASE k_hart_state' # k_hart_state
    <3>1. PICK i \in todo : k_hart_state' = [k_hart_state EXCEPT ![i] = 1]
      BY <1>9, <2>4, Zenon DEF BootHartsPick
    <3>2. i \in Harts /\ i # boot /\ pc[i] \in IdlePoints
      BY DEF IInv, LoopInv, TypeOK
    <3>3. k_hart_state[i] # 2 /\ k_hart_state[i] # 3
      BY <3>2 DEF IInv, HartInv, IdlePoints, MainPoints
    <3>4. k_hart_state[i] <= 1 /\ 1 \in 0 .. 3
      BY <1>0, <3>2, <3>3
    <3> QED
      BY <2>1, <2>2, <3>1, <3>2, <3>4, Stores, Zenon
  <2> QED
    BY <2>3, <2>4
<1>10. CASE BootHartsDone(h)
  <2>1. pc[h] = "bh_loop" /\ boot' = boot /\ k_hart_state' = [k_hart_state EXCEPT ![h] = 1]
    BY <1>10 DEF BootHartsDone
  <2>2. h = boot /\ boot # NoHart /\ pc[boot] \in EarlyPoints
    BY <2>1, BootKnown DEF IInv, BootInv, BootPoints, IdlePoints, EarlyPoints
  <2>3. k_hart_state[h] <= 1 /\ 1 \in 0 .. 3 /\ 1 \in {0, 1}
    BY <2>2 DEF SlotInv
  <2> QED
    BY <2>1, <2>2, <2>3, Stores, Zenon
<1>11. CASE PreMainFailed(h) \/ AfterMain(h)
  <2>1. pc[h] \in {"pm_failed", "k_after_main"} /\ boot' = boot
    BY <1>11 DEF PreMainFailed, AfterMain
  <2>2. boot # NoHart /\ boot \in Harts
    BY <2>1, BootKnown DEF IdlePoints
  <2>3. k_hart_state' = [k_hart_state EXCEPT ![h] = 3]
    <3>1. CASE PreMainFailed(h)
      BY <3>1 DEF PreMainFailed
    <3>2. CASE AfterMain(h)
      <4>1. hartid[h] = h
        BY <3>2 DEF AfterMain, IInv, HartInv, MainPoints
      <4> QED
        BY <3>2, <4>1 DEF AfterMain
    <3> QED
      BY <1>11, <3>1, <3>2
  <2>4. k_hart_state[h] <= 3 /\ 3 \in 0 .. 3
    BY <1>0
  <2>5. pc' = [pc EXCEPT ![h] = IF h = boot THEN "bc_test" ELSE "exited"]
    BY <1>11 DEF PreMainFailed, AfterMain, Leave, Goto
  <2>6. h = boot => pc'[boot] \notin EarlyPoints
    BY <1>0, <2>5 DEF EarlyPoints, BootPoints
  <2>7. h # boot => pc'[boot] = pc[boot]
    BY <1>0, <2>2, <2>5
  <2> QED
    BY <2>1, <2>2, <2>3, <2>4, <2>6, <2>7, Stores, Zenon
<1>12. CASE PreMainReady(h)
  <2>1. /\ pc[h] = "pm_ready" /\ boot' = boot /\ k_hart_state' = [k_hart_state EXCEPT ![h] = 2]
        /\ pc' = [pc EXCEPT ![h] = "pm_wait"]
    BY <1>12 DEF PreMainReady, Goto
  <2>2. boot # NoHart /\ boot \in Harts
    BY <2>1, BootKnown DEF IdlePoints
  <2>3. k_hart_state[h] # 3
    <3>1. CASE h = boot
      BY <2>1, <2>2, <3>1 DEF SlotInv, EarlyPoints
    <3>2. CASE h # boot
      BY <2>1, <3>2 DEF IInv, HartInv
    <3> QED
      BY <3>1, <3>2
  <2>4. k_hart_state[h] <= 2 /\ 2 \in 0 .. 3
    BY <1>0, <2>3
  <2>5. pc'[boot] \in EarlyPoints => h # boot /\ pc'[boot] = pc[boot]
    BY <1>0, <2>1, <2>2 DEF EarlyPoints, BootPoints
  <2> QED
    BY <2>1, <2>2, <2>4, <2>5, Stores, Zenon
<1> QED
  BY <1>1, <1>3, <1>4, <1>5, <1>6, <1>7, <1>8, <1>9, <1>10, <1>11, <1>12, Zenon DEF Step

\* A slot of k_hart_state is lowered only where k_boot_harts gives its hart up,
\* after it has reported it.
THEOREM SlotsOnlyRise == Spec => OnlyBootRevokes
<1>1. Init => SlotInv
  BY HartsAssumption DEF Init, SlotInv, Slots
<1>2. IInv /\ [Next]_vars => IInv'
  BY StepIInv
<1>3. IInv /\ SlotInv /\ [Next]_vars => SlotInv'
  <2>1. CASE UNCHANGED vars
    BY <2>1 DEF vars, SlotInv
  <2>2. ASSUME IInv, SlotInv, Next PROVE SlotInv'
    BY <2>2, SlotStep DEF Next, SlotStepOK
  <2> QED
    BY <2>1, <2>2
<1>4. IInv /\ SlotInv /\ [Next]_vars =>
        [\A h \in Harts : k_hart_state'[h] < k_hart_state[h] =>
           reported'[h] \in {"Timeout", "Failed"}]_vars
  <2>1. ASSUME IInv, SlotInv, Next
        PROVE  \A h \in Harts : k_hart_state'[h] < k_hart_state[h] =>
                 reported'[h] \in {"Timeout", "Failed"}
    <3>1. SlotStepOK
      BY <2>1, SlotStep DEF Next
    <3> QED
      BY <3>1, Zenon DEF SlotStepOK, Revokes
  <2> QED
    BY <2>1
<1> QED
  BY InitIInv, <1>1, <1>2, <1>3, <1>4, PTL DEF Spec, OnlyBootRevokes
=============================================================================
