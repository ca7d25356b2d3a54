----------------------------- MODULE ExecutorProofs ----------------------------
(***************************************************************************)
(* The Executor under its two hosts, for every chain, pass and memory      *)
(* parameter.                                                              *)
(*                                                                         *)
(* In table mode, for every campaign and whatever the host writes when,    *)
(* the scan pass, the DUT's reset and the memory restore never meet, a     *)
(* trial starts clean, and a halt is final.  One window involves three     *)
(* controllers, each of which sees the others only through one-bit         *)
(* requests and answers.  Window says where the Time Controller is, Gate   *)
(* where the Scan Controller is, Drained that nothing of a start is left   *)
(* in the pipeline between them when the reset rises.                      *)
(*                                                                         *)
(* In static mode, whatever index the host writes or starts when, a pass   *)
(* flips the one cell that was named when it was armed.                    *)
(***************************************************************************)
EXTENDS BatchRun, StaticFlip, SequenceTheorems, TLAPS

\* The memory, as the lemmas about it see it.
MemL == INSTANCE MemTrialsProofs WITH
          fi_restore_i <- mem_req,
          power_on <- [x \in Mem!Addr |-> FI_FILL_WORD],
          lost <- FALSE

\* The wrapper's default, with a scrub that has something to shift.  Where
\* SCRUB_LEN is 0 a start may still be in the pipeline when the reset rises.
Scrubs == SCRUB /\ SCRUB_LEN # 0

-----------------------------------------------------------------------------
(* The invariants. *)

\* The host sets the chain length before anything can stop a trial.
Configured ==
  /\ ~cfg_start
  /\ cfg_scan_len \in {0, FI_SCAN_LEN}
  /\ cfg_scan_len = 0 =>
       /\ ~stopped /\ cfg_to_thr = 0 /\ cfg_end = FALSE /\ end_sync = <<FALSE, FALSE>>
       /\ pc \in {"load", "cfg0"} \/ (pc = "ready" /\ batch = 0)

\* The Scan Controller: idle with the DUT's clock running, in the lead cycle,
\* or shifting; the history counts the shifts as its counter does.
Gate ==
  /\ run_cnt \in Nat /\ nshift \in Nat
  /\ scan_en_o <=> run
  /\ clk_gate <=> run \/ tm_lead
  /\ ~(run /\ tm_lead)
  /\ scrub_q => clk_gate
  /\ tm_tail_cnt # 0 => ~clk_gate
  /\ scrub_done_o => ~clk_gate
  /\ run => nshift = run_cnt

\* The Time Controller: each phase of the window has its own outputs.
Window ==
  /\ rtc_phase \in IF SCRUB THEN {0, 3, 6, 2, 5} ELSE {0, 1, 4, 2, 5}
  /\ stopped <=> rtc_phase # 0
  /\ scrub_req <=> rtc_phase = 3
  /\ resolver_rst <=> rtc_phase \in {2, 4, 5, 6}
  /\ resolver_rst \/ rtc_phase = 1 => testmode_rst
  /\ mem_halt <=> rtc_phase = 5
  /\ mem_req => rtc_phase \in {2, 3, 4, 6}

\* The two together: a scrub belongs to phase 3, and the memories are asked to
\* restore in it only while it shifts and the freeze gate is shut.
Restoring ==
  /\ scrub_q => rtc_phase = 3
  /\ rtc_phase = 3 /\ mem_req => run /\ scrub_q /\ run_gate_q

\* A scrub outlasts the start pipeline, so the reset finds it empty and the
\* chain zeroed, and the memories are asked to restore from then on.
Drained ==
  /\ scrub_done_o => rtc_phase # 3
  /\ scrub_q => ~scan_start /\ (run => ~s1) /\ run_end_q = Scan!scrub_n - 1
  /\ resolver_rst =>
       /\ ~clk_gate /\ ~scan_start /\ ~s1 /\ ~s2
       /\ zeroed
       /\ MEM_RESTORE => mem_req \/ mem_halt

\* What the history variables hold.
Injected ==
  /\ ftime \in Nat /\ flips \subseteq Int
  /\ inj \in Seq([cycle : Nat, cells : SUBSET Int])

WindowInv == Configured /\ Gate /\ Window /\ Restoring /\ (Scrubs => Drained)
-----------------------------------------------------------------------------
(* The host. *)

\* The two switches of the window are Boolean.
LEMMA SwitchTypes == SCRUB \in BOOLEAN /\ MEM_RESTORE \in BOOLEAN
  BY ExecutorAssumption

\* What a host write can be, and what every one of them leaves alone.
HostStep == Quiet \/ HostWrite

\* The chain length is not touched while a trial is stopped.
LEMMA ConfiguredKept ==
  ASSUME Configured, HostStep, Time!Edge
  PROVE  Configured' /\ (stopped => cfg_scan_len' = cfg_scan_len /\ cfg_scan_len = FI_SCAN_LEN)
  <1> USE ExecutorAssumption
  <1>1. cfg_start' = FALSE /\ cfg_scan_len' \in {0, FI_SCAN_LEN}
        /\ (cfg_scan_len' = 0 => cfg_scan_len = 0)
    BY DEF HostStep, Quiet, HostWrite, Begin, Pause, Settled, Load, Configure, TblLen,
           FiCycle, ToThr, EndTrial, cfgRegs, Configured
  <1>2. stopped => cfg_scan_len' = cfg_scan_len /\ cfg_scan_len = FI_SCAN_LEN
    BY DEF HostStep, Quiet, HostWrite, Begin, Pause, Settled, Load, Configure, TblLen,
           FiCycle, ToThr, EndTrial, cfgRegs, Configured
  <1>3. ASSUME cfg_scan_len' = 0
        PROVE  /\ cfg_to_thr' = 0 /\ cfg_end' = FALSE
               /\ pc' \in {"load", "cfg0"} \/ (pc' = "ready" /\ batch' = 0)
    <2>1. cfg_scan_len = 0
      BY <1>1, <1>3
    <2>2. CASE Quiet
      BY <2>1, <2>2 DEF Quiet, Configured
    <2>3. CASE \E c \in Campaigns : Begin(c)
      BY <2>1, <2>3 DEF Begin, cfgRegs, Configured
    <2>4. CASE Load \/ Configure
      BY <1>3, <2>1, <2>4 DEF Load, Configure, Configured
    <2>5. CASE Pause \/ Settled \/ TblLen \/ FiCycle \/ ToThr \/ EndTrial
      BY <2>1, <2>5 DEF Pause, Settled, TblLen, FiCycle, ToThr, EndTrial, Configured
    <2> QED
      BY <2>2, <2>3, <2>4, <2>5 DEF HostStep, HostWrite
  <1>4. ASSUME cfg_scan_len' = 0
        PROVE  ~stopped' /\ end_sync' = <<FALSE, FALSE>>
    <2>1. ~stopped /\ cfg_to_thr = 0 /\ cfg_end = FALSE /\ end_sync = <<FALSE, FALSE>>
      BY <1>1, <1>4 DEF Configured
    <2>2. end_sync' = <<FALSE, FALSE>>
      BY <2>1 DEF Time!Edge, Time!Synchronisers
    <2>3. ~Time!stop_event
      BY <2>1 DEF Time!stop_event, Time!end_rise_pulse, Time!stop_by_to, Time!stop_by_mem,
                  Time!to_hit_en
    <2>4. Time!Run
      BY <2>1, <2>3 DEF Time!Edge, Time!Stop, Time!StartReset, Time!Scrubbing,
           Time!FirstHalf, Time!Restored, Time!Halt, Time!Release, Time!Wait, Time!InWindow
    <2> QED
      BY <2>1, <2>2, <2>4 DEF Time!Run
  <1> QED
    BY <1>1, <1>2, <1>3, <1>4 DEF Configured

-----------------------------------------------------------------------------
(* The two controllers, each on its own. *)

\* The Scan Controller is idle, leading or shifting, whatever starts it.
LEMMA GateKept ==
  ASSUME Gate, Scan!Edge, History
  PROVE  Gate'
  <1>1. nshift' = IF scan_en_o /\ scan_en_o' THEN nshift + 1 ELSE 0
    BY DEF History
  <1>2. CASE Scan!Shift
    BY <1>1, <1>2 DEF Gate, Scan!Shift
  <1>3. CASE Scan!LastShift
    BY <1>1, <1>3 DEF Gate, Scan!LastShift
  <1>4. CASE Scan!Lead
    BY <1>1, <1>4 DEF Gate, Scan!Lead
  <1>5. CASE Scan!Tail
    BY <1>1, <1>5 DEF Gate, Scan!Tail
  <1>6. CASE Scan!ArmInject
    BY <1>1, <1>6 DEF Gate, Scan!ArmInject, Scan!arm0, Scan!busy
  <1>7. CASE Scan!ArmScrub
    BY <1>1, <1>7 DEF Gate, Scan!ArmScrub, Scan!arm_s, Scan!busy
  <1>8. CASE Scan!SkipScrub
    BY <1>1, <1>8 DEF Gate, Scan!SkipScrub, Scan!arm_s, Scan!busy
  <1>9. CASE Scan!Idle
    BY <1>1, <1>9 DEF Gate, Scan!Idle, Scan!busy
  <1> QED
    BY <1>2, <1>3, <1>4, <1>5, <1>6, <1>7, <1>8, <1>9 DEF Scan!Edge

\* The phases of the window follow each other, and their outputs with them.
LEMMA WindowKept ==
  ASSUME Window, Time!Edge
  PROVE  Window'
  <1> USE SwitchTypes
  <1>1. CASE Time!Run
    BY <1>1 DEF Window, Time!Run, Time!Count
  <1>2. CASE Time!Stop
    <2>1. ~scrub_req /\ ~mem_req /\ ~mem_halt
      BY <1>2 DEF Window, Time!Stop, Time!Count
    <2>2. scrub_req' <=> SCRUB
      BY <1>2, <2>1, Zenon DEF Time!Stop
    <2>3. ~SCRUB => testmode_rst'
      BY <1>2, Zenon DEF Time!Stop
    <2>4. /\ stopped' /\ ~resolver_rst' /\ ~mem_req' /\ ~mem_halt'
          /\ rtc_phase' = IF SCRUB THEN 3 ELSE 1
      BY <1>2, <2>1 DEF Time!Stop, Time!Count
    <2> QED
      BY <2>2, <2>3, <2>4 DEF Window
  <1>3. CASE Time!StartReset
    BY <1>3 DEF Window, Time!StartReset, Time!InWindow
  <1>4. CASE Time!Scrubbing
    <2>1. CASE Time!scrub_over
      BY <1>4, <2>1 DEF Window, Time!Scrubbing, Time!InWindow
    <2>2. CASE ~Time!scrub_over
      BY <1>4, <2>2 DEF Window, Time!Scrubbing, Time!InWindow
    <2> QED
      BY <2>1, <2>2
  <1>5. CASE Time!FirstHalf
    BY <1>5 DEF Window, Time!FirstHalf, Time!InWindow
  <1>6. CASE Time!Restored
    <2>1. rtc_phase' = IF Mem!fi_bad_o THEN 5 ELSE 2
      BY <1>6 DEF Time!Restored
    <2>2. mem_halt' <=> Mem!fi_bad_o
      <3>1. ~mem_halt
        BY <1>6 DEF Window, Time!Restored
      <3>2. mem_halt' = (mem_halt \/ Mem!fi_bad_o)
        BY <1>6 DEF Time!Restored
      <3> QED
        BY <3>1, <3>2, Zenon
    <2> QED
      BY <1>6, <2>1, <2>2 DEF Window, Time!Restored, Time!InWindow
  <1>7. CASE Time!Halt
    BY <1>7 DEF Window, Time!Halt, Time!InWindow
  <1>8. CASE Time!Release
    BY <1>8 DEF Window, Time!Release
  <1>9. CASE Time!Wait
    BY <1>9 DEF Window, Time!Wait, Time!InWindow
  <1> QED
    BY <1>1, <1>2, <1>3, <1>4, <1>5, <1>6, <1>7, <1>8, <1>9 DEF Time!Edge
-----------------------------------------------------------------------------
(* The two controllers together. *)

\* In phase 3 the Time Controller waits for the scrub.
LEMMA PhaseThree ==
  ASSUME Window, Time!Edge, rtc_phase = 3
  PROVE  Time!Scrubbing
  <1>1. stopped
    BY DEF Window
  <1> QED
    BY <1>1 DEF Time!Edge, Time!Run, Time!Stop, Time!Count, Time!StartReset,
                Time!FirstHalf, Time!Restored, Time!Halt, Time!Release, Time!Wait

\* A scrub that goes on, or begins, was asked for, and is not over.
LEMMA ScrubGoesOn ==
  ASSUME Gate, Restoring, Window, Scan!Edge, scrub_q'
  PROVE  rtc_phase = 3 /\ ~Time!scrub_over
  <1> USE DEF Gate, Restoring, Window, Time!scrub_over, Scan!scrub_last_o, Scan!scrub_run_o
  <1>1. CASE Scan!ArmScrub
    BY <1>1 DEF Scan!ArmScrub, Scan!arm_s, Scan!busy
  <1>2. CASE Scan!LastShift
    BY <1>2 DEF Scan!LastShift
  <1>3. CASE Scan!Shift
    BY <1>3 DEF Scan!Shift
  <1>4. CASE Scan!Lead
    BY <1>4 DEF Scan!Lead
  <1>5. CASE Scan!Tail \/ Scan!Idle
    BY <1>5 DEF Scan!Tail, Scan!Idle, Scan!busy
  <1>6. CASE Scan!ArmInject
    BY <1>6 DEF Scan!ArmInject, Scan!arm0, Scan!busy
  <1>7. CASE Scan!SkipScrub
    BY <1>7 DEF Scan!SkipScrub, Scan!arm_s, Scan!busy
  <1> QED
    BY <1>1, <1>2, <1>3, <1>4, <1>5, <1>6, <1>7 DEF Scan!Edge

\* The scrub stays inside its phase, and the restore inside the scrub.
LEMMA RestoringKept ==
  ASSUME Gate, Window, Restoring, Scan!Edge, Time!Edge, RunGate
  PROVE  Restoring'
  <1>1. ASSUME scrub_q' PROVE rtc_phase' = 3
    <2>1. rtc_phase = 3 /\ ~Time!scrub_over
      BY <1>1, ScrubGoesOn
    <2> QED
      BY <2>1, PhaseThree DEF Time!Scrubbing
  <1>2. ASSUME rtc_phase' = 3, mem_req' PROVE run' /\ scrub_q' /\ run_gate_q'
    <2>1. rtc_phase = 3
      <3>1. SUFFICES ASSUME rtc_phase # 3 PROVE FALSE
        OBVIOUS
      <3>2. CASE Time!Stop
        BY <1>2, <3>2 DEF Window, Time!Stop, Time!Count
      <3>3. CASE Time!Run
        BY <1>2, <3>1, <3>3 DEF Time!Run
      <3>4. CASE Time!StartReset \/ Time!Scrubbing \/ Time!FirstHalf \/ Time!Restored
        BY <1>2, <3>1, <3>4 DEF Time!StartReset, Time!Scrubbing, Time!FirstHalf, Time!Restored
      <3>5. CASE Time!Halt \/ Time!Release \/ Time!Wait
        BY <1>2, <3>1, <3>5 DEF Time!Halt, Time!Release, Time!Wait
      <3> QED
        BY <3>2, <3>3, <3>4, <3>5 DEF Time!Edge
    <2>2. ~Time!scrub_over /\ ~resolver_rst /\ ~resolver_rst'
      <3>1. Time!Scrubbing /\ ~resolver_rst
        BY <2>1, PhaseThree DEF Window
      <3>2. ~Time!scrub_over
        BY <1>2, <3>1 DEF Time!Scrubbing
      <3>3. resolver_rst' = resolver_rst
        BY <3>1, <3>2 DEF Time!Scrubbing
      <3> QED
        BY <3>1, <3>2, <3>3
    <2>3. mem_req \/ Scan!scrub_run_o
      BY <1>2, <2>1, <2>2, PhaseThree, Zenon DEF Time!Scrubbing, Time!restore_go
    <2>4. run /\ scrub_q /\ clk_gate /\ run_cnt # run_end_q
      BY <2>1, <2>2, <2>3 DEF Restoring, Gate, Time!scrub_over, Scan!scrub_last_o,
                              Scan!scrub_run_o
    <2>5. Scan!Shift
      BY <2>4 DEF Gate, Scan!Edge, Scan!LastShift, Scan!Lead, Scan!Tail, Scan!ArmInject,
                  Scan!ArmScrub, Scan!SkipScrub, Scan!Idle, Scan!arm0, Scan!arm_s, Scan!busy
    <2>6. run_gate_q'
      BY <2>2, <2>4, Zenon DEF RunGate
    <2> QED
      BY <2>4, <2>5, <2>6 DEF Scan!Shift
  <1> QED
    BY <1>1, <1>2 DEF Restoring

\* With a chain and a scrub length above 0 a scrub shifts.
LEMMA ScrubShifts ==
  ASSUME Scrubs, cfg_scan_len = FI_SCAN_LEN
  PROVE  Scan!scrub_n \in Nat /\ Scan!scrub_n # 0
  BY ExecutorAssumption DEF Scrubs, Scan!scrub_n, Scan!L

\* A scrub is never skipped.
LEMMA NoSkip ==
  ASSUME Scrubs, Window, stopped => cfg_scan_len = FI_SCAN_LEN
  PROVE  ~Scan!SkipScrub
  <1>1. SUFFICES ASSUME Scan!SkipScrub PROVE FALSE
    OBVIOUS
  <1>2. scrub_req /\ Scan!scrub_n = 0
    BY <1>1 DEF Scan!SkipScrub, Scan!arm_s, Scan!scrub_none
  <1> QED
    BY <1>2, ScrubShifts DEF Window

\* The edge on which the reset rises: the last shift of a scrub.
LEMMA LastShiftEntersReset ==
  ASSUME Scrubs, Gate, Window, Restoring, Drained, Configured, stopped => cfg_scan_len = FI_SCAN_LEN,
         Scan!Edge, Time!Edge, Core, History, rtc_phase = 3, Time!scrub_over
  PROVE  /\ Scan!LastShift /\ ~clk_gate' /\ ~scan_start' /\ ~s1' /\ ~s2' /\ zeroed'
         /\ rtc_phase' = 6
         /\ MEM_RESTORE => mem_req'
  <1>1. Scan!scrub_last_o /\ run /\ scrub_q /\ run_cnt = run_end_q
    BY DEF Drained, Time!scrub_over, Scan!scrub_last_o, Scan!scrub_run_o
  <1>2. Scan!LastShift
    BY <1>1 DEF Gate, Scan!Edge, Scan!Shift, Scan!Lead, Scan!Tail, Scan!ArmInject,
                Scan!ArmScrub, Scan!SkipScrub, Scan!Idle, Scan!arm0, Scan!arm_s, Scan!busy
  <1>3. ~clk_gate'
    BY <1>2 DEF Scan!LastShift
  <1>4. ~scan_start' /\ rtc_phase' = 6
    BY PhaseThree DEF Time!Scrubbing, Time!InWindow
  <1>5. ~s1' /\ ~s2'
    <2>1. ~cfg_start /\ ~scan_start /\ ~s1
      BY <1>1 DEF Drained, Configured
    <2> QED
      BY <2>1 DEF Core, start_usr
  <1>6. zeroed'
    <2>1. nshift = Scan!scrub_n - 1 /\ Scan!scrub_n \in Nat
      BY <1>1, ScrubShifts DEF Gate, Drained, Window
    <2>2. nshift + 1 >= Scan!scrub_n
      BY <2>1
    <2> QED
      BY <1>1, <2>2, Zenon DEF History
  <1>7. MEM_RESTORE => mem_req'
    BY PhaseThree, Zenon DEF Time!Scrubbing, Time!restore_go
  <1> QED
    BY <1>2, <1>3, <1>4, <1>5, <1>6, <1>7

\* In the reset nothing can start a pass.
LEMMA ResetIsIdle ==
  ASSUME Scrubs, Gate, Window, Drained, Configured, Scan!Edge, Core, resolver_rst
  PROVE  ~clk_gate' /\ ~scrub_q' /\ ~scrub_done_o' /\ ~s1' /\ ~s2' /\ ~run
  <1>1. ~clk_gate /\ ~run /\ ~tm_lead /\ ~scrub_q /\ ~scan_start /\ ~s1 /\ ~s2 /\ ~scrub_req
    BY DEF Drained, Gate, Window
  <1>2. Scan!Tail \/ Scan!Idle
    BY <1>1 DEF Scan!Edge, Scan!Shift, Scan!LastShift, Scan!Lead, Scan!ArmInject,
                Scan!ArmScrub, Scan!SkipScrub, Scan!arm0, Scan!arm_s, Scan!start_pulse
  <1>3. ~clk_gate' /\ ~scrub_q' /\ ~scrub_done_o'
    BY <1>1, <1>2 DEF Scan!Tail, Scan!Idle
  <1>4. ~s1' /\ ~s2'
    BY <1>1 DEF Core, start_usr, Configured
  <1> QED
    BY <1>1, <1>3, <1>4

\* What the reset finds: an idle Scan Controller, an empty pipeline, a chain of
\* zeros.
LEMMA DrainedKept ==
  ASSUME Scrubs, Gate, Window, Restoring, Drained, Configured,
         stopped => cfg_scan_len' = cfg_scan_len /\ cfg_scan_len = FI_SCAN_LEN,
         Scan!Edge, Time!Edge, Core, History
  PROVE  Drained'
  <1>1. Window'
    BY WindowKept
  <1>2. ASSUME scrub_done_o' PROVE rtc_phase' # 3
    <2>1. ~Scan!SkipScrub
      BY NoSkip
    <2>2. Scan!LastShift /\ scrub_q
      BY <1>2, <2>1 DEF Scan!Edge, Scan!Shift, Scan!LastShift, Scan!Lead, Scan!Tail,
           Scan!ArmInject, Scan!ArmScrub, Scan!Idle
    <2>3. rtc_phase = 3 /\ Time!scrub_over
      BY <2>2 DEF Restoring, Scan!LastShift, Time!scrub_over, Scan!scrub_last_o,
                  Scan!scrub_run_o
    <2> QED
      BY <2>3, LastShiftEntersReset
  <1>3. ASSUME scrub_q'
        PROVE  ~scan_start' /\ (run' => ~s1') /\ run_end_q' = Scan!scrub_n' - 1
    <2>1. rtc_phase = 3 /\ stopped
      BY <1>3, ScrubGoesOn DEF Window
    <2>2. ~scan_start'
      BY <2>1, PhaseThree DEF Time!Scrubbing, Time!InWindow
    <2>3. Scan!scrub_n' = Scan!scrub_n
      BY <2>1 DEF Scan!scrub_n, Scan!L
    <2>4. CASE Scan!ArmScrub
      BY <2>2, <2>3, <2>4 DEF Scan!ArmScrub, Scan!arm_s, Scan!busy, Scan!scrub_end_calc
    <2>5. CASE scrub_q /\ run_end_q' = run_end_q
      <3>1. ~scan_start /\ ~cfg_start /\ run_end_q = Scan!scrub_n - 1
        BY <2>5 DEF Drained, Configured
      <3>2. ~s1'
        BY <3>1 DEF Core, start_usr
      <3> QED
        BY <2>2, <2>3, <2>5, <3>1, <3>2
    <2>6. Scan!ArmScrub \/ (scrub_q /\ run_end_q' = run_end_q)
      <3>1. CASE Scan!Shift \/ Scan!LastShift \/ Scan!Lead \/ Scan!Tail
        BY <1>3, <3>1 DEF Scan!Shift, Scan!LastShift, Scan!Lead, Scan!Tail
      <3>2. CASE Scan!SkipScrub \/ Scan!Idle
        BY <1>3, <3>2 DEF Scan!SkipScrub, Scan!Idle
      <3>3. ~Scan!ArmInject
        BY <1>3 DEF Scan!ArmInject, Scan!arm0, Scan!busy, Gate
      <3> QED
        BY <3>1, <3>2, <3>3 DEF Scan!Edge
    <2> QED
      BY <2>4, <2>5, <2>6
  <1>4. ASSUME resolver_rst'
        PROVE  /\ ~clk_gate' /\ ~scan_start' /\ ~s1' /\ ~s2' /\ zeroed'
               /\ MEM_RESTORE => mem_req' \/ mem_halt'
    <2>1. CASE rtc_phase = 3 /\ Time!scrub_over
      BY <2>1, LastShiftEntersReset
    <2>2. CASE resolver_rst
      <3>1. ~clk_gate' /\ ~s1' /\ ~s2'
        BY <2>2, ResetIsIdle
      <3>2. zeroed'
        BY <2>2, Zenon DEF Drained, History
      <3>3. Time!FirstHalf \/ Time!Halt \/ Time!Wait
        <4>1. rtc_phase \in {2, 5, 6} /\ stopped
          BY <2>2 DEF Window, Scrubs
        <4>2. ~Time!Release
          BY <1>4 DEF Time!Release
        <4> QED
          BY <4>1, <4>2 DEF Time!Edge, Time!Run, Time!Stop, Time!Count, Time!StartReset,
               Time!Scrubbing, Time!Restored
      <3>4. ~scan_start'
        BY <3>3 DEF Time!FirstHalf, Time!Halt, Time!Wait, Time!InWindow
      <3>5. MEM_RESTORE => mem_req' \/ mem_halt'
        BY <2>2, <3>3 DEF Drained, Time!FirstHalf, Time!Halt, Time!Wait
      <3> QED
        BY <3>1, <3>2, <3>4, <3>5
    <2>3. resolver_rst \/ (rtc_phase = 3 /\ Time!scrub_over)
      <3>1. SUFFICES ASSUME ~resolver_rst PROVE rtc_phase = 3 /\ Time!scrub_over
        OBVIOUS
      <3>2. rtc_phase \in {0, 3}
        BY <3>1 DEF Window, Scrubs
      <3>3. rtc_phase # 0
        BY <1>4, <3>1 DEF Window, Time!Edge, Time!Run, Time!Stop, Time!StartReset,
             Time!Scrubbing, Time!FirstHalf, Time!Restored, Time!Halt, Time!Release, Time!Wait
      <3>4. Time!Scrubbing
        BY <3>2, <3>3, PhaseThree
      <3>5. Time!scrub_over
        <4>1. SUFFICES ASSUME ~Time!scrub_over PROVE FALSE
          OBVIOUS
        <4>2. resolver_rst' = resolver_rst
          BY <3>4, <4>1 DEF Time!Scrubbing
        <4> QED
          BY <1>4, <3>1, <4>2
      <3> QED
        BY <3>2, <3>3, <3>5
    <2> QED
      BY <2>1, <2>2, <2>3
  <1> QED
    BY <1>2, <1>3, <1>4 DEF Drained

-----------------------------------------------------------------------------
(* The window as a whole. *)

\* At power-on nothing is under way.
LEMMA InitWindow == BatchInit => WindowInv
  <1> SUFFICES ASSUME BatchInit PROVE WindowInv
    OBVIOUS
  <1>1. Configured
    BY DEF BatchInit, Init, Time!Init, Configured
  <1>2. Gate
    BY DEF BatchInit, Init, Scan!Init, Gate
  <1>3. Window
    BY SwitchTypes DEF BatchInit, Init, Time!Init, Window
  <1>4. Restoring /\ Drained
    BY DEF BatchInit, Init, Scan!Init, Time!Init, Restoring, Drained
  <1> QED
    BY <1>1, <1>2, <1>3, <1>4 DEF WindowInv

\* An edge, taken apart.
LEMMA TickParts ==
  ASSUME Tick
  PROVE  Scan!Edge /\ Time!Edge /\ Core /\ RunGate /\ Memory /\ History /\ HostStep
  BY Zenon DEF Tick, Edge, HostStep

\* The window's invariant is inductive.
LEMMA WindowInductive == WindowInv /\ [Tick]_allVars => WindowInv'
  <1> SUFFICES ASSUME WindowInv, [Tick]_allVars PROVE WindowInv'
    OBVIOUS
  <1> USE DEF WindowInv
  <1>1. CASE Tick
    <2>1. Scan!Edge /\ Time!Edge /\ Core /\ RunGate /\ History /\ HostStep
      BY <1>1, TickParts
    <2>2. Configured' /\ (stopped => cfg_scan_len' = cfg_scan_len /\ cfg_scan_len = FI_SCAN_LEN)
      BY <2>1, ConfiguredKept
    <2>3. Gate' /\ Window' /\ Restoring'
      BY <2>1, GateKept, WindowKept, RestoringKept
    <2>4. Scrubs => Drained'
      BY <2>1, <2>2, DrainedKept
    <2>5. Scrubs' <=> Scrubs
      BY DEF Scrubs
    <2> QED
      BY <2>2, <2>3, <2>4, <2>5
  <1>2. CASE UNCHANGED allVars
    <2>1. UNCHANGED <<cfgRegs, scanRegs, timeRegs, coreRegs, history, pc, batch>>
      BY <1>2 DEF allVars, vars, hostVars
    <2>2. Configured' /\ Gate' /\ Window' /\ Restoring'
      BY <2>1 DEF cfgRegs, scanRegs, timeRegs, coreRegs, history,
                  Configured, Gate, Window, Restoring
    <2>3. Scrubs => Drained'
      BY <2>1 DEF cfgRegs, scanRegs, timeRegs, coreRegs, history, Drained, Scan!scrub_n, Scan!L
    <2>4. Scrubs' <=> Scrubs
      BY DEF Scrubs
    <2> QED
      BY <2>2, <2>3, <2>4
  <1> QED
    BY <1>1, <1>2

\* With a scrub, test mode and the shift enable are off whenever the DUT is in
\* reset: no pass, injection or scrub, is cut by a reset or runs in one.
THEOREM ScanNeverMeetsReset ==
  ASSUME Scrubs PROVE Spec => []NoTestmodeInReset
  <1>1. WindowInv => NoTestmodeInReset
    BY DEF WindowInv, Gate, Window, Drained, NoTestmodeInReset, testmode_o
  <1> QED
    BY <1>1, InitWindow, WindowInductive, PTL DEF Spec

-----------------------------------------------------------------------------
(* The memory. *)

\* While a memory is being restored the DUT's clock stands or the DUT is in
\* reset.
LEMMA RestoreFrozen == WindowInv => (mem_req => ~run_o \/ resolver_rst)
  BY Zenon DEF WindowInv, Gate, Window, Restoring, run_o

\* A DUT that does not write in reset never writes into a restore, and so no
\* memory ever has to report one.
LEMMA NeverBad ==
  ASSUME ~DUT_UNRULY, WindowInv, ~fi_bad, [Tick]_allVars
  PROVE  ~fi_bad'
  <1>1. CASE Tick
    <2>1. PICK wenb \in {FALSE, DutMayWrite}, a \in Mem!Addr, d \in Word :
            Mem!Edge(run_o, wenb, a, d)
      BY <1>1, TickParts DEF Memory
    <2>2. mem_req => ~(run_o /\ wenb)
      BY RestoreFrozen, <2>1 DEF DutMayWrite
    <2>3. CASE Mem!Logged(run_o, wenb, a, d) \/ Mem!Dropped(run_o, wenb, a, d)
                 \/ Mem!Plain(run_o, wenb, a, d)
      BY <2>3, Zenon DEF Mem!Logged, Mem!Dropped, Mem!Plain, Mem!DutSide
    <2>4. CASE mem_req /\ fi_bad' = (fi_bad \/ (run_o /\ wenb))
      BY <2>2, <2>4, Zenon
    <2>5. CASE Mem!Undo(run_o, wenb) \/ Mem!Undone(run_o, wenb)
                 \/ Mem!Fill(run_o, wenb) \/ Mem!Filled(run_o, wenb)
      BY <2>4, <2>5, Zenon DEF Mem!Undo, Mem!Undone, Mem!Fill, Mem!Filled, Mem!RestoreSide
    <2> QED
      BY <2>1, <2>3, <2>5, Zenon DEF Mem!Edge
  <1>2. CASE UNCHANGED allVars
    BY <1>2 DEF allVars, vars, memRegs
  <1> QED
    BY <1>1, <1>2

\* A memory is restored only behind the freeze gate or in the DUT's reset, so
\* its restore never meets the DUT and no campaign halts for it, for every
\* SCRUB setting, scrub length, memory kind and geometry.
THEOREM RestoreNeverMeetsDut ==
  ASSUME ~DUT_UNRULY PROVE Spec => []MemoryOffLimits
  <1>1. BatchInit => ~fi_bad
    BY DEF BatchInit, Init, Mem!Init
  <1>2. WindowInv /\ ~fi_bad /\ [Tick]_allVars => ~fi_bad'
    BY NeverBad
  <1>3. WindowInv /\ ~fi_bad => MemoryOffLimits
    BY RestoreFrozen DEF MemoryOffLimits
  <1> QED
    BY <1>1, <1>2, <1>3, InitWindow, WindowInductive, PTL DEF Spec

\* The memory in the Executor and the memory of the lemmas are the same.
LEMMA SameMemory ==
  /\ \A clk, wenb, a, d : Mem!Edge(clk, wenb, a, d) <=> MemL!Mem!Edge(clk, wenb, a, d)
  /\ Mem!Init <=> MemL!Mem!Init
  /\ Mem!fi_done_o <=> MemL!Mem!fi_done_o
  /\ Mem!Addr = MemL!Mem!Addr
  BY DEF Mem!Edge, Mem!Logged, Mem!Dropped, Mem!Plain, Mem!Undo, Mem!Undone, Mem!Fill,
         Mem!Filled, Mem!DutSide, Mem!RestoreSide, Mem!Addr, Mem!LogSlots, Mem!Init,
         Mem!fi_done_o,
         MemL!Mem!Edge, MemL!Mem!Logged, MemL!Mem!Dropped, MemL!Mem!Plain, MemL!Mem!Undo,
         MemL!Mem!Undone, MemL!Mem!Fill, MemL!Mem!Filled, MemL!Mem!DutSide,
         MemL!Mem!RestoreSide, MemL!Mem!Addr, MemL!Mem!LogSlots, MemL!Mem!Init,
         MemL!Mem!fi_done_o

\* What the memory's lemmas assume of its geometry holds of the Executor's.
LEMMA MemGeometry ==
  /\ FI_KIND \in {0, 1}
  /\ FI_LOG_DEPTH \in Nat
  /\ FI_BANKS \in Nat \ {0} /\ FI_BANK_DEPTH \in Nat \ {0}
  /\ FI_FILL_WORD \in Word
  BY ExecutorAssumption

\* At power-on the memory holds the fill word and its log is empty.
LEMMA InitMemory == BatchInit => MemL!RestoreInv
  <1> SUFFICES ASSUME BatchInit PROVE MemL!RestoreInv
    OBVIOUS
  <1>1. FI_FILL_WORD \in Word /\ mem_req = FALSE
    BY ExecutorAssumption DEF BatchInit, Init, Time!Init
  <1>2. [x \in Mem!Addr |-> FI_FILL_WORD] \in MemL!PowerOn
    BY <1>1, SameMemory DEF MemL!PowerOn
  <1>3. ram = [x \in Mem!Addr |-> FI_FILL_WORD] /\ MemL!Mem!Init
    BY SameMemory, Zenon DEF BatchInit, Init
  <1>4. MemL!Init
    BY <1>1, <1>2, <1>3, Zenon DEF MemL!Init
  <1> QED
    BY <1>4, MemGeometry, MemL!InitRestoreInv, Zenon

\* The Time Controller's request stays a Boolean.
LEMMA RequestBoolean ==
  ASSUME mem_req \in BOOLEAN, Time!Edge
  PROVE  mem_req' \in BOOLEAN
  <1>1. CASE Time!Run \/ Time!Stop
    BY <1>1 DEF Time!Run, Time!Stop, Time!Count
  <1>2. CASE Time!StartReset
    BY <1>2, Zenon DEF Time!StartReset
  <1>3. CASE Time!Scrubbing
    BY <1>3, Zenon DEF Time!Scrubbing
  <1>4. CASE Time!FirstHalf \/ Time!Restored \/ Time!Halt \/ Time!Release \/ Time!Wait
    BY <1>4 DEF Time!FirstHalf, Time!Restored, Time!Halt, Time!Release, Time!Wait
  <1> QED
    BY <1>1, <1>2, <1>3, <1>4 DEF Time!Edge

\* An edge of the Executor, as the memory sees it.
LEMMA MemoryEdge ==
  ASSUME Memory
  PROVE  \E wenb \in BOOLEAN, a \in MemL!Mem!Addr, d \in Word :
           MemL!Mem!Edge(run_o, wenb, a, d)
  <1>1. PICK wenb \in {FALSE, DutMayWrite}, a \in Mem!Addr, d \in Word :
          Mem!Edge(run_o, wenb, a, d)
    BY DEF Memory
  <1>2. DutMayWrite \in BOOLEAN
    BY ExecutorAssumption DEF DutMayWrite
  <1>3. wenb \in BOOLEAN
    BY <1>1, <1>2
  <1> QED
    BY <1>1, <1>3, SameMemory, Zenon

\* The memory's invariant holds in the Executor: undoing the log leads back to
\* the power-on content, or the fill has got as far as it says.
LEMMA MemoryInductive == MemL!RestoreInv /\ [Tick]_allVars => MemL!RestoreInv'
  <1> SUFFICES ASSUME MemL!RestoreInv, [Tick]_allVars PROVE MemL!RestoreInv'
    OBVIOUS
  <1>1. CASE Tick
    <2>1. PICK wenb \in BOOLEAN, a \in MemL!Mem!Addr, d \in Word :
            MemL!Mem!Edge(run_o, wenb, a, d)
      BY <1>1, TickParts, MemoryEdge
    <2>2. mem_req' \in BOOLEAN
      BY <1>1, TickParts, RequestBoolean DEF MemL!RestoreInv, MemL!MemTypeOK
    <2>3. run_o \in BOOLEAN
      BY Zenon DEF run_o
    <2>4. [x \in Mem!Addr |-> FI_FILL_WORD]' = [x \in Mem!Addr |-> FI_FILL_WORD]
      BY DEF Mem!Addr
    <2> QED
      BY <2>1, <2>2, <2>3, <2>4, MemGeometry, MemL!EdgeKeepsInv, Zenon
  <1>2. CASE UNCHANGED allVars
    <2>1. UNCHANGED <<memRegs, mem_req>>
      BY <1>2 DEF allVars, vars, timeRegs
    <2> QED
      BY <2>1 DEF memRegs, MemL!RestoreInv, MemL!MemTypeOK, MemL!LogLeadsBack,
                  MemL!FillSweep, MemL!PowerOn, MemL!Mem!Addr, MemL!Mem!LogSlots, Mem!Addr
  <1> QED
    BY <1>1, <1>2

\* Once a memory says it is restored it holds its power-on content, and keeps
\* it as long as the restore is asked for.
LEMMA RestoredStays ==
  ASSUME MemL!RestoreInv, Memory, Mem!fi_done_o
  PROVE  ram = [x \in Mem!Addr |-> FI_FILL_WORD] /\ ram' = ram
  <1>1. ram = [x \in Mem!Addr |-> FI_FILL_WORD]
    BY MemGeometry, MemL!RestoreInvImplies, SameMemory, Zenon DEF MemL!DoneMeansRestored
  <1>2. PICK wenb, a, d : Mem!Edge(run_o, wenb, a, d)
    BY DEF Memory
  <1>3. mem_req /\ (FI_KIND = 0 => fi_log_n = 0) /\ (FI_KIND # 0 => fi_fill_done)
    BY DEF Mem!fi_done_o
  <1>4. Mem!Undone(run_o, wenb) \/ Mem!Filled(run_o, wenb)
    BY <1>2, <1>3, Zenon DEF Mem!Edge, Mem!Logged, Mem!Dropped, Mem!Plain, Mem!DutSide,
         Mem!Undo, Mem!Fill
  <1>5. ram' = ram
    BY <1>4, Zenon DEF Mem!Undone, Mem!Filled
  <1> QED
    BY <1>1, <1>5

-----------------------------------------------------------------------------
(* A trial starts clean. *)

\* The edge on which the reset falls: the end of the window, with the memories
\* restored.
LEMMA ReleaseOnly ==
  ASSUME Window, Time!Edge, resolver_rst, ~resolver_rst'
  PROVE  rtc_phase = 2 /\ Time!mem_ready
  <1>1. stopped /\ rtc_phase \in {2, 4, 5, 6}
    BY DEF Window
  <1>2. ~Time!Run /\ ~Time!Stop /\ ~Time!StartReset /\ ~Time!Scrubbing
    BY <1>1 DEF Time!Run, Time!Stop, Time!Count, Time!StartReset, Time!Scrubbing
  <1>3. ~Time!FirstHalf /\ ~Time!Restored /\ ~Time!Halt /\ ~Time!Wait
    BY DEF Time!FirstHalf, Time!Restored, Time!Halt, Time!Wait
  <1>4. Time!Release
    BY <1>2, <1>3 DEF Time!Edge
  <1> QED
    BY <1>4 DEF Time!Release

\* With scrub and memory restore, every trial of every campaign starts from a
\* chain on which no functional edge has come since the scrub's zeros, and from
\* the memory's power-on content.
THEOREM TrialsStartClean ==
  ASSUME Scrubs, MEM_RESTORE PROVE Spec => CleanStart
  <1>1. ASSUME WindowInv, MemL!RestoreInv, [Tick]_allVars, resolver_rst, ~resolver_rst'
        PROVE  zeroed' /\ ram' = [x \in Mem!Addr |-> FI_FILL_WORD]
    <2>1. Tick
      BY <1>1 DEF allVars, vars, timeRegs
    <2>2. Scan!Edge /\ Time!Edge /\ Memory /\ History
      BY <2>1, TickParts
    <2>3. Window /\ Drained
      BY <1>1 DEF WindowInv
    <2>4. rtc_phase = 2 /\ Time!mem_ready
      BY <1>1, <2>2, <2>3, ReleaseOnly
    <2>5. zeroed'
      BY <1>1, <2>2, <2>3, Zenon DEF Drained, History
    <2>6. Mem!fi_done_o
      BY <1>1, <2>3, <2>4 DEF Drained, Window, Time!mem_ready
    <2>7. ram' = [x \in Mem!Addr |-> FI_FILL_WORD]
      BY <1>1, <2>2, <2>6, RestoredStays
    <2> QED
      BY <2>5, <2>7
  <1>2. WindowInv /\ MemL!RestoreInv /\ [Tick]_allVars =>
          [resolver_rst /\ ~resolver_rst' => zeroed' /\ ram' = [x \in Mem!Addr |-> FI_FILL_WORD]]_allVars
    BY <1>1
  <1> QED
    BY <1>2, InitWindow, WindowInductive, InitMemory, MemoryInductive, PTL DEF Spec, CleanStart

\* A word is at its power-on content or in the log.
InTheLog ==
  \A x \in Mem!Addr : ram[x] = FI_FILL_WORD \/ \E i \in 0 .. fi_log_n - 1 : fi_log_a[i] = x

\* An UNDO memory needs no more than its log: when a trial starts, even a word
\* that a DUT in reset has written is either at its power-on content or in the
\* log for the next restore, with or without scrub and restore.
THEOREM WritesAccountedFor ==
  ASSUME FI_KIND = 0 PROVE Spec => MemoryAccounted
  <1>1. MemL!RestoreInv => InTheLog
    <2>1. SUFFICES ASSUME MemL!RestoreInv PROVE InTheLog
      OBVIOUS
    <2>2. MemL!LogLeadsBack
      BY <2>1 DEF MemL!RestoreInv
    <2> QED
      BY <2>2, SameMemory DEF MemL!LogLeadsBack, InTheLog
  <1>2. InTheLog' =>
          [resolver_rst /\ ~resolver_rst' =>
             \A x \in Mem!Addr :
               ram'[x] = FI_FILL_WORD \/ \E i \in 0 .. fi_log_n' - 1 : fi_log_a'[i] = x]_allVars
    BY DEF InTheLog
  <1> QED
    BY <1>1, <1>2, InitMemory, MemoryInductive, PTL DEF Spec, MemoryAccounted

-----------------------------------------------------------------------------
(* A halt is final. *)

\* At power-on nothing has been injected.
LEMMA InitInjected == BatchInit => Injected
  <1> SUFFICES ASSUME BatchInit PROVE Injected
    OBVIOUS
  <1>1. ftime \in Nat /\ flips \subseteq Int /\ inj = <<>>
    BY DEF BatchInit, Init
  <1> QED
    BY <1>1, EmptySeq DEF Injected

\* What is injected is recorded with a cycle and a set of positions.
LEMMA InjectedKept ==
  ASSUME Injected, Gate, cfg_scan_len \in Int, History
  PROVE  Injected'
  <1> DEFINE flipped == IF InjectShift /\ Scan!scan_in_o = 1
                        THEN flips \union {cfg_scan_len - 1 - nshift} ELSE flips
             ended == InjectShift /\ ~scan_en_o'
  <1>1. flipped \subseteq Int
    BY DEF Injected, Gate
  <1>2. ftime' \in Nat
    <2>1. (ftime + 1) % WORD \in Nat
      BY ExecutorAssumption DEF Injected
    <2> QED
      BY <2>1 DEF History, Injected
  <1>3. flips' \subseteq Int
    BY <1>1 DEF History
  <1>4. inj' \in Seq([cycle : Nat, cells : SUBSET Int])
    <2>1. [cycle |-> ftime, cells |-> flipped] \in [cycle : Nat, cells : SUBSET Int]
      BY <1>1 DEF Injected
    <2>2. inj' = IF cfg_fi_cycle_wr THEN <<>>
                 ELSE IF ended THEN Append(inj, [cycle |-> ftime, cells |-> flipped]) ELSE inj
      BY DEF History
    <2>3. inj \in Seq([cycle : Nat, cells : SUBSET Int])
      BY DEF Injected
    <2> HIDE DEF flipped, ended
    <2> QED
      BY <2>1, <2>2, <2>3, AppendProperties, EmptySeq
  <1> QED
    BY <1>2, <1>3, <1>4 DEF Injected

\* The history's types are inductive.
LEMMA InjectedInductive == WindowInv /\ Injected /\ [Tick]_allVars => Injected'
  <1> SUFFICES ASSUME WindowInv, Injected, [Tick]_allVars PROVE Injected'
    OBVIOUS
  <1>1. CASE Tick
    <2>1. Gate /\ cfg_scan_len \in Int
      BY ExecutorAssumption DEF WindowInv, Configured
    <2> QED
      BY <1>1, <2>1, TickParts, InjectedKept
  <1>2. CASE UNCHANGED allVars
    <2>1. UNCHANGED history
      BY <1>2 DEF allVars, vars
    <2> QED
      BY <2>1 DEF history, Injected
  <1> QED
    BY <1>1, <1>2

\* A campaign that halted stays halted whatever the host writes: the DUT stays
\* in reset and nothing is injected any more.
THEOREM HaltedForGood ==
  ASSUME Scrubs PROVE Spec => HaltIsFinal
  <1>1. ASSUME WindowInv, Injected, [Tick]_allVars, mem_halt
        PROVE  mem_halt' /\ resolver_rst' /\ Len(inj') <= Len(inj)
    <2>1. /\ rtc_phase = 5 /\ stopped /\ resolver_rst /\ ~run
          /\ Len(inj) \in Nat
      BY <1>1, LenProperties DEF WindowInv, Window, Gate, Drained, Injected
    <2>2. CASE Tick
      <3>1. Time!Edge /\ History
        BY <2>2, TickParts
      <3>2. Time!Wait
        BY <2>1, <3>1 DEF Time!Edge, Time!Run, Time!Stop, Time!Count, Time!StartReset,
             Time!Scrubbing, Time!FirstHalf, Time!Restored, Time!Halt, Time!Release
      <3>3. mem_halt' /\ resolver_rst'
        BY <1>1, <2>1, <3>2 DEF Time!Wait
      <3>4. ~InjectShift
        BY <1>1, <2>1 DEF InjectShift, WindowInv, Gate
      <3>5. inj' = <<>> \/ inj' = inj
        BY <3>1, <3>4 DEF History
      <3>6. Len(inj') <= Len(inj)
        BY <2>1, <3>5, EmptySeq
      <3> QED
        BY <3>3, <3>6
    <2>3. CASE UNCHANGED allVars
      BY <1>1, <2>1, <2>3 DEF allVars, vars, timeRegs, history
    <2> QED
      BY <1>1, <2>2, <2>3
  <1>2. WindowInv /\ Injected /\ [Tick]_allVars =>
          [mem_halt => mem_halt' /\ resolver_rst' /\ Len(inj') <= Len(inj)]_allVars
    BY <1>1
  <1> QED
    BY <1>2, InitWindow, WindowInductive, InitInjected, InjectedInductive, PTL
       DEF Spec, HaltIsFinal
-----------------------------------------------------------------------------
(* Static mode. *)

\* Nothing of table mode is on, and no trial ends.
StaticMode ==
  /\ ~cfg_auto /\ cfg_end = FALSE /\ ~cfg_fi_cycle_wr /\ cfg_to_thr = 0
  /\ ~cfg_en_able /\ fi_cycle_q = 0 /\ end_sync = <<FALSE, FALSE>> /\ ~scan_start
  /\ ~stopped /\ ~scrub_req /\ ~scrub_q

\* A start is a pulse that goes through the pipeline alone, and brings the mark that lets
\* one index through; a pass of a single shift may use the mark up before it arms.
StartAlone ==
  /\ cfg_scan_len \in {0, FI_SCAN_LEN} /\ cfg_fi_index \in Nat /\ quiet \in 0 .. SPACING
  /\ cfg_start \in BOOLEAN /\ s1 \in BOOLEAN /\ s2 \in BOOLEAN /\ static_first \in BOOLEAN
  /\ cfg_start => quiet = 0
  /\ s1 => quiet = 1 /\ static_first
  /\ s2 => quiet = 2 /\ (static_first \/ clk_gate \/ FI_SCAN_LEN = 1)

\* The step of an index, and the cells it names.
StepOf(i) == IF i >= FI_SCAN_LEN THEN FI_SCAN_LEN ELSE FI_SCAN_LEN - 1 - i
Named(i)  == {i} \intersect 0 .. FI_SCAN_LEN - 1

\* A pass in progress has its index still to come in the first stage, or has flipped it.
ToCome(i) ==
  /\ hit_vld_q /\ ~hit_vld_nx /\ hit_step_q = StepOf(i) /\ flips = {}
  /\ run => run_cnt <= hit_step_q
  /\ run /\ hit_step_q = FI_SCAN_LEN => run_cnt = 0
Done(i) == ~hit_vld_q /\ flips = Named(i)

OnePass ==
  /\ cfg_scan_len = FI_SCAN_LEN /\ run_end_q = FI_SCAN_LEN - 1
  /\ run => run_cnt <= run_end_q
  /\ tm_lead => ~static_first
  /\ LET i == wanted[Len(wanted)] IN i # 0 /\ (ToCome(i) \/ Done(i))

\* Every pass so far, and the one in progress.
Passes ==
  /\ wanted \in Seq(Nat) /\ ~err_order_o
  /\ Len(wanted) = Len(inj) + (IF clk_gate THEN 1 ELSE 0)
  /\ \A k \in 1 .. Len(inj) : inj[k].cells = Named(wanted[k])
  /\ IF clk_gate THEN OnePass ELSE flips = {}

StaticInv == Gate /\ Injected /\ StaticMode /\ StartAlone /\ Passes

\* A host's step in static mode.
StaticHost == NoWrite \/ SetScanLen \/ Start \/ \E i \in Indices : SetIndex(i)

\* Table mode's registers stay as they are.
LEMMA StaticModeKept ==
  ASSUME StaticMode, Gate, Scan!Edge, Time!Edge, EnAble, StaticHost
  PROVE  StaticMode'
  <1>1. /\ ~cfg_auto' /\ cfg_end' = FALSE /\ ~cfg_fi_cycle_wr' /\ cfg_to_thr' = 0
    <2>1. UNCHANGED <<cfg_auto, cfg_end, cfg_fi_cycle_wr, cfg_to_thr>>
      BY Zenon DEF StaticHost, NoWrite, SetScanLen, Start, SetIndex, MayWrite
    <2> QED  BY <2>1 DEF StaticMode
  <1>2. end_sync' = <<FALSE, FALSE>>
    <2>1. end_sync' = <<cfg_end, end_sync[1]>> /\ end_sync[1] = FALSE /\ cfg_end = FALSE
      <3>1. end_sync' = <<cfg_end, end_sync[1]>>
        BY DEF Time!Edge, Time!Synchronisers
      <3>2. end_sync[1] = FALSE
        BY DEF StaticMode
      <3>3. cfg_end = FALSE
        BY DEF StaticMode
      <3> QED  BY <3>1, <3>2, <3>3
    <2> QED  BY <2>1
  <1>3. ~Time!stop_event
    <2>1. ~Time!end_rise_pulse
      BY DEF StaticMode, Time!end_rise_pulse
    <2>2. ~Time!to_hit_en
      BY DEF StaticMode, Time!to_hit_en
    <2> QED  BY <2>1, <2>2 DEF Time!stop_event, Time!stop_by_to, Time!stop_by_mem
  <1>4. Time!Run
    BY <1>3, Zenon DEF StaticMode, Time!Edge, Time!Stop, Time!StartReset, Time!Scrubbing,
           Time!FirstHalf, Time!Restored, Time!Halt, Time!Release, Time!Wait, Time!InWindow
  <1>5. ~stopped' /\ ~scrub_req'
    BY <1>4, Zenon DEF StaticMode, Time!Run
  <1>6. ~scan_start'
    BY <1>4, Zenon DEF StaticMode, Time!Run, Time!Count, Time!fire, Time!fi_hit_en
  <1>7. fi_cycle_q' = 0
    BY <1>4 DEF StaticMode, Time!Run, Time!Count, Time!Target
  <1>8. ~cfg_en_able'
    BY Zenon DEF StaticMode, EnAble
  <1>9. ~scrub_q'
    BY DEF StaticMode, Scan!Edge, Scan!Shift, Scan!LastShift, Scan!Lead, Scan!Tail, Scan!ArmInject,
           Scan!ArmScrub, Scan!SkipScrub, Scan!Idle, Scan!arm_s
  <1> QED  BY <1>1, <1>2, <1>5, <1>6, <1>7, <1>8, <1>9 DEF StaticMode

\* No scrub: the controller shifts, arms for an injection, or leaves the pass alone.
LEMMA StaticScan ==
  ASSUME StaticMode, Scan!Edge
  PROVE  Scan!Shift \/ Scan!LastShift \/ Scan!Lead \/ Scan!Tail \/ Scan!ArmInject \/ Scan!Idle
  BY DEF StaticMode, Scan!Edge, Scan!ArmScrub, Scan!SkipScrub, Scan!arm_s

\* The multiplexers of fi_executor_core: the register is the index source.
LEMMA StaticSource ==
  ASSUME StaticMode
  PROVE  /\ entry_index_sel = cfg_fi_index /\ entry_valid_sel = static_first
         /\ arm_ok <=> cfg_fi_index # 0
         /\ start_usr <=> cfg_start
  BY Zenon DEF StaticMode, entry_index_sel, entry_valid_sel, arm_ok, start_usr

\* A register write leaves the others alone, and comes only after SPACING edges.
LEMMA StaticWrites ==
  ASSUME StartAlone, StaticHost
  PROVE  /\ cfg_scan_len' \in {0, FI_SCAN_LEN} /\ cfg_fi_index' \in Nat /\ quiet' \in 0 .. SPACING
         /\ cfg_start' \in BOOLEAN /\ (cfg_start' => quiet' = 0)
         /\ quiet < SPACING => quiet' = quiet + 1
         /\ cfg_scan_len = FI_SCAN_LEN => cfg_scan_len' = FI_SCAN_LEN
<1> USE ExecutorAssumption, StaticAssumption DEF StartAlone
<1>1. CASE NoWrite
  <2>1. cfg_scan_len' = cfg_scan_len /\ cfg_fi_index' = cfg_fi_index /\ cfg_start' = FALSE
    BY <1>1 DEF NoWrite
  <2>2. quiet' = IF quiet < SPACING THEN quiet + 1 ELSE quiet
    BY <1>1 DEF NoWrite
  <2>3. quiet' \in 0 .. SPACING /\ (quiet < SPACING => quiet' = quiet + 1)
    BY <2>2
  <2> QED  BY <2>1, <2>3
<1>2. CASE SetScanLen
  BY <1>2 DEF SetScanLen, MayWrite
<1>3. CASE Start
  BY <1>3 DEF Start, MayWrite
<1>4. CASE \E i \in Indices : SetIndex(i)
  BY <1>4 DEF SetIndex, MayWrite
<1> QED  BY <1>1, <1>2, <1>3, <1>4 DEF StaticHost

\* The index of the pass in progress.
LEMMA IndexOfPass ==
  ASSUME Passes, Injected, clk_gate
  PROVE  wanted[Len(wanted)] \in Nat \ {0} /\ Len(wanted) \in Nat /\ Len(wanted) = Len(inj) + 1
<1>1. Len(inj) \in Nat /\ Len(wanted) \in Nat /\ Len(wanted) = Len(inj) + 1
  BY DEF Passes, Injected
<1>2. Len(wanted) \in 1 .. Len(wanted)
  BY <1>1
<1>3. wanted[Len(wanted)] \in Nat
  BY <1>2 DEF Passes
<1> QED  BY <1>1, <1>3 DEF Passes, OnePass

\* An index still to come is flipped at its step or, if it is past the chain, dropped
\* in the first cycle; the pass does not end before.
LEMMA ComesOnce ==
  ASSUME NEW i \in Nat, ToCome(i), run, run_cnt \in Nat, run_cnt <= run_end_q,
         run_end_q = FI_SCAN_LEN - 1, cfg_scan_len = FI_SCAN_LEN
  PROVE  /\ ~Scan!stale
         /\ Scan!advance => Named(i) = IF Scan!hit THEN {cfg_scan_len - 1 - run_cnt} ELSE {}
         /\ ~Scan!advance => ~Scan!hit /\ run_cnt + 1 <= hit_step_q /\ hit_step_q # FI_SCAN_LEN
         /\ run_cnt = run_end_q => Scan!advance /\ (i = 0 \/ FI_SCAN_LEN = 1)
<1> USE ExecutorAssumption
<1>1. hit_vld_q /\ hit_step_q = StepOf(i) /\ run_cnt <= hit_step_q
  BY DEF ToCome
<1>2. ~Scan!stale
  BY <1>1 DEF Scan!stale, StepOf
<1>3. CASE i >= FI_SCAN_LEN
  <2>1. hit_step_q = FI_SCAN_LEN /\ run_cnt = 0
    BY <1>1, <1>3 DEF StepOf, ToCome
  <2>2. Scan!advance /\ ~Scan!hit
    BY <1>1, <2>1 DEF Scan!advance, Scan!null_e, Scan!hit
  <2>3. Named(i) = {}
    BY <1>3 DEF Named
  <2>4. run_cnt = run_end_q => FI_SCAN_LEN = 1
    BY <2>1
  <2> QED  BY <1>2, <2>2, <2>3, <2>4
<1>4. CASE i < FI_SCAN_LEN
  <2>1. hit_step_q = FI_SCAN_LEN - 1 - i
    BY <1>1, <1>4 DEF StepOf
  <2>2. ~Scan!null_e /\ (Scan!hit <=> run_cnt = hit_step_q)
    BY <1>1, <2>1 DEF Scan!null_e, Scan!hit
  <2>3. Scan!advance <=> Scan!hit
    BY <1>2, <2>2, Zenon DEF Scan!advance
  <2>4. Scan!hit => Named(i) = {cfg_scan_len - 1 - run_cnt}
    <3>1. Named(i) = {i}
      BY <1>4 DEF Named
    <3>2. run_cnt = hit_step_q => cfg_scan_len - 1 - run_cnt = i
      BY <2>1
    <3> QED  BY <2>2, <3>1, <3>2
  <2>5. ~Scan!hit => run_cnt + 1 <= hit_step_q /\ hit_step_q # FI_SCAN_LEN
    BY <1>1, <2>1, <2>2
  <2>6. run_cnt = run_end_q => Scan!hit /\ i = 0
    BY <1>1, <2>1, <2>2
  <2> QED  BY <1>2, <2>3, <2>4, <2>5, <2>6
<1> QED  BY <1>3, <1>4

\* Nothing is to come any more.
LEMMA DoneRests ==
  ASSUME NEW i, Done(i)
  PROVE  ~Scan!stale /\ ~Scan!advance /\ ~Scan!hit
  BY DEF Done, Scan!stale, Scan!advance, Scan!null_e, Scan!hit

\* What the start pipeline does.
LEMMA StartAloneKept ==
  ASSUME SPACING >= 2, StaticMode, Gate, Injected, StartAlone, Passes, Scan!Edge, Core, StaticHost
  PROVE  StartAlone'
<1> USE StaticAssumption
<1>1. /\ quiet < SPACING => quiet' = quiet + 1
      /\ cfg_start' \in BOOLEAN /\ (cfg_start' => quiet' = 0) /\ quiet' \in 0 .. SPACING
      /\ cfg_scan_len' \in {0, FI_SCAN_LEN} /\ cfg_fi_index' \in Nat
  BY StaticWrites
<1>2. /\ s1' \in BOOLEAN /\ s2' \in BOOLEAN /\ static_first' \in BOOLEAN
      /\ s1' <=> cfg_start
      /\ s2' <=> s1
      /\ static_first' <=> cfg_start \/ (static_first /\ ~Scan!entry_pop_o)
  <2>1. start_usr <=> cfg_start
    BY StaticSource
  <2>2. start_usr \in BOOLEAN /\ s1 \in BOOLEAN
    BY DEF start_usr, StartAlone
  <2> QED  BY <2>1, <2>2, Zenon DEF Core, StaticFirst
<1>3. s1' => quiet' = 1 /\ static_first'
  BY <1>1, <1>2 DEF StartAlone
<1>4. ASSUME s2'  PROVE quiet' = 2 /\ (static_first' \/ clk_gate' \/ FI_SCAN_LEN = 1)
  <2>1. s1 /\ quiet = 1 /\ static_first /\ ~s2
    BY <1>2, <1>4 DEF StartAlone
  <2>2. quiet' = 2
    BY <1>1, <2>1
  <2>3. CASE ~Scan!entry_pop_o
    BY <1>2, <2>1, <2>2, <2>3
  <2>4. CASE Scan!entry_pop_o
    <3>1. ~Scan!arm0
      BY <2>1 DEF Scan!arm0, Scan!start_pulse
    <3>2. (tm_lead /\ ~run) \/ (run /\ hit_vld_q /\ Scan!advance)
      BY <2>4, <3>1, Zenon DEF Scan!entry_pop_o, Scan!arm1, Scan!advance, Scan!hit, Scan!stale, Scan!null_e
    <3>3. clk_gate
      BY <3>2 DEF Gate
    <3>4. CASE Scan!LastShift
      <4> DEFINE i == wanted[Len(wanted)]
      <4>1. OnePass /\ i \in Nat \ {0}
        BY <3>3, IndexOfPass DEF Passes
      <4>2. ToCome(i)
        <5>1. run /\ hit_vld_q
          BY <3>2, <3>4 DEF Scan!LastShift
        <5> QED  BY <4>1, <5>1 DEF OnePass, Done
      <4>3. run /\ run_cnt = run_end_q /\ run_cnt \in Nat
        BY <3>4 DEF Scan!LastShift, Gate
      <4> HIDE DEF i
      <4>4. run_end_q = FI_SCAN_LEN - 1 /\ cfg_scan_len = FI_SCAN_LEN /\ run_cnt <= run_end_q
        BY <4>1, <4>3 DEF OnePass
      <4>5. i = 0 \/ FI_SCAN_LEN = 1
        BY <4>1, <4>2, <4>3, <4>4, ComesOnce
      <4> QED  BY <2>2, <4>1, <4>5
    <3>5. CASE ~Scan!LastShift
      <4>1. Scan!Shift \/ Scan!Lead \/ Scan!Tail \/ Scan!ArmInject \/ Scan!Idle
        BY <3>5, StaticScan
      <4>2. clk_gate'
        BY <3>3, <4>1 DEF Scan!Shift, Scan!Lead, Scan!Tail, Scan!ArmInject, Scan!Idle
      <4> QED  BY <2>2, <4>2
    <3> QED  BY <3>4, <3>5
  <2> QED  BY <2>3, <2>4
<1> QED  BY <1>1, <1>2, <1>3, <1>4 DEF StartAlone

\* The cells flipped so far, with the one this shift flips.
Flipped == IF Scan!hit THEN flips \union {cfg_scan_len - 1 - run_cnt} ELSE flips

\* What the history records: a shift flips its cell or not, and the last one ends the pass.
LEMMA StaticHistory ==
  ASSUME StaticMode, Gate, Gate', History
  PROVE  IF run /\ ~run'
         THEN flips' = {} /\ inj' = Append(inj, [cycle |-> ftime, cells |-> Flipped])
         ELSE flips' = Flipped /\ inj' = inj
<1>1. /\ scan_en_o <=> run
      /\ scan_en_o' <=> run'
      /\ run => nshift = run_cnt
  BY DEF Gate
<1>2. InjectShift <=> run
  BY <1>1 DEF InjectShift, StaticMode
<1>3. Scan!scan_in_o = 1 <=> Scan!hit
  BY DEF Scan!scan_in_o, StaticMode
<1>4. Scan!hit => run
  BY DEF Scan!hit
<1>5. Flipped = IF InjectShift /\ Scan!scan_in_o = 1
                THEN flips \union {cfg_scan_len - 1 - nshift} ELSE flips
  BY <1>1, <1>2, <1>3, <1>4 DEF Flipped
<1>6. InjectShift /\ ~scan_en_o' <=> run /\ ~run'
  BY <1>1, <1>2
<1>7. ~cfg_fi_cycle_wr
  BY DEF StaticMode
<1> QED
  BY <1>5, <1>6, <1>7 DEF History

\* A shift of a pass: the index comes now or later, or has come.
LEMMA PassShifts ==
  ASSUME StaticMode, Gate, Gate', Injected, StartAlone, StartAlone', Passes, Scan!Edge, Core, History,
         StaticHost, wanted' = wanted, clk_gate, Scan!Shift
  PROVE  Passes'
<1> USE ExecutorAssumption
<1> DEFINE i == wanted[Len(wanted)]
<1>1. OnePass /\ i \in Nat \ {0} /\ clk_gate'
  BY IndexOfPass DEF Passes, Scan!Shift
<1>2. /\ run /\ run' /\ run_cnt \in Nat /\ run_cnt' = run_cnt + 1 /\ run_cnt # run_end_q
      /\ run_end_q' = run_end_q /\ ~tm_lead' /\ run_cnt <= run_end_q
      /\ cfg_scan_len = FI_SCAN_LEN /\ run_end_q = FI_SCAN_LEN - 1
  BY <1>1 DEF Scan!Shift, Gate, OnePass
<1>3. cfg_scan_len' = FI_SCAN_LEN
  BY <1>2, StaticWrites
<1>4. flips' = Flipped /\ inj' = inj
  BY <1>2, StaticHistory
<1>5. /\ hit_vld_q' = IF Scan!advance THEN hit_vld_nx ELSE hit_vld_q
      /\ hit_vld_nx' = IF Scan!advance THEN entry_valid_sel ELSE hit_vld_nx
      /\ hit_step_q' = IF Scan!advance THEN hit_step_nx ELSE hit_step_q
  BY DEF Scan!Shift, Scan!SlideSteps, Scan!SlideValid
<1>6. err_order_o' = (err_order_o \/ Scan!stale)
  BY DEF Scan!Edge, Scan!Always
<1>7. ToCome(i) \/ Done(i)
  BY <1>1 DEF OnePass
<1> HIDE DEF i
<1>8. ~Scan!stale /\ (ToCome(i)' \/ Done(i)')
  <2>1. i' = i
    BY DEF i
  <2>2. CASE Done(i)
    <3>1. ~Scan!stale /\ ~Scan!advance /\ ~Scan!hit
      BY <2>2, DoneRests
    <3>2. ~hit_vld_q' /\ flips' = Named(i)
      BY <1>4, <1>5, <2>2, <3>1 DEF Done, Flipped
    <3> QED  BY <2>1, <3>1, <3>2 DEF Done, Named
  <2>3. CASE ToCome(i)
    <3>1. /\ ~Scan!stale
          /\ Scan!advance => Named(i) = IF Scan!hit THEN {cfg_scan_len - 1 - run_cnt} ELSE {}
          /\ ~Scan!advance => ~Scan!hit /\ run_cnt + 1 <= hit_step_q /\ hit_step_q # FI_SCAN_LEN
      BY <1>1, <1>2, <2>3, ComesOnce
    <3>2. CASE Scan!advance
      <4>1. ~hit_vld_q' /\ flips' = Named(i)
        BY <1>4, <1>5, <2>3, <3>1, <3>2 DEF ToCome, Flipped
      <4> QED  BY <2>1, <3>1, <4>1 DEF Done, Named
    <3>3. CASE ~Scan!advance
      <4>1. /\ hit_vld_q' /\ ~hit_vld_nx' /\ hit_step_q' = hit_step_q /\ flips' = {}
            /\ hit_step_q = StepOf(i)
        BY <1>4, <1>5, <2>3, <3>1, <3>3 DEF ToCome, Flipped
      <4>2. run_cnt' <= hit_step_q' /\ hit_step_q' # FI_SCAN_LEN
        BY <1>2, <3>1, <3>3, <4>1
      <4> QED  BY <2>1, <3>1, <4>1, <4>2 DEF ToCome, StepOf
    <3> QED  BY <3>2, <3>3
  <2> QED  BY <1>7, <2>2, <2>3
<1>9. run_cnt' <= run_end_q'
  BY <1>2
<1>10. OnePass'
  BY <1>1, <1>2, <1>3, <1>8, <1>9 DEF OnePass, i
<1>11. ~err_order_o'
  BY <1>6, <1>8, Zenon DEF Passes
<1> QED  BY <1>1, <1>4, <1>10, <1>11 DEF Passes, Named

\* The last shift of a pass: its injection is recorded, with the cell that was named.
LEMMA PassEnds ==
  ASSUME StaticMode, Gate, Gate', Injected, StartAlone, Passes, Scan!Edge, Core, History,
         wanted' = wanted, clk_gate, Scan!LastShift
  PROVE  Passes'
<1> USE ExecutorAssumption
<1> DEFINE i == wanted[Len(wanted)]
           last == [cycle |-> ftime, cells |-> Flipped]
<1>1. OnePass /\ i \in Nat \ {0} /\ ~clk_gate' /\ Len(wanted) = Len(inj) + 1 /\ Len(inj) \in Nat
  BY IndexOfPass DEF Passes, Scan!LastShift, Injected
<1>2. /\ run /\ ~run' /\ run_cnt \in Nat /\ run_cnt = run_end_q
      /\ cfg_scan_len = FI_SCAN_LEN /\ run_end_q = FI_SCAN_LEN - 1
  BY <1>1 DEF Scan!LastShift, Gate, OnePass
<1>3. flips' = {} /\ inj' = Append(inj, last)
  BY <1>2, StaticHistory
<1>4. err_order_o' = (err_order_o \/ Scan!stale)
  BY DEF Scan!Edge, Scan!Always
<1>5. ToCome(i) \/ Done(i)
  BY <1>1 DEF OnePass
<1>6. ~Scan!stale /\ Flipped = Named(i)
  <2> HIDE DEF i
  <2>1. CASE Done(i)
    BY <2>1, DoneRests DEF Done, Flipped
  <2>2. CASE ToCome(i)
    <3>1. /\ ~Scan!stale
          /\ Scan!advance => Named(i) = IF Scan!hit THEN {cfg_scan_len - 1 - run_cnt} ELSE {}
          /\ run_cnt = run_end_q => Scan!advance
      BY <1>1, <1>2, <2>2, ComesOnce
    <3> QED  BY <1>2, <2>2, <3>1 DEF ToCome, Flipped
  <2> QED  BY <1>5, <2>1, <2>2
<1>7. ASSUME NEW k \in 1 .. Len(inj')  PROVE inj'[k].cells = Named(wanted[k])
  <2>1. /\ Len(inj') = Len(inj) + 1 /\ inj'[Len(inj) + 1] = last
        /\ \A j \in 1 .. Len(inj) : inj'[j] = inj[j]
    <3>1. inj \in Seq([cycle : Nat, cells : SUBSET Int])
      BY DEF Injected
    <3>2. last \in [cycle : Nat, cells : SUBSET Int]
      BY <1>2 DEF Injected, Flipped
    <3> HIDE DEF last
    <3> QED  BY <1>3, <3>1, <3>2, AppendProperties
  <2>2. CASE k = Len(inj) + 1
    BY <1>1, <1>6, <2>1, <2>2
  <2>3. CASE k \in 1 .. Len(inj)
    BY <2>1, <2>3 DEF Passes
  <2> QED  BY <1>1, <2>1, <2>2, <2>3
<1>8. Len(inj') = Len(inj) + 1
  <2>1. inj \in Seq([cycle : Nat, cells : SUBSET Int]) /\ last \in [cycle : Nat, cells : SUBSET Int]
    BY <1>2 DEF Injected, Flipped
  <2> HIDE DEF last
  <2> QED  BY <1>3, <2>1, AppendProperties
<1>9. ~err_order_o'
  BY <1>4, <1>6, Zenon DEF Passes
<1> QED  BY <1>1, <1>3, <1>7, <1>8, <1>9 DEF Passes, Named

\* The lead cycle of a pass: the mark of its start is used up, so that nothing follows the
\* index into the second stage.
LEMMA PassLeads ==
  ASSUME StaticMode, Gate, Gate', Injected, StartAlone, Passes, Scan!Edge, Core, History,
         StaticHost, wanted' = wanted, clk_gate, Scan!Lead
  PROVE  Passes'
<1> USE ExecutorAssumption
<1> DEFINE i == wanted[Len(wanted)]
<1>1. OnePass /\ i \in Nat \ {0} /\ clk_gate'
  BY IndexOfPass DEF Passes, Scan!Lead
<1>2. /\ ~run /\ run' /\ run_cnt' = 0 /\ run_end_q' = run_end_q /\ ~tm_lead' /\ tm_lead
      /\ cfg_scan_len = FI_SCAN_LEN /\ run_end_q = FI_SCAN_LEN - 1 /\ ~static_first
      /\ hit_vld_q' = hit_vld_q /\ hit_step_q' = hit_step_q
  BY <1>1 DEF Scan!Lead, Gate, OnePass
<1>3. ~hit_vld_nx'
  BY <1>2, StaticSource, Zenon DEF Scan!Lead
<1>4. cfg_scan_len' = FI_SCAN_LEN
  BY <1>2, StaticWrites
<1>5. ~Scan!hit /\ ~Scan!stale
  BY <1>2 DEF Scan!hit, Scan!stale
<1>6. flips' = flips /\ inj' = inj
  BY <1>2, <1>5, StaticHistory DEF Flipped
<1>7. ToCome(i)' \/ Done(i)'
  <2>1. ToCome(i) \/ Done(i)
    BY <1>1 DEF OnePass
  <2>2. i' = i /\ StepOf(i) \in Nat
    BY <1>1 DEF StepOf
  <2> HIDE DEF i
  <2>3. CASE Done(i)
    BY <1>2, <1>6, <2>2, <2>3 DEF Done, Named
  <2>4. CASE ToCome(i)
    BY <1>2, <1>3, <1>6, <2>2, <2>4 DEF ToCome, StepOf
  <2> QED  BY <2>1, <2>3, <2>4
<1>8. OnePass'
  BY <1>1, <1>2, <1>4, <1>7 DEF OnePass, i
<1>9. err_order_o' = (err_order_o \/ Scan!stale)
  BY DEF Scan!Edge, Scan!Always
<1>10. ~err_order_o'
  BY <1>5, <1>9, Zenon DEF Passes
<1> QED  BY <1>1, <1>6, <1>8, <1>10 DEF Passes, Named

\* A pass is armed: its index is taken, and the mark of its start with it.
LEMMA PassArms ==
  ASSUME StaticMode, Gate, Gate', Injected, StartAlone, Passes, Scan!Edge, Core, History,
         StaticHost, wanted' = Append(wanted, cfg_fi_index), ~clk_gate, Scan!ArmInject
  PROVE  Passes'
<1> USE ExecutorAssumption
<1> DEFINE i == wanted[Len(wanted)]
<1>1. /\ Scan!arm0 /\ s2 /\ cfg_scan_len # 0 /\ cfg_fi_index # 0 /\ clk_gate' /\ tm_lead'
      /\ entry_valid_sel = static_first /\ entry_index_sel = cfg_fi_index
  BY StaticSource, Zenon DEF Scan!ArmInject, Scan!arm0, Scan!start_pulse, Scan!L
<1>2. cfg_scan_len = FI_SCAN_LEN /\ cfg_fi_index \in Nat /\ ~cfg_start
  BY <1>1 DEF StartAlone
<1>3. cfg_scan_len' = FI_SCAN_LEN
  BY <1>2, StaticWrites
<1>4. /\ run_end_q' = FI_SCAN_LEN - 1 /\ hit_step_q' = StepOf(cfg_fi_index)
      /\ hit_vld_q' = static_first /\ ~hit_vld_nx' /\ ~run /\ ~run'
  BY <1>1, <1>2 DEF Scan!ArmInject, Scan!run_end_calc, Scan!hit_step_of, Scan!L, StepOf, Gate
<1>5. ~static_first'
  BY <1>1, <1>2, StaticSource, Zenon DEF Core, StaticFirst, Scan!entry_pop_o
<1>6. static_first \/ FI_SCAN_LEN = 1
  BY <1>1 DEF StartAlone
<1>7. /\ wanted' \in Seq(Nat) /\ Len(wanted') = Len(wanted) + 1 /\ i' = cfg_fi_index
      /\ \A k \in 1 .. Len(wanted) : wanted'[k] = wanted[k]
  BY <1>2, AppendProperties, LenProperties DEF Passes
<1>8. ~Scan!hit /\ ~Scan!stale
  BY <1>4 DEF Scan!hit, Scan!stale
<1>9. flips' = {} /\ inj' = inj
  BY <1>4, <1>8, StaticHistory DEF Flipped, Passes
<1>10. ToCome(i)' \/ Done(i)'
  <2> HIDE DEF i
  <2>1. CASE static_first
    BY <1>4, <1>7, <1>9, <2>1 DEF ToCome, StepOf
  <2>2. CASE ~static_first
    <3>1. Named(i)' = {}
      BY <1>1, <1>2, <1>6, <1>7, <2>2 DEF Named
    <3> QED  BY <1>4, <1>9, <2>2, <3>1 DEF Done
  <2> QED  BY <2>1, <2>2
<1>11. OnePass'
  BY <1>1, <1>3, <1>4, <1>5, <1>7, <1>10 DEF OnePass
<1>12. err_order_o' = (err_order_o \/ Scan!stale)
  BY DEF Scan!Edge, Scan!Always
<1>13. ~err_order_o'
  BY <1>8, <1>12, Zenon DEF Passes
<1>14. ASSUME NEW k \in 1 .. Len(inj')  PROVE inj'[k].cells = Named(wanted'[k])
  <2>1. k \in 1 .. Len(inj) /\ Len(wanted) = Len(inj)
    BY <1>9 DEF Passes
  <2> QED  BY <1>7, <1>9, <2>1 DEF Passes
<1>15. Len(wanted') = Len(inj') + 1
  BY <1>7, <1>9 DEF Passes
<1> QED  BY <1>1, <1>7, <1>11, <1>13, <1>14, <1>15 DEF Passes, Named

\* Between two passes nothing changes.
LEMMA PassesRest ==
  ASSUME StaticMode, Gate, Gate', Injected, Passes, Scan!Edge, History,
         wanted' = wanted, ~clk_gate, Scan!Tail \/ Scan!Idle
  PROVE  Passes'
<1>1. ~clk_gate' /\ ~run
  BY DEF Scan!Tail, Scan!Idle, Gate
<1>2. ~Scan!hit /\ ~Scan!stale
  BY <1>1 DEF Scan!hit, Scan!stale
<1>3. flips' = flips /\ inj' = inj
  BY <1>1, <1>2, StaticHistory DEF Flipped
<1>4. err_order_o' = (err_order_o \/ Scan!stale)
  BY DEF Scan!Edge, Scan!Always
<1>5. ~err_order_o'
  BY <1>2, <1>4, Zenon DEF Passes
<1> QED  BY <1>1, <1>3, <1>5 DEF Passes, Named

\* A step of the core keeps what is known of the passes.
LEMMA PassesKept ==
  ASSUME StaticMode, Gate, Gate', Injected, StartAlone, StartAlone', Passes, Scan!Edge, Core, History,
         StaticHost, wanted' = IF Scan!arm0 THEN Append(wanted, cfg_fi_index) ELSE wanted
  PROVE  Passes'
<1>1. Scan!Shift \/ Scan!LastShift \/ Scan!Lead \/ Scan!Tail \/ Scan!ArmInject \/ Scan!Idle
  BY StaticScan
<1>2. CASE clk_gate
  <2>1. run \/ tm_lead
    BY <1>2 DEF Gate
  <2>2. ~Scan!arm0 /\ ~Scan!Tail /\ ~Scan!ArmInject /\ ~Scan!Idle
    BY <2>1 DEF Scan!arm0, Scan!busy, Scan!Tail, Scan!ArmInject, Scan!Idle
  <2>3. wanted' = wanted
    BY <2>2
  <2> QED  BY <1>1, <1>2, <2>2, <2>3, PassShifts, PassEnds, PassLeads
<1>3. CASE ~clk_gate
  <2>1. ~run /\ ~tm_lead
    BY <1>3 DEF Gate
  <2>2. ~Scan!Shift /\ ~Scan!LastShift /\ ~Scan!Lead
    BY <2>1 DEF Scan!Shift, Scan!LastShift, Scan!Lead
  <2>3. CASE Scan!ArmInject
    <3>1. wanted' = Append(wanted, cfg_fi_index)
      BY <2>3 DEF Scan!ArmInject
    <3> QED  BY <1>3, <2>3, <3>1, PassArms
  <2>4. CASE Scan!Tail \/ Scan!Idle
    <3>1. wanted' = wanted
      BY <2>4 DEF Scan!Tail, Scan!Idle, Scan!arm0, Scan!busy
    <3> QED  BY <1>3, <2>4, <3>1, PassesRest
  <2> QED  BY <1>1, <2>2, <2>3, <2>4
<1> QED  BY <1>2, <1>3

\* At power-on nothing has been started.
LEMMA StaticInitInv == StaticInit => StaticInv
<1> SUFFICES ASSUME StaticInit PROVE StaticInv
  OBVIOUS
<1> USE DEF StaticInit, Init
<1>1. Scan!Init /\ Table!Init /\ Time!Init
  OBVIOUS
<1>2. Gate
  BY <1>1 DEF Gate, Scan!Init
<1>3. inj = <<>> /\ wanted = <<>> /\ flips = {} /\ ftime = 0 /\ ~err_order_o /\ ~clk_gate
  BY <1>1 DEF Scan!Init
<1>4. Injected
  BY <1>3, EmptySeq DEF Injected
<1>5. StaticMode
  BY <1>1 DEF StaticMode, Scan!Init, Time!Init
<1>6. StartAlone
  <2>1. /\ cfg_scan_len = 0 /\ cfg_fi_index = 0 /\ quiet = SPACING
        /\ cfg_start = FALSE /\ s1 = FALSE /\ s2 = FALSE /\ static_first = TRUE
    OBVIOUS
  <2>2. quiet \in 0 .. SPACING /\ cfg_fi_index \in Nat
    BY <2>1, StaticAssumption
  <2> HIDE DEF StaticInit, Init
  <2> QED  BY <2>1, <2>2, Zenon DEF StartAlone
<1>7. Passes
  BY <1>3, EmptySeq DEF Passes
<1> QED  BY <1>2, <1>4, <1>5, <1>6, <1>7 DEF StaticInv

\* The invariant of static mode is inductive when two register writes are two edges apart.
LEMMA StaticInductive ==
  ASSUME SPACING >= 2 PROVE StaticInv /\ [StaticTick]_staticVars => StaticInv'
<1> SUFFICES ASSUME StaticInv, [StaticTick]_staticVars PROVE StaticInv'
  OBVIOUS
<1> USE DEF StaticInv
<1>1. CASE StaticTick
  <2>1. /\ Scan!Edge /\ Time!Edge /\ Core /\ History /\ StaticHost
        /\ wanted' = IF Scan!arm0 THEN Append(wanted, cfg_fi_index) ELSE wanted
    BY <1>1, Zenon DEF StaticTick, Edge, StaticHost
  <2>2. Gate'
    BY <2>1, GateKept
  <2>3. Injected'
    <3>1. cfg_scan_len \in Int
      BY ExecutorAssumption DEF StartAlone
    <3> QED  BY <2>1, <3>1, InjectedKept
  <2>4. StaticMode'
    BY <2>1, StaticModeKept DEF Core
  <2>5. StartAlone'
    BY <2>1, StartAloneKept
  <2>6. Passes'
    BY <2>1, <2>2, <2>5, PassesKept
  <2> QED  BY <2>2, <2>3, <2>4, <2>5, <2>6
<1>2. CASE UNCHANGED staticVars
  <2>1. UNCHANGED <<cfgRegs, scanRegs, timeRegs, coreRegs, history, quiet, wanted>>
    BY <1>2 DEF staticVars, vars
  <2>2. Gate' /\ Injected' /\ StaticMode' /\ StartAlone'
    BY <2>1 DEF cfgRegs, scanRegs, timeRegs, coreRegs, history, Gate, Injected, StaticMode, StartAlone
  <2>3. Passes'
    BY <2>1 DEF cfgRegs, scanRegs, coreRegs, history, Passes, OnePass, ToCome, Done, StepOf, Named
  <2> QED  BY <2>2, <2>3
<1> QED  BY <1>1, <1>2

\* Whatever index the host writes or starts when, a pass in static mode flips the one cell
\* that CFG_FI_INDEX named when the pass was armed, none if the index is past the chain,
\* and the order check stays silent.  Two register writes are two edges apart at least:
\* cdc_2phase takes longer over one, so a start is still in the pipeline alone.
THEOREM OneFlipInStatic ==
  ASSUME SPACING >= 2 PROVE StaticSpec => []OneFlipPerPass
<1>1. StaticInv => OneFlipPerPass
  <2> SUFFICES ASSUME StaticInv PROVE OneFlipPerPass
    OBVIOUS
  <2>1. DOMAIN inj = 1 .. Len(inj)
    BY DEF StaticInv, Injected
  <2> QED  BY <2>1 DEF StaticInv, Passes, OneFlipPerPass, Named
<1> QED  BY <1>1, StaticInitInv, StaticInductive, PTL DEF StaticSpec
================================================================================
