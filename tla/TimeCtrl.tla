------------------------------- MODULE TimeCtrl -------------------------------
(***************************************************************************)
(* The FI Time Controller and FI Resolver, rtl/fi_time_ctrl.v, in the      *)
(* style of ScanCtrl: ports and registers are variables, wires are         *)
(* operators, Edge is one rising edge of clk.                              *)
(*                                                                         *)
(* It counts the trial's cycles, fires the injection at FI_Cycle, ends the *)
(* trial and walks the reset window: scrub, DUT reset, memory restore.     *)
(* The registers of the RTL have 32 bits; here they count modulo WORD, so  *)
(* that a free-running counter wraps as it does in hardware.               *)
(***************************************************************************)
EXTENDS Integers

CONSTANTS
  WORD,           \* 2^32 in the RTL
  RTC_ALIGN_EN,   \* TRUE: the window is paced by the slow clock
  RST_CYC,        \* cycles of a phase of the window otherwise
  SCRUB,          \* TRUE: scrub the chain before the reset
  MEM_RESTORE     \* TRUE: restore the memories before the next trial

VARIABLES
  \* input ports
  aon_rtcToggle_a, cfg_end_i, cfg_fi_cycle_i, cfg_fi_cycle_wr_i, cfg_to_thr_i,
  cycle_offset_i, scrub_done_i, scrub_run_i, scrub_last_i,
  mem_done_i, mem_abort_i, mem_bad_i,
  \* registers
  clock_counter, stopped, rtc_phase, fi_cycle_q, fi_fired_q, scan_start,
  resolver_rst, testmode_rst, scrub_req, mem_req, mem_halt, mem_abort_last,
  end_sync, rtc_sync, rst_cnt

regs == <<clock_counter, stopped, rtc_phase, fi_cycle_q, fi_fired_q, scan_start,
          resolver_rst, testmode_rst, scrub_req, mem_req, mem_halt, mem_abort_last,
          end_sync, rtc_sync, rst_cnt>>

-----------------------------------------------------------------------------
(* Wires.  The definitions named ..._Mutant are wrong on purpose: each is a *)
(* slip the code avoids, and the properties must notice it.                *)

fi_hit_en == fi_cycle_q # 0
to_hit_en == cfg_to_thr_i # 0
fi_cycle_ovf_o == to_hit_en /\ fi_cycle_q >= cfg_to_thr_i

\* The synchronisers are pairs <<first flop, second flop>>.
end_rise_pulse == end_sync[1] /\ ~end_sync[2]
rtc_rise_pulse == rtc_sync[1] /\ ~rtc_sync[2]

rst_cnt_hit == rst_cnt >= RST_CYC - 1
rst_advance == IF RTC_ALIGN_EN THEN rtc_rise_pulse ELSE rst_cnt_hit

stop_by_to  == to_hit_en /\ clock_counter >= cfg_to_thr_i
stop_by_mem == to_hit_en /\ MEM_RESTORE /\ mem_abort_i
stop_event  == end_rise_pulse \/ stop_by_to \/ stop_by_mem

\* The scrub ends; scrub_done_i without a run: there is nothing to shift.
scrub_over_EarlyMutant == scrub_run_i \/ scrub_done_i
scrub_over == scrub_last_i \/ scrub_done_i

\* The freeze holds the memories' clocks: they may be restored.
restore_go_Mutant == TRUE
restore_go == scrub_run_i \/ scrub_over

\* The memories do not hold up the next trial.
mem_ready == ~mem_req \/ (mem_done_i /\ ~mem_bad_i)

\* The injection point: at most once a trial.
fire == fi_hit_en /\ ~fi_fired_q /\ clock_counter = fi_cycle_q

-----------------------------------------------------------------------------
Init ==
  /\ clock_counter = 0 /\ stopped = FALSE /\ rtc_phase = 0
  /\ fi_cycle_q = 0 /\ fi_fired_q = FALSE /\ scan_start = FALSE
  /\ resolver_rst = FALSE /\ testmode_rst = FALSE /\ scrub_req = FALSE
  /\ mem_req = FALSE /\ mem_halt = FALSE /\ mem_abort_last = FALSE
  /\ end_sync = <<FALSE, FALSE>> /\ rtc_sync = <<FALSE, FALSE>> /\ rst_cnt = 0

Synchronisers ==
  /\ end_sync' = <<cfg_end_i, end_sync[1]>>
  /\ rtc_sync' = <<aon_rtcToggle_a, rtc_sync[1]>>

\* The counter that paces the window: held during scrub, restore and halt.
RstCnt ==
  rst_cnt' = IF ~stopped \/ rst_advance \/ rtc_phase \in {3, 4, 5}
             THEN 0 ELSE (rst_cnt + 1) % WORD

\* What becomes of FI_Cycle and its one-shot: a host write wins over the rest.
Target(q, fired) ==
  /\ fi_cycle_q' = IF cfg_fi_cycle_wr_i THEN cfg_fi_cycle_i ELSE q
  /\ fi_fired_q' = (fired /\ ~cfg_fi_cycle_wr_i)

-----------------------------------------------------------------------------
(* The trial runs. *)

Count ==
  /\ ~stopped
  /\ clock_counter' = (clock_counter + 1) % WORD
  /\ scan_start' = fire
  /\ Target(fi_cycle_q, fi_fired_q \/ fire)
  /\ UNCHANGED <<mem_req, mem_halt>>

Run ==
  /\ Count
  /\ ~stop_event
  /\ UNCHANGED <<stopped, rtc_phase, resolver_rst, testmode_rst, scrub_req,
                 mem_abort_last>>

Stop ==
  /\ Count
  /\ stop_event
  /\ stopped' = TRUE
  /\ mem_abort_last' = stop_by_mem
  /\ resolver_rst' = FALSE
  /\ rtc_phase' = IF SCRUB THEN 3 ELSE 1
  /\ testmode_rst' = ~SCRUB
  /\ scrub_req' = (SCRUB \/ scrub_req)

-----------------------------------------------------------------------------
(* The reset window. *)

\* What every step of the window but the last leaves alone.
InWindow ==
  /\ stopped
  /\ scan_start' = FALSE
  /\ Target(fi_cycle_q, fi_fired_q)
  /\ UNCHANGED <<clock_counter, stopped, mem_abort_last>>

\* Phase 1 (SCRUB = 0): the first pacing event starts the reset.
StartReset ==
  /\ InWindow
  /\ rtc_phase = 1
  /\ rst_advance
  /\ resolver_rst' = TRUE
  /\ rtc_phase' = IF MEM_RESTORE THEN 4 ELSE 2
  /\ mem_req' = (MEM_RESTORE \/ mem_req)
  /\ UNCHANGED <<testmode_rst, scrub_req, mem_halt>>

\* Phase 3 (SCRUB = 1): the scrub shifts, the memories restore alongside it
\* from its first shift on, and the reset goes up on its last shift edge.
Scrubbing ==
  /\ InWindow
  /\ rtc_phase = 3
  /\ mem_req' = (mem_req \/ (MEM_RESTORE /\ restore_go))
  /\ IF scrub_over
     THEN resolver_rst' = TRUE /\ scrub_req' = FALSE /\ testmode_rst' = TRUE
          /\ rtc_phase' = 6
     ELSE UNCHANGED <<resolver_rst, scrub_req, testmode_rst, rtc_phase>>
  /\ UNCHANGED mem_halt

\* Phase 6 (SCRUB = 1): the reset pulse, first half.
FirstHalf ==
  /\ InWindow
  /\ rtc_phase = 6
  /\ rst_advance
  /\ rtc_phase' = 2
  /\ UNCHANGED <<resolver_rst, testmode_rst, scrub_req, mem_req, mem_halt>>

\* Phase 4 (SCRUB = 0): the memories restore, the DUT in reset.
Restored ==
  /\ InWindow
  /\ rtc_phase = 4
  /\ mem_done_i
  /\ mem_req' = FALSE
  /\ mem_halt' = (mem_halt \/ mem_bad_i)
  /\ rtc_phase' = IF mem_bad_i THEN 5 ELSE 2
  /\ UNCHANGED <<resolver_rst, testmode_rst, scrub_req>>

\* Phase 2: a memory that could not be restored halts the campaign.
Halt_Mutant ==
  /\ InWindow
  /\ rtc_phase = 2
  /\ rst_advance /\ mem_req /\ mem_done_i /\ mem_bad_i
  /\ mem_req' = FALSE
  /\ mem_halt' = TRUE
  /\ UNCHANGED <<rtc_phase, resolver_rst, testmode_rst, scrub_req>>
Halt ==
  /\ InWindow
  /\ rtc_phase = 2
  /\ rst_advance /\ mem_req /\ mem_done_i /\ mem_bad_i
  /\ mem_req' = FALSE
  /\ mem_halt' = TRUE
  /\ rtc_phase' = 5
  /\ UNCHANGED <<resolver_rst, testmode_rst, scrub_req>>

\* Phase 2: the window ends and FI_Cycle advances to the next trial's target.
Release ==
  /\ stopped
  /\ rtc_phase = 2
  /\ rst_advance
  /\ mem_ready
  /\ resolver_rst' = FALSE /\ testmode_rst' = FALSE /\ mem_req' = FALSE
  /\ stopped' = FALSE /\ rtc_phase' = 0
  /\ clock_counter' = 0
  /\ Target((fi_cycle_q + cycle_offset_i) % WORD, FALSE)
  /\ scan_start' = FALSE
  /\ UNCHANGED <<scrub_req, mem_halt, mem_abort_last>>

\* The window waits: for a pacing event, for the memories, or for ever.
Wait ==
  /\ InWindow
  /\ \/ rtc_phase \in {1, 6} /\ ~rst_advance
     \/ rtc_phase = 4 /\ ~mem_done_i
     \/ rtc_phase = 2 /\ ~(rst_advance /\ (~mem_req \/ mem_done_i))
     \/ rtc_phase = 5
  /\ UNCHANGED <<rtc_phase, resolver_rst, testmode_rst, scrub_req, mem_req, mem_halt>>

Edge ==
  /\ Synchronisers
  /\ RstCnt
  /\ \/ Run \/ Stop
     \/ StartReset \/ Scrubbing \/ FirstHalf \/ Restored \/ Halt \/ Release \/ Wait
=============================================================================
