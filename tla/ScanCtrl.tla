------------------------------- MODULE ScanCtrl -------------------------------
(***************************************************************************)
(* The FI Scan Controller, rtl/fi_scan_ctrl.v.                             *)
(*                                                                         *)
(* The module is written the way the Verilog module is: its ports and its  *)
(* registers are variables, its wires are operators, and Edge is what one  *)
(* rising edge of clk does to the registers.  A specification that         *)
(* instantiates it substitutes its own expressions for the input ports,    *)
(* exactly as an instantiation in the RTL connects them.                   *)
(*                                                                         *)
(* One pass shifts the scan chain once round: L shift edges, each of which *)
(* feeds Scan_Out back into Scan_In, inverted at the targets.  A scrub     *)
(* shifts zeros in instead.  L_q is latched by the RTL and never read, so  *)
(* it has no counterpart here.  The counters are unbounded naturals: L is  *)
(* below 2^32 and run_cnt never passes L.                                  *)
(***************************************************************************)
EXTENDS Integers

CONSTANTS
  SCRUB_LEN,       \* shifts of a scrub; negative: the whole chain
  TM_LEAD,         \* 1: testmode rises one cycle before Scan_En
  TM_TAIL_CYCLES   \* cycles testmode outlives Scan_En after an injection pass

VARIABLES
  \* input ports
  cfg_start_i, cfg_scan_len_i, entry_index_i, entry_valid_i, entry_ready_i,
  scrub_req_i, scan_out_i,
  \* registers
  start_d, run, scrub_q, run_cnt, run_end_q, scan_en_o, clk_gate,
  done_o, scrub_done_o, tm_lead, tm_tail_cnt, tm_q, tm_half,
  hit_step_q, hit_vld_q, hit_step_nx, hit_vld_nx, err_order_o

regs == <<start_d, run, scrub_q, run_cnt, run_end_q, scan_en_o, clk_gate,
          done_o, scrub_done_o, tm_lead, tm_tail_cnt, tm_q, tm_half,
          hit_step_q, hit_vld_q, hit_step_nx, hit_vld_nx, err_order_o>>

RegsTypeOK ==
  /\ start_d \in BOOLEAN /\ run \in BOOLEAN /\ scrub_q \in BOOLEAN
  /\ run_cnt \in Nat /\ run_end_q \in Nat
  /\ scan_en_o \in BOOLEAN /\ clk_gate \in BOOLEAN
  /\ done_o \in BOOLEAN /\ scrub_done_o \in BOOLEAN
  /\ tm_lead \in BOOLEAN /\ tm_tail_cnt \in 0..3
  /\ tm_q \in BOOLEAN /\ tm_half \in BOOLEAN
  /\ hit_step_q \in Nat /\ hit_vld_q \in BOOLEAN
  /\ hit_step_nx \in Nat /\ hit_vld_nx \in BOOLEAN
  /\ err_order_o \in BOOLEAN

-----------------------------------------------------------------------------
(* Wires.  The definitions named ..._Mutant are wrong on purpose: each is a *)
(* slip the code avoids, and the properties must notice it.                *)

L == cfg_scan_len_i

start_pulse == cfg_start_i /\ ~start_d
busy == run \/ tm_lead \/ tm_tail_cnt # 0

\* FI_Index -> shift step: the cell next to Scan_In leaves the chain last.
\* An index past the chain maps to step L, which run_cnt never reaches.
hit_step_of_Mutant == IF entry_index_i >= L THEN L ELSE L - entry_index_i
hit_step_of == IF entry_index_i >= L THEN L ELSE L - 1 - entry_index_i

scrub_n    == IF SCRUB_LEN < 0 \/ L < SCRUB_LEN THEN L ELSE SCRUB_LEN
scrub_none == scrub_n = 0
scrub_end_calc_Mutant == IF scrub_n = 1 THEN 0 ELSE scrub_n - 2
scrub_end_calc == scrub_n - 1

run_end_calc_Mutant == L
run_end_calc == L - 1

hit    == run /\ hit_vld_q /\ run_cnt = hit_step_q
stale  == run /\ hit_vld_q /\ run_cnt > hit_step_q
null_e == run /\ hit_vld_q /\ hit_step_q > run_end_q
advance == hit \/ stale \/ null_e

arm0  == start_pulse /\ L # 0 /\ ~busy /\ entry_ready_i
arm1  == tm_lead /\ ~run /\ ~scrub_q
arm_s == scrub_req_i /\ ~busy /\ ~arm0 /\ ~scrub_done_o

entry_pop_o_Mutant == arm0 \/ arm1 \/ advance
entry_pop_o == entry_valid_i /\ (arm0 \/ arm1 \/ advance)

scan_in_o == IF scrub_q THEN 0 ELSE IF hit THEN 1 - scan_out_i ELSE scan_out_i

scrub_run_o  == run /\ scrub_q
scrub_last_o == scrub_run_o /\ run_cnt = run_end_q

\* In the half cycle after a rising edge tm_half still holds what the falling
\* edge before it captured; in the second half it follows tm_q.
testmode_o == tm_q \/ tm_half

-----------------------------------------------------------------------------
(* Reset state, and the rising edge, one action per branch of the RTL's    *)
(* always block.                                                           *)

Init ==
  /\ start_d = FALSE /\ run = FALSE /\ scrub_q = FALSE
  /\ run_cnt = 0 /\ run_end_q = 0
  /\ scan_en_o = FALSE /\ clk_gate = FALSE
  /\ done_o = FALSE /\ scrub_done_o = FALSE
  /\ tm_lead = FALSE /\ tm_tail_cnt = 0 /\ tm_q = FALSE /\ tm_half = FALSE
  /\ hit_step_q = 0 /\ hit_vld_q = FALSE
  /\ hit_step_nx = 0 /\ hit_vld_nx = FALSE
  /\ err_order_o = FALSE


\* Edge capture, sticky error and the falling-edge copy of testmode, which
\* every edge does.
Always ==
  /\ start_d' = cfg_start_i
  /\ err_order_o' = (err_order_o \/ stale)
  /\ tm_half' = (tm_q /\ ~scrub_q)

\* The two-deep front end slides on every consumed target.
SlideSteps ==
  /\ hit_step_q'  = IF advance THEN hit_step_nx ELSE hit_step_q
  /\ hit_step_nx' = IF advance THEN hit_step_of ELSE hit_step_nx

SlideValid ==
  /\ hit_vld_q'  = IF advance THEN hit_vld_nx ELSE hit_vld_q
  /\ hit_vld_nx' = IF advance THEN entry_valid_i ELSE hit_vld_nx

Shift ==
  /\ run /\ run_cnt # run_end_q
  /\ run_cnt' = run_cnt + 1
  /\ SlideSteps /\ SlideValid
  /\ done_o' = FALSE /\ scrub_done_o' = FALSE
  /\ UNCHANGED <<run, scrub_q, run_end_q, scan_en_o, clk_gate, tm_lead,
                 tm_tail_cnt, tm_q>>

LastShift_Mutant ==
  /\ run /\ run_cnt = run_end_q
  /\ run' = FALSE /\ scan_en_o' = FALSE /\ UNCHANGED clk_gate
  /\ scrub_q' = FALSE
  /\ scrub_done_o' = scrub_q /\ done_o' = ~scrub_q
  /\ tm_q' = (tm_q /\ ~scrub_q /\ TM_TAIL_CYCLES # 0)
  /\ tm_tail_cnt' = IF scrub_q THEN tm_tail_cnt ELSE TM_TAIL_CYCLES
  /\ SlideSteps
  /\ hit_vld_q' = FALSE /\ hit_vld_nx' = FALSE
  /\ UNCHANGED <<run_cnt, run_end_q, tm_lead>>

\* The last shift shuts the pass down: Scan_En and Clk_Gate fall together.
LastShift ==
  /\ run /\ run_cnt = run_end_q
  /\ run' = FALSE /\ scan_en_o' = FALSE /\ clk_gate' = FALSE
  /\ scrub_q' = FALSE
  /\ scrub_done_o' = scrub_q /\ done_o' = ~scrub_q
  /\ tm_q' = (tm_q /\ ~scrub_q /\ TM_TAIL_CYCLES # 0)
  /\ tm_tail_cnt' = IF scrub_q THEN tm_tail_cnt ELSE TM_TAIL_CYCLES
  /\ SlideSteps
  /\ hit_vld_q' = FALSE /\ hit_vld_nx' = FALSE
  /\ UNCHANGED <<run_cnt, run_end_q, tm_lead>>

Lead ==
  /\ ~run /\ tm_lead
  /\ run' = TRUE /\ run_cnt' = 0
  /\ scan_en_o' = TRUE /\ tm_q' = TRUE /\ tm_lead' = FALSE
  /\ hit_step_nx' = hit_step_of
  /\ hit_vld_nx' = (entry_valid_i /\ ~scrub_q)
  /\ done_o' = FALSE /\ scrub_done_o' = FALSE
  /\ UNCHANGED <<scrub_q, run_end_q, clk_gate, tm_tail_cnt, hit_step_q, hit_vld_q>>

Tail ==
  /\ ~run /\ ~tm_lead /\ tm_tail_cnt # 0
  /\ tm_q' = (tm_q /\ tm_tail_cnt # 1)
  /\ tm_tail_cnt' = tm_tail_cnt - 1
  /\ done_o' = FALSE /\ scrub_done_o' = FALSE
  /\ UNCHANGED <<run, scrub_q, run_cnt, run_end_q, scan_en_o, clk_gate, tm_lead,
                 hit_step_q, hit_vld_q, hit_step_nx, hit_vld_nx>>

\* An injection pass: open the freeze, load the first target.
ArmInject ==
  /\ arm0
  /\ clk_gate' = TRUE /\ tm_lead' = TRUE
  /\ tm_q' = (tm_q \/ TM_LEAD # 0)
  /\ run_end_q' = run_end_calc
  /\ hit_step_q' = hit_step_of
  /\ hit_vld_q' = entry_valid_i /\ hit_vld_nx' = FALSE
  /\ scan_en_o' = FALSE /\ done_o' = FALSE /\ scrub_done_o' = FALSE
  /\ UNCHANGED <<run, scrub_q, run_cnt, tm_tail_cnt, hit_step_nx>>

\* A scrub pass: flips nothing and pops nothing.
ArmScrub ==
  /\ arm_s /\ ~scrub_none
  /\ clk_gate' = TRUE /\ tm_lead' = TRUE
  /\ tm_q' = (tm_q \/ TM_LEAD # 0)
  /\ run_end_q' = scrub_end_calc
  /\ hit_vld_q' = FALSE /\ hit_vld_nx' = FALSE
  /\ scrub_q' = TRUE
  /\ scan_en_o' = FALSE /\ done_o' = FALSE /\ scrub_done_o' = FALSE
  /\ UNCHANGED <<run, run_cnt, tm_tail_cnt, hit_step_q, hit_step_nx>>

\* Nothing to scrub: report it done at once.
SkipScrub ==
  /\ arm_s /\ scrub_none
  /\ scrub_done_o' = TRUE
  /\ scan_en_o' = FALSE /\ done_o' = FALSE
  /\ UNCHANGED <<run, scrub_q, run_cnt, run_end_q, clk_gate, tm_lead, tm_tail_cnt,
                 tm_q, hit_step_q, hit_vld_q, hit_step_nx, hit_vld_nx>>

Idle ==
  /\ ~busy /\ ~arm0 /\ ~arm_s
  /\ scan_en_o' = FALSE /\ done_o' = FALSE /\ scrub_done_o' = FALSE
  /\ UNCHANGED <<run, scrub_q, run_cnt, run_end_q, clk_gate, tm_lead, tm_tail_cnt,
                 tm_q, hit_step_q, hit_vld_q, hit_step_nx, hit_vld_nx>>

Edge ==
  /\ Always
  /\ \/ Shift \/ LastShift \/ Lead \/ Tail
     \/ ArmInject \/ ArmScrub \/ SkipScrub \/ Idle

\* rst_n: every register back to its reset value.
Reset ==
  /\ start_d' = FALSE /\ run' = FALSE /\ scrub_q' = FALSE
  /\ run_cnt' = 0 /\ run_end_q' = 0
  /\ scan_en_o' = FALSE /\ clk_gate' = FALSE
  /\ done_o' = FALSE /\ scrub_done_o' = FALSE
  /\ tm_lead' = FALSE /\ tm_tail_cnt' = 0 /\ tm_q' = FALSE /\ tm_half' = FALSE
  /\ hit_step_q' = 0 /\ hit_vld_q' = FALSE
  /\ hit_step_nx' = 0 /\ hit_vld_nx' = FALSE
  /\ err_order_o' = FALSE
=============================================================================
