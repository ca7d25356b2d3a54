------------------------------- MODULE Executor -------------------------------
(***************************************************************************)
(* The FI Executor inside the FI wrapper: rtl/fi_executor_core.v with its  *)
(* Scan, Time and Table Controllers, the FI Table, one FI memory model,    *)
(* and the freeze and reset logic of rtl/fi_wrapper_top.v.                 *)
(*                                                                         *)
(* Everything runs on one clock, so the composition is synchronous: Tick   *)
(* is one rising edge, a conjunction of the components' Edge actions whose *)
(* ports are connected as the RTL connects them.  The host's registers are *)
(* the wrapper's inputs here; the modules that extend this one say when    *)
(* the host writes them.                                                   *)
(*                                                                         *)
(* The data of the scan chain is left out (ScanPass is about it): Scan_Out *)
(* reads 0, so a shift with Scan_In = 1 is a flip, and the history         *)
(* variables record which cells an injection pass flips and when.          *)
(***************************************************************************)
EXTENDS Integers, Sequences

CONSTANTS
  FI_SCAN_LEN,                                       \* the chain's length
  SCRUB_LEN, TM_LEAD, TM_TAIL_CYCLES,                \* fi_scan_ctrl
  TBL_WORDS, LOOKAHEAD,                              \* fi_table_ctrl
  WORD, RTC_ALIGN_EN, RST_CYC, SCRUB, MEM_RESTORE,   \* fi_time_ctrl
  FI_KIND, FI_LOG_DEPTH, FI_BANKS, FI_BANK_DEPTH, FI_FILL_WORD, Word,  \* a memory
  DUT_UNRULY     \* TRUE: the DUT writes its memory even while in reset

ASSUME ExecutorAssumption ==
  /\ FI_SCAN_LEN \in Nat \ {0}
  /\ SCRUB_LEN \in Int /\ TM_LEAD \in {0, 1} /\ TM_TAIL_CYCLES \in 0 .. 3
  /\ TBL_WORDS \in Nat \ {0} /\ LOOKAHEAD \in Nat /\ LOOKAHEAD >= 2
  /\ WORD \in Nat \ {0} /\ RST_CYC \in Nat \ {0}
  /\ RTC_ALIGN_EN \in BOOLEAN /\ SCRUB \in BOOLEAN /\ MEM_RESTORE \in BOOLEAN
  /\ FI_KIND \in {0, 1} /\ FI_LOG_DEPTH \in Nat
  /\ FI_BANKS \in Nat \ {0} /\ FI_BANK_DEPTH \in Nat \ {0} /\ FI_FILL_WORD \in Word
  /\ DUT_UNRULY \in BOOLEAN

VARIABLES
  \* the host's registers, in the FI Transporter
  cfg_auto, cfg_start, cfg_scan_len, cfg_fi_index, cfg_end,
  cfg_fi_cycle, cfg_fi_cycle_wr, cfg_to_thr, cfg_tbl_len,
  tbl,                                               \* the FI Table
  \* fi_scan_ctrl
  start_d, run, scrub_q, run_cnt, run_end_q, scan_en_o, clk_gate,
  done_o, scrub_done_o, tm_lead, tm_tail_cnt, tm_q, tm_half,
  hit_step_q, hit_vld_q, hit_step_nx, hit_vld_nx, err_order_o,
  \* fi_table_ctrl
  word_ptr, la_index, la_vld, la_cnt, fill_armed, eop_fetched, cycle_offset_q,
  table_exhausted_o, err_malformed_o,
  \* fi_time_ctrl
  clock_counter, stopped, rtc_phase, fi_cycle_q, fi_fired_q, scan_start,
  resolver_rst, testmode_rst, scrub_req, mem_req, mem_halt, mem_abort_last,
  end_sync, rtc_sync, rst_cnt,
  \* fi_executor_core; resolver_rst_q is the copy fi_table_ctrl keeps too
  cfg_en_able, resolver_rst_q, static_first, s1, s2,
  \* fi_wrapper_top
  run_gate_q, aon_lfclk,
  \* the memory
  ram, fi_log_a, fi_log_d, fi_log_n, fi_full, fi_bad, fi_fill_k, fi_fill_done,
  \* history
  ftime,       \* functional edges since the DUT left reset
  nshift,      \* shifts of the pass under way
  flips,       \* the cells an injection pass has flipped
  passes,      \* injection passes in this trial
  inj,         \* the injections of this batch: when, and which cells
  zeroed       \* the chain is as a scrub left it

cfgRegs   == <<cfg_auto, cfg_start, cfg_scan_len, cfg_fi_index, cfg_end,
               cfg_fi_cycle, cfg_fi_cycle_wr, cfg_to_thr, cfg_tbl_len, tbl>>
scanRegs  == <<start_d, run, scrub_q, run_cnt, run_end_q, scan_en_o, clk_gate,
               done_o, scrub_done_o, tm_lead, tm_tail_cnt, tm_q, tm_half,
               hit_step_q, hit_vld_q, hit_step_nx, hit_vld_nx, err_order_o>>
tableRegs == <<word_ptr, la_index, la_vld, la_cnt, fill_armed, eop_fetched,
               cycle_offset_q, table_exhausted_o, err_malformed_o>>
timeRegs  == <<clock_counter, stopped, rtc_phase, fi_cycle_q, fi_fired_q, scan_start,
               resolver_rst, testmode_rst, scrub_req, mem_req, mem_halt, mem_abort_last,
               end_sync, rtc_sync, rst_cnt>>
coreRegs  == <<cfg_en_able, resolver_rst_q, static_first, s1, s2, run_gate_q, aon_lfclk>>
memRegs   == <<ram, fi_log_a, fi_log_d, fi_log_n, fi_full, fi_bad, fi_fill_k, fi_fill_done>>
history   == <<ftime, nshift, flips, passes, inj, zeroed>>
vars == <<cfgRegs, scanRegs, tableRegs, timeRegs, coreRegs, memRegs, history>>

-----------------------------------------------------------------------------
(* The components and what connects them. *)

Mem == INSTANCE SramRestore WITH fi_restore_i <- mem_req

\* The Table Controller's outputs do not depend on the pop input, which the
\* Scan Controller derives from them: they are read through an instance of
\* their own.
Stream == INSTANCE TableCtrl WITH
            batch_start_i <- cfg_fi_cycle_wr,
            cfg_tbl_len_i <- cfg_tbl_len,
            done_i        <- done_o,
            tbl_rdata_i   <- tbl[word_ptr % TBL_WORDS],
            entry_pop_i   <- FALSE

\* cfg_en_able selects the table or the static register as the index source.
entry_index_sel == IF cfg_en_able THEN Stream!entry_index_o ELSE cfg_fi_index
entry_valid_sel == IF cfg_en_able THEN Stream!entry_valid_o ELSE static_first
arm_ok == IF cfg_en_able THEN Stream!entry_ready_o ELSE cfg_fi_index # 0

Scan == INSTANCE ScanCtrl WITH
          cfg_start_i    <- s2,
          cfg_scan_len_i <- cfg_scan_len,
          entry_index_i  <- entry_index_sel,
          entry_valid_i  <- entry_valid_sel,
          entry_ready_i  <- arm_ok,
          scrub_req_i    <- scrub_req,
          scan_out_i     <- 0

\* A pop in static mode does not consume the table.
Table == INSTANCE TableCtrl WITH
           batch_start_i <- cfg_fi_cycle_wr,
           cfg_tbl_len_i <- cfg_tbl_len,
           done_i        <- done_o,
           tbl_rdata_i   <- tbl[word_ptr % TBL_WORDS],
           entry_pop_i   <- Scan!entry_pop_o /\ cfg_en_able

Time == INSTANCE TimeCtrl WITH
          aon_rtcToggle_a   <- aon_lfclk,
          cfg_end_i         <- cfg_end,
          cfg_fi_cycle_i    <- cfg_fi_cycle,
          cfg_fi_cycle_wr_i <- cfg_fi_cycle_wr,
          cfg_to_thr_i      <- cfg_to_thr,
          cycle_offset_i    <- Stream!cycle_offset_o,
          scrub_done_i      <- scrub_done_o,
          scrub_run_i       <- Scan!scrub_run_o,
          scrub_last_i      <- Scan!scrub_last_o,
          mem_done_i        <- Mem!fi_done_o,
          mem_abort_i       <- Mem!fi_abort_o,
          mem_bad_i         <- Mem!fi_bad_o

start_usr  == cfg_start \/ scan_start
testmode_o == Scan!testmode_o /\ ~testmode_rst
resolver_rst_rise == resolver_rst /\ ~resolver_rst_q

\* 1: this edge is one the freeze gate lets through.
run_o == ~(run_gate_q /\ clk_gate)

-----------------------------------------------------------------------------
(* The registers of fi_executor_core and fi_wrapper_top. *)

\* Table mode is entered with a reset window, and left for good when the
\* batch is over or its cycle sweep has passed the timeout.
EnAble_Mutant ==
  cfg_en_able' = (cfg_auto /\ ~table_exhausted_o /\ ~Time!fi_cycle_ovf_o /\ resolver_rst_rise)
EnAble ==
  cfg_en_able' = /\ cfg_auto /\ ~table_exhausted_o /\ ~Time!fi_cycle_ovf_o
                 /\ cfg_en_able \/ resolver_rst_rise

\* Exactly one flip per pass in static mode.
StaticFirst_Mutant == static_first' = (start_usr \/ static_first)
StaticFirst ==
  static_first' = (start_usr \/ (static_first /\ ~Scan!entry_pop_o))

Core ==
  /\ EnAble
  /\ StaticFirst
  /\ s1' = start_usr /\ s2' = s1

\* run_gate_q is cleared asynchronously while the DUT is in reset.
RunGate == run_gate_q' = (clk_gate /\ ~resolver_rst /\ ~resolver_rst')

-----------------------------------------------------------------------------
(* History. *)

\* An injection pass shifts on this edge.
InjectShift == scan_en_o /\ ~scrub_q

History ==
  /\ ftime' = IF resolver_rst \/ resolver_rst' THEN 0 ELSE IF run_o THEN (ftime + 1) % WORD ELSE ftime
  /\ nshift' = IF scan_en_o /\ scan_en_o' THEN nshift + 1 ELSE 0
  /\ LET flipped == IF InjectShift /\ Scan!scan_in_o = 1
                    THEN flips \union {cfg_scan_len - 1 - nshift} ELSE flips
         ended == InjectShift /\ ~scan_en_o'
     IN  /\ flips' = IF ended THEN {} ELSE flipped
         /\ inj' = IF cfg_fi_cycle_wr THEN <<>>
                   ELSE IF ended THEN Append(inj, [cycle |-> ftime, cells |-> flipped])
                   ELSE inj
         /\ passes' = IF resolver_rst' THEN 0 ELSE IF ended THEN passes + 1 ELSE passes
  /\ zeroed' = \/ Scan!scrub_last_o /\ nshift + 1 >= Scan!scrub_n
               \/ zeroed /\ resolver_rst

-----------------------------------------------------------------------------
Init ==
  /\ cfg_auto = FALSE /\ cfg_start = FALSE /\ cfg_scan_len = 0 /\ cfg_fi_index = 0
  /\ cfg_end = FALSE /\ cfg_fi_cycle = 0 /\ cfg_fi_cycle_wr = FALSE
  /\ cfg_to_thr = 0 /\ cfg_tbl_len = 0
  /\ tbl = [w \in 0 .. TBL_WORDS - 1 |-> [eop |-> FALSE, off |-> 0, idx |-> 0]]
  /\ Scan!Init /\ Table!Init /\ Time!Init /\ Mem!Init
  /\ cfg_en_able = FALSE /\ static_first = TRUE /\ s1 = FALSE /\ s2 = FALSE
  /\ run_gate_q = FALSE /\ aon_lfclk = FALSE
  /\ ram = [x \in Mem!Addr |-> FI_FILL_WORD]
  /\ ftime = 0 /\ nshift = 0 /\ flips = {} /\ passes = 0 /\ inj = <<>>
  /\ zeroed = FALSE

\* A normal run writes a FILL memory freely and an UNDO memory not at all: there
\* only an injection can make the DUT write.  In reset it does not write (an
\* unruly one does).  Address and data are anything.
DutMayWrite == IF resolver_rst THEN DUT_UNRULY ELSE FI_KIND = 1 \/ passes > 0

Memory ==
  \E wenb \in {FALSE, DutMayWrite}, a \in Mem!Addr, d \in Word :
    Mem!Edge(run_o, wenb, a, d)

SlowClock == aon_lfclk' \in IF RTC_ALIGN_EN THEN BOOLEAN ELSE {FALSE}

\* One rising edge of aon_hfclk_i, except for what the host does on it.
Edge ==
  /\ Scan!Edge /\ Table!Edge /\ Time!Edge
  /\ Core /\ RunGate /\ Memory /\ SlowClock /\ History
=============================================================================
