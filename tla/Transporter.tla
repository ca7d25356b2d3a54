------------------------------ MODULE Transporter ------------------------------
(***************************************************************************)
(* The FI Transporter (rtl/fi_transporter.v): TAP, DTM, the two            *)
(* clock-domain crossings, the register bank and the table's host port     *)
(* (rtl/fi_table.v), with a host that moves the TAP as it likes.           *)
(*                                                                         *)
(* TCK and the AON clock are independent: an edge of either or of both.    *)
(* At most RATIO edges of TCK fit between two edges of the AON clock.  A   *)
(* host shifts whole data registers, of DR_BITS bits, and an instruction   *)
(* only when it changes.                                                   *)
(***************************************************************************)
EXTENDS Integers, FiniteSets

CONSTANTS
  TBL_WORDS,   \* words of the FI table
  Requests,    \* the words the host may shift into the DMI register
  Instructions,\* the instructions it may shift in
  RATIO,       \* bound: TCK edges between two AON edges; 0: no bound
  DR_BITS,     \* edges in SHIFT_DR of one scan (41 in the code)
  TRST         \* whether TRST may come on its own

ASSUME TransporterAssumption ==
  /\ TBL_WORDS \in Nat \ {0} /\ RATIO \in Nat /\ DR_BITS \in Nat \ {0}
  /\ TRST \in BOOLEAN /\ IsFiniteSet(Requests)
  /\ Instructions \subseteq {"IDCODE", "DTMCS", "DMI"}

Zero == [op |-> 0, addr |-> "NONE", data |-> 0]
NoWord == Zero

VARIABLES
  tap_state_q, ir_reg_q, tap_req_q, tap_data_q, dmireset_q,
  state_q, dtm_data_q, stick_busy_q, req_pulse_q, resp_ready_q,
  fi_mode_req_sync1_q, fi_mode_req_sync2_q, fi_mode_active_q,
  fi_mode_req, cfg, cfg_start, cfg_fi_cycle_wr,
  tbl_host_wr_en, tbl_host_rd_en, tbl_host_addr, tbl_host_wdata,
  dmi_resp_data, dmi_resp_valid,
  tbl_state_q, tbl_rdata_shadow_q, tbl_rd_pending_q, tbl_rd_valid_q, tbl_auto_inc_q,
  tbl_addr_ptr_q,
  mem, host_rdata,               \* the FI table and its host read port
  \* u_cdc_req: source (TCK), then destination (AON)
  qs_data, qs_tog, qs_busy, qs_ack1, qs_ack2, qs_ack3,
  qd_data, qd_valid, qd_tog, qd_req1, qd_req2, qd_req3,
  \* u_cdc_resp: source (AON), then destination (TCK)
  rs_data, rs_tog, rs_busy, rs_ack1, rs_ack2, rs_ack3,
  rd_data, rd_valid, rd_tog, rd_req1, rd_req2, rd_req3,
  shifted,     \* bits shifted in the current scan
  tcks,        \* TCK edges since the last AON edge
  last,        \* history: the request the DTM accepted last, in FI mode
  ref          \* history: the registers as the accepted requests leave them

Tap == INSTANCE JtagTap
Dtm == INSTANCE JtagDtm
Regs == INSTANCE DmiRegs
Req == INSTANCE Cdc2Phase WITH NoData <- Zero,
  src_data_hold_q <- qs_data, src_toggle_q <- qs_tog, src_busy_q <- qs_busy,
  dst_toggle_src1_q <- qs_ack1, dst_toggle_src2_q <- qs_ack2, dst_toggle_src3_q <- qs_ack3,
  dst_data_o <- qd_data, dst_valid_o <- qd_valid, dst_toggle_q <- qd_tog,
  src_toggle_dst1_q <- qd_req1, src_toggle_dst2_q <- qd_req2, src_toggle_dst3_q <- qd_req3
Resp == INSTANCE Cdc2Phase WITH NoData <- Zero,
  src_data_hold_q <- rs_data, src_toggle_q <- rs_tog, src_busy_q <- rs_busy,
  dst_toggle_src1_q <- rs_ack1, dst_toggle_src2_q <- rs_ack2, dst_toggle_src3_q <- rs_ack3,
  dst_data_o <- rd_data, dst_valid_o <- rd_valid, dst_toggle_q <- rd_tog,
  src_toggle_dst1_q <- rd_req1, src_toggle_dst2_q <- rd_req2, src_toggle_dst3_q <- rd_req3

vars == <<tap_state_q, ir_reg_q, tap_req_q, tap_data_q, dmireset_q,
  state_q, dtm_data_q, stick_busy_q, req_pulse_q, resp_ready_q,
  fi_mode_req_sync1_q, fi_mode_req_sync2_q, fi_mode_active_q,
  fi_mode_req, cfg, cfg_start, cfg_fi_cycle_wr,
  tbl_host_wr_en, tbl_host_rd_en, tbl_host_addr, tbl_host_wdata,
  dmi_resp_data, dmi_resp_valid,
  tbl_state_q, tbl_rdata_shadow_q, tbl_rd_pending_q, tbl_rd_valid_q, tbl_auto_inc_q,
  tbl_addr_ptr_q, mem, host_rdata,
  qs_data, qs_tog, qs_busy, qs_ack1, qs_ack2, qs_ack3,
  qd_data, qd_valid, qd_tog, qd_req1, qd_req2, qd_req3,
  rs_data, rs_tog, rs_busy, rs_ack1, rs_ack2, rs_ack3,
  rd_data, rd_valid, rd_tog, rd_req1, rd_req2, rd_req3,
  shifted, tcks, last, ref>>

-----------------------------------------------------------------------------
(* The registers as a sequence of requests leaves them. *)

Registers == [cfg |-> cfg, ptr |-> tbl_addr_ptr_q, auto |-> tbl_auto_inc_q]

Applied(r, word) ==
  IF word.op # Regs!OP_WRITE THEN r ELSE
  CASE word.addr \in Regs!CfgRegs -> [r EXCEPT !.cfg[word.addr] = Regs!Kept(word.addr, word.data)]
    [] word.addr = "TBL_CTRL" -> [r EXCEPT !.auto = word.data % 2 = 1]
    [] word.addr = "TBL_ADDR" -> [r EXCEPT !.ptr = word.data % TBL_WORDS]
    [] word.addr = "TBL_WDATA" /\ r.auto -> [r EXCEPT !.ptr = (@ + 1) % TBL_WORDS]
    [] OTHER -> r

-----------------------------------------------------------------------------
Init ==
  /\ Tap!Init /\ Dtm!Init /\ Regs!Init /\ Req!Init /\ Resp!Init
  /\ fi_mode_req_sync1_q = FALSE /\ fi_mode_req_sync2_q = FALSE /\ fi_mode_active_q = FALSE
  /\ mem = [a \in 0..TBL_WORDS - 1 |-> 0] /\ host_rdata = 0
  /\ shifted = 0 /\ tcks = 0 /\ last = NoWord /\ ref = Registers

\* The requested mode, synchronised; committed only on a safe JTAG boundary.
Cutover ==
  /\ fi_mode_req_sync1_q' = fi_mode_req
  /\ fi_mode_req_sync2_q' = fi_mode_req_sync1_q
  /\ fi_mode_active_q' = IF Tap!tap_safe_switch_o /\ Dtm!dtm_idle_o THEN fi_mode_req_sync2_q
                                                                  ELSE fi_mode_active_q

\* A host's scan shifts the whole register and does not pause.
Scans(tms) ==
  /\ tap_state_q = "CAPTURE_DR" => tms = 0
  /\ tap_state_q = "SHIFT_DR" => tms = (IF shifted + 1 < DR_BITS THEN 0 ELSE 1)
  /\ tap_state_q \in {"EXIT1_DR", "EXIT1_IR"} => tms = 1
  /\ tap_state_q = "SELECT_DR" /\ Instructions = {ir_reg_q} => tms = 0
  /\ shifted' = IF tap_state_q = "SHIFT_DR" /\ tms = 0 THEN shifted + 1 ELSE 0

\* A request the DTM takes up; on the edge that leaves FI mode it does not.
Accepts ==
  /\ fi_mode_active_q /\ fi_mode_active_q'
  /\ Dtm!dtm_idle_o /\ tap_req_q /\ Dtm!req_is_active_w(tap_data_q)

Tck ==
  /\ \E tms \in 0..1,
        word \in IF Tap!updates("DMI") THEN Requests ELSE {NoWord},
        reset \in IF Tap!updates("DTMCS") THEN BOOLEAN ELSE {FALSE},
        ir \in IF tap_state_q = "EXIT1_IR" THEN Instructions ELSE {"IDCODE"} :
       Scans(tms) /\ Tap!Edge(tms, word, reset, ir)
  /\ Dtm!Edge(fi_mode_active_q, tap_req_q, tap_data_q, Tap!tap_ir_is_dmi_o, dmireset_q,
              Req!src_ready_o, rd_valid, rd_data)
  /\ Cutover
  /\ Req!SrcEdge(req_pulse_q, dtm_data_q)
  /\ Resp!DstEdge(Dtm!dmi_resp_ready_o)
  /\ last' = CASE ~fi_mode_active_q -> NoWord
               [] Accepts -> tap_data_q
               [] OTHER -> last
  /\ ref' = IF Accepts THEN Applied(ref, tap_data_q) ELSE ref
TckStill ==
  /\ Tap!Still /\ Dtm!Still /\ Req!SrcStill /\ Resp!DstStill
  /\ UNCHANGED <<fi_mode_req_sync1_q, fi_mode_req_sync2_q, fi_mode_active_q, shifted, last, ref>>

\* The table's host port.
TableEdge ==
  /\ mem' = IF tbl_host_wr_en THEN [mem EXCEPT ![tbl_host_addr] = tbl_host_wdata] ELSE mem
  /\ host_rdata' = IF tbl_host_rd_en THEN mem[tbl_host_addr] ELSE host_rdata

Aon ==
  /\ \E live \in IF qd_data.addr \in {"FI_STATUS", "FI_CYCLE"} THEN 0..1 ELSE {0} :
       Regs!Edge(qd_valid, qd_data, Resp!src_ready_o, host_rdata, fi_mode_active_q, live)
  /\ Req!DstEdge(Regs!dmi_req_ready_o)
  /\ Resp!SrcEdge(dmi_resp_valid, dmi_resp_data)
  /\ TableEdge
AonStill ==
  /\ Regs!Still /\ Req!DstStill /\ Resp!SrcStill /\ UNCHANGED <<mem, host_rdata>>

TckEdge ==
  /\ Tck /\ AonStill
  /\ RATIO = 0 \/ tcks < RATIO
  /\ tcks' = IF RATIO = 0 THEN 0 ELSE tcks + 1
AonEdge  == Aon /\ TckStill /\ tcks' = 0
BothEdge == Tck /\ Aon /\ tcks' = 0

\* TRST on its own: the JTAG side and both crossings, never the registers.
Trst ==
  /\ TRST
  /\ Tap!Reset /\ Dtm!Reset /\ Req!Reset /\ Resp!Reset
  /\ fi_mode_req_sync1_q' = FALSE /\ fi_mode_req_sync2_q' = FALSE /\ fi_mode_active_q' = FALSE
  /\ shifted' = 0 /\ last' = NoWord /\ ref' = Registers
  /\ Regs!Still /\ UNCHANGED <<mem, host_rdata, tcks>>

Next == TckEdge \/ AonEdge \/ BothEdge \/ Trst
Spec == Init /\ [][Next]_vars
FairSpec == Spec /\ WF_vars(TckEdge \/ BothEdge) /\ WF_vars(AonEdge \/ BothEdge)

-----------------------------------------------------------------------------
(* Properties. *)

\* Whenever the DTM shows the host a finished transaction, what it shows is the
\* answer to the request it accepted last, never to an earlier one.
AnswersTheLastRequest ==
  LET shown == Dtm!data_o(fi_mode_active_q) IN
  fi_mode_active_q /\ last # NoWord /\ shown # [Zero EXCEPT !.op = Dtm!RESP_BUSY]
    => shown \in {Regs!Answer(last, fi_mode_active_q, live) : live \in 0..1}

\* With nothing under way the registers are what the accepted requests make of
\* them, each one carried out once and in order, also after a TRST.
EachRequestOnce == fi_mode_active_q /\ Dtm!dtm_idle_o => Registers = ref

\* A request finds the table's read port at rest: the crossing keeps requests
\* further apart than a read takes.
ReadsSettle ==
  qd_valid /\ Regs!serves(qd_valid) => tbl_state_q = "TBL_IDLE" /\ ~tbl_rd_pending_q

\* Transparent: the host debugs the DUT and its traffic changes no FI register.
TransparentIsPassive == [][~fi_mode_active_q /\ ~fi_mode_active_q' => Registers' = Registers]_vars

\* The DMI path never stalls: a transaction under way ends.
NeverStalls == ~Dtm!dtm_idle_o ~> Dtm!dtm_idle_o
=============================================================================
