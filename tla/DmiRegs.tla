-------------------------------- MODULE DmiRegs --------------------------------
(***************************************************************************)
(* The FI register bank of rtl/fi_transporter.v (fi_dmi_regs_v6) with the  *)
(* host port of the FI table, one rising edge of the AON clock per action. *)
(*                                                                         *)
(* Inputs are parameters: a request (valid and word), ready (the response  *)
(* bridge is free), rdata (the table's read port), active (the mode the    *)
(* JTAG side is in) and live (what the executor reports, for FI_STATUS and *)
(* FI_CYCLE).                                                              *)
(***************************************************************************)
EXTENDS Integers

CONSTANTS
  TBL_WORDS,   \* words of the FI table
  Zero         \* the response register's reset value

VARIABLES
  fi_mode_req, cfg,                  \* cfg: CFG0 .. CFG_TBL_LEN, by name
  cfg_start, cfg_fi_cycle_wr,        \* one-cycle strobes
  tbl_host_wr_en, tbl_host_rd_en, tbl_host_addr, tbl_host_wdata,
  dmi_resp_data, dmi_resp_valid,
  tbl_state_q, tbl_rdata_shadow_q, tbl_rd_pending_q, tbl_rd_valid_q, tbl_auto_inc_q,
  tbl_addr_ptr_q

CfgRegs == {"CFG0", "CFG_SCAN_LEN", "CFG_FI_INDEX", "CFG_FI_CYCLE", "CFG_TO_THR", "CFG_TBL_LEN"}
Writable == CfgRegs \union {"FI_MODE", "FI_CMD", "TBL_CTRL", "TBL_ADDR", "TBL_WDATA", "TBL_RCMD"}
Readable == CfgRegs \union {"FI_MODE", "FI_STATUS", "FI_CYCLE", "FI_VERSION", "TBL_CTRL",
                            "TBL_ADDR", "TBL_WDATA", "TBL_RDATA", "TBL_STATUS"}
OP_NOP == 0
OP_READ == 1
OP_WRITE == 2
RESP_OK == 0
RESP_FAIL == 2
RESP_BUSY == 3
FI_VERSION_VALUE == 3 * 2^16
BAD(n) == n - 17702 * 2^16      \* BADA_000n, as a signed word

bit(b) == IF b THEN 1 ELSE 0

Init ==
  /\ fi_mode_req = FALSE /\ cfg = [a \in CfgRegs |-> 0]
  /\ cfg_start = FALSE /\ cfg_fi_cycle_wr = FALSE
  /\ tbl_host_wr_en = FALSE /\ tbl_host_rd_en = FALSE
  /\ tbl_host_addr = 0 /\ tbl_host_wdata = 0
  /\ dmi_resp_data = Zero /\ dmi_resp_valid = FALSE
  /\ tbl_state_q = "TBL_IDLE" /\ tbl_rdata_shadow_q = 0
  /\ tbl_rd_pending_q = FALSE /\ tbl_rd_valid_q = FALSE /\ tbl_auto_inc_q = FALSE
  /\ tbl_addr_ptr_q = 0

\* The bits of the data a register keeps, which are the ones a write echoes.
Kept(addr, data) ==
  CASE addr \in {"FI_MODE", "TBL_CTRL"} -> data % 2
    [] addr = "CFG0"     -> data % 4
    [] addr = "TBL_ADDR" -> data % TBL_WORDS
    [] OTHER             -> data

Value(addr, active, live) ==
  CASE addr \in CfgRegs      -> cfg[addr]
    [] addr = "FI_MODE"      -> bit(active)
    [] addr \in {"FI_STATUS", "FI_CYCLE"} -> live
    [] addr = "FI_VERSION"   -> FI_VERSION_VALUE
    [] addr = "TBL_CTRL"     -> bit(tbl_auto_inc_q)
    [] addr = "TBL_ADDR"     -> tbl_addr_ptr_q
    [] addr = "TBL_WDATA"    -> tbl_host_wdata
    [] addr = "TBL_RDATA"    -> tbl_rdata_shadow_q
    [] addr = "TBL_STATUS"   -> 4 * bit(tbl_rd_valid_q) + 2 * bit(tbl_rd_pending_q)
                                  + bit(tbl_auto_inc_q)

Answered(word, status, data) == [op |-> status, addr |-> word.addr, data |-> data]

ReadAnswer(word, active, live) ==
  CASE word.addr \notin Readable -> Answered(word, RESP_FAIL, BAD(1))
    [] word.addr = "TBL_RDATA" /\ ~tbl_rd_valid_q ->
         Answered(word, RESP_BUSY, Value(word.addr, active, live))
    [] OTHER -> Answered(word, RESP_OK, Value(word.addr, active, live))

WriteAnswer(word) ==
  IF word.addr \in Writable THEN Answered(word, RESP_OK, Kept(word.addr, word.data))
                            ELSE Answered(word, RESP_FAIL, BAD(2))

Answer(word, active, live) ==
  CASE word.op = OP_NOP -> Answered(word, RESP_OK, word.data)
    [] word.op = OP_READ -> ReadAnswer(word, active, live)
    [] word.op = OP_WRITE -> WriteAnswer(word)
    [] OTHER -> Answered(word, RESP_FAIL, BAD(3))

-----------------------------------------------------------------------------
\* A request is served when no response is waiting.
dmi_req_ready_o == ~dmi_resp_valid
serves(valid) == valid /\ dmi_req_ready_o
writes(valid, word, addr) == serves(valid) /\ word.op = OP_WRITE /\ word.addr = addr

Respond(valid, word, ready, active, live) ==
  /\ dmi_resp_valid' = (serves(valid) \/ (dmi_resp_valid /\ ~ready))
  /\ dmi_resp_data' = IF serves(valid) THEN Answer(word, active, live) ELSE dmi_resp_data

Configure(valid, word) ==
  LET W(a) == writes(valid, word, a) IN
  /\ fi_mode_req' = IF W("FI_MODE") THEN word.data % 2 = 1 ELSE fi_mode_req
  /\ cfg' = [a \in CfgRegs |-> IF W(a) THEN Kept(a, word.data) ELSE cfg[a]]
  /\ cfg_start' = (W("FI_CMD") /\ word.data % 2 = 1)
  /\ cfg_fi_cycle_wr' = W("CFG_FI_CYCLE")

\* The pointer follows every word written when auto-increment is on.
Point_Mutant(valid, word) ==
  tbl_addr_ptr_q' =
    CASE writes(valid, word, "TBL_ADDR") -> word.data % TBL_WORDS
      [] writes(valid, word, "TBL_WDATA") -> (tbl_addr_ptr_q + 1) % TBL_WORDS
      [] OTHER -> tbl_addr_ptr_q
Point(valid, word) ==
  tbl_addr_ptr_q' =
    CASE writes(valid, word, "TBL_ADDR") -> word.data % TBL_WORDS
      [] writes(valid, word, "TBL_WDATA") /\ tbl_auto_inc_q ->
           (tbl_addr_ptr_q + 1) % TBL_WORDS
      [] OTHER -> tbl_addr_ptr_q

TableWrite(valid, word) ==
  LET W(a) == writes(valid, word, a) IN
  /\ Point(valid, word)
  /\ tbl_auto_inc_q' = IF W("TBL_CTRL") THEN word.data % 2 = 1 ELSE tbl_auto_inc_q
  /\ tbl_host_wr_en' = W("TBL_WDATA")
  /\ tbl_host_wdata' = IF W("TBL_WDATA") THEN word.data ELSE tbl_host_wdata
  /\ tbl_host_addr' = IF W("TBL_WDATA") \/ tbl_host_rd_en' THEN tbl_addr_ptr_q
                                                          ELSE tbl_host_addr

\* Three edges per read of the table, from the request pending on.
TableRead_Mutant(valid, word, rdata) ==
  LET rcmd == writes(valid, word, "TBL_RCMD")
      done == tbl_state_q = "TBL_RD_WAIT" IN
  /\ tbl_host_rd_en' = (tbl_state_q = "TBL_IDLE" /\ tbl_rd_pending_q)
  /\ tbl_state_q' = CASE tbl_state_q = "TBL_IDLE" ->
                           IF tbl_rd_pending_q THEN "TBL_RD_ISS" ELSE "TBL_IDLE"
                      [] tbl_state_q = "TBL_RD_ISS" -> "TBL_RD_WAIT"
                      [] done -> "TBL_IDLE"
  /\ tbl_rdata_shadow_q' = IF done THEN rdata ELSE tbl_rdata_shadow_q
  /\ tbl_rd_pending_q' = (rcmd \/ tbl_rd_pending_q)
  /\ tbl_rd_valid_q' = (~rcmd /\ (tbl_rd_valid_q \/ done))
TableRead(valid, word, rdata) ==
  LET rcmd == writes(valid, word, "TBL_RCMD")
      done == tbl_state_q = "TBL_RD_WAIT" IN
  /\ tbl_host_rd_en' = (tbl_state_q = "TBL_IDLE" /\ tbl_rd_pending_q)
  /\ tbl_state_q' = CASE tbl_state_q = "TBL_IDLE" ->
                           IF tbl_rd_pending_q THEN "TBL_RD_ISS" ELSE "TBL_IDLE"
                      [] tbl_state_q = "TBL_RD_ISS" -> "TBL_RD_WAIT"
                      [] done -> "TBL_IDLE"
  /\ tbl_rdata_shadow_q' = IF done THEN rdata ELSE tbl_rdata_shadow_q
  /\ tbl_rd_pending_q' = (rcmd \/ (tbl_rd_pending_q /\ ~done))
  /\ tbl_rd_valid_q' = (~rcmd /\ (tbl_rd_valid_q \/ done))

Edge(valid, word, ready, rdata, active, live) ==
  /\ Respond(valid, word, ready, active, live)
  /\ Configure(valid, word)
  /\ TableRead(valid, word, rdata)
  /\ TableWrite(valid, word)

Still == UNCHANGED <<fi_mode_req, cfg, cfg_start, cfg_fi_cycle_wr,
                     tbl_host_wr_en, tbl_host_rd_en, tbl_host_addr, tbl_host_wdata,
                     dmi_resp_data, dmi_resp_valid, tbl_state_q, tbl_rdata_shadow_q,
                     tbl_rd_pending_q, tbl_rd_valid_q, tbl_auto_inc_q, tbl_addr_ptr_q>>
=============================================================================
