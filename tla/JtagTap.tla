-------------------------------- MODULE JtagTap --------------------------------
(***************************************************************************)
(* The TAP of rtl/fi_transporter.v (fi_jtag_tap): the sixteen-state        *)
(* controller, the instruction register and the registered request to the  *)
(* DTM.  What is in the shift register at UPDATE_DR or UPDATE_IR is what   *)
(* the host shifted in, a parameter; bits on their way are not modelled.   *)
(***************************************************************************)
EXTENDS Integers

CONSTANT NoWord    \* tap_data_q when nothing reads it

VARIABLES tap_state_q, ir_reg_q, tap_req_q, tap_data_q, dmireset_q

(* ir_reg_q is "DTMCS", "DMI" or "IDCODE", which stands for every instruction   *)
(* that reaches neither the DMI nor the DTM.                                    *)

\* The state after a rising edge of TCK: with TMS low, and with TMS high.
tap_state_d ==
  [TEST_LOGIC_RESET |-> <<"RUN_TEST_IDLE", "TEST_LOGIC_RESET">>,
   RUN_TEST_IDLE    |-> <<"RUN_TEST_IDLE", "SELECT_DR">>,
   SELECT_DR        |-> <<"CAPTURE_DR", "SELECT_IR">>,
   CAPTURE_DR       |-> <<"SHIFT_DR", "EXIT1_DR">>,
   SHIFT_DR         |-> <<"SHIFT_DR", "EXIT1_DR">>,
   EXIT1_DR         |-> <<"PAUSE_DR", "UPDATE_DR">>,
   PAUSE_DR         |-> <<"PAUSE_DR", "EXIT2_DR">>,
   EXIT2_DR         |-> <<"SHIFT_DR", "UPDATE_DR">>,
   UPDATE_DR        |-> <<"RUN_TEST_IDLE", "SELECT_DR">>,
   SELECT_IR        |-> <<"CAPTURE_IR", "TEST_LOGIC_RESET">>,
   CAPTURE_IR       |-> <<"SHIFT_IR", "EXIT1_IR">>,
   SHIFT_IR         |-> <<"SHIFT_IR", "EXIT1_IR">>,
   EXIT1_IR         |-> <<"PAUSE_IR", "UPDATE_IR">>,
   PAUSE_IR         |-> <<"PAUSE_IR", "EXIT2_IR">>,
   EXIT2_IR         |-> <<"SHIFT_IR", "UPDATE_IR">>,
   UPDATE_IR        |-> <<"RUN_TEST_IDLE", "SELECT_DR">>]

tap_safe_switch_o == tap_state_q \in {"RUN_TEST_IDLE", "TEST_LOGIC_RESET"}
tap_ir_is_dmi_o == ir_reg_q = "DMI"

updates(ir) == tap_state_q = "UPDATE_DR" /\ ir_reg_q = ir

Init ==
  /\ tap_state_q = "TEST_LOGIC_RESET" /\ ir_reg_q = "IDCODE"
  /\ tap_req_q = FALSE /\ tap_data_q = NoWord /\ dmireset_q = FALSE

\* A rising edge of TCK and the falling edge after it, which loads the
\* instruction register.  word is the data register the host shifted in, reset
\* its bit 16 when the instruction is DTMCS, ir the instruction shifted in.
Edge(tms, word, reset, ir) ==
  /\ tap_state_q' = tap_state_d[tap_state_q][tms + 1]
  /\ tap_req_q' = updates("DMI")
  /\ tap_data_q' = IF updates("DMI") THEN word ELSE NoWord
  /\ dmireset_q' = (updates("DTMCS") /\ reset)
  /\ ir_reg_q' = CASE tap_state_q' = "TEST_LOGIC_RESET" -> "IDCODE"
                   [] tap_state_q' = "UPDATE_IR" -> ir
                   [] OTHER -> ir_reg_q

Reset ==
  /\ tap_state_q' = "TEST_LOGIC_RESET" /\ ir_reg_q' = "IDCODE"
  /\ tap_req_q' = FALSE /\ tap_data_q' = NoWord /\ dmireset_q' = FALSE

Still == UNCHANGED <<tap_state_q, ir_reg_q, tap_req_q, tap_data_q, dmireset_q>>
=============================================================================
