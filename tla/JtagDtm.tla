-------------------------------- MODULE JtagDtm --------------------------------
(***************************************************************************)
(* The DTM of rtl/fi_transporter.v (fi_jtag_dtm_v6), one rising edge of    *)
(* TCK per action.  A word is the 41-bit DMI register: an operation or a   *)
(* response status in op, an address and data.                             *)
(*                                                                         *)
(* Inputs are parameters: active (fi_mode_active_i), the TAP's request req *)
(* with its word, isDmi and dmireset, and the two bridges' send (ready for *)
(* a request), back and answer (a response and its word).                  *)
(***************************************************************************)
EXTENDS Integers

CONSTANT Zero      \* the word of all zeros

VARIABLES state_q, dtm_data_q, stick_busy_q, req_pulse_q, resp_ready_q

OP_READ == 1
OP_WRITE == 2
RESP_BUSY == 3

req_is_active_w(word) == word.op \in {OP_READ, OP_WRITE}
busy_now_w == state_q # "S_IDLE"
dtm_idle_o == state_q = "S_IDLE"

passive_entry_trigger_w_Mutant(req, word, isDmi) ==
  req /\ isDmi /\ word.op = OP_WRITE /\ word.data % 2 = 1
passive_entry_trigger_w(req, word, isDmi) ==
  /\ req /\ isDmi
  /\ word.op = OP_WRITE /\ word.addr = "FI_MODE" /\ word.data % 2 = 1

\* A response that comes back while the DTM is idle is an orphan: drained.
dmi_resp_ready_o_Mutant == resp_ready_q
dmi_resp_ready_o == resp_ready_q \/ state_q = "S_IDLE"

\* What CAPTURE_DR gives the host.
data_o(active) ==
  CASE ~active -> Zero
    [] active /\ (stick_busy_q \/ busy_now_w) -> [Zero EXCEPT !.op = RESP_BUSY]
    [] OTHER -> dtm_data_q

Init ==
  /\ state_q = "S_IDLE" /\ dtm_data_q = Zero
  /\ stick_busy_q = FALSE /\ req_pulse_q = FALSE /\ resp_ready_q = FALSE

Passive(req, word, isDmi, send) ==
  LET go == passive_entry_trigger_w(req, word, isDmi) /\ send IN
  /\ state_q' = "S_IDLE"
  /\ dtm_data_q' = IF go THEN word ELSE Zero
  /\ req_pulse_q' = go
  /\ stick_busy_q' = FALSE /\ resp_ready_q' = FALSE

Idle(req, word, dmireset) ==
  /\ state_q = "S_IDLE"
  /\ IF req /\ req_is_active_w(word)
       THEN state_q' = "S_SEND" /\ dtm_data_q' = word
       ELSE UNCHANGED <<state_q, dtm_data_q>>
  /\ stick_busy_q' = (stick_busy_q /\ ~dmireset)
  /\ req_pulse_q' = FALSE /\ resp_ready_q' = FALSE

Send(req, dmireset, send) ==
  /\ state_q = "S_SEND"
  /\ state_q' = IF send THEN "S_WAIT_RESP" ELSE "S_SEND"
  /\ req_pulse_q' = send
  /\ stick_busy_q' = (req \/ (stick_busy_q /\ ~dmireset))
  /\ resp_ready_q' = FALSE
  /\ UNCHANGED dtm_data_q

WaitResp(req, dmireset, back, answer) ==
  /\ state_q = "S_WAIT_RESP"
  /\ IF back THEN state_q' = "S_IDLE" /\ dtm_data_q' = answer
             ELSE UNCHANGED <<state_q, dtm_data_q>>
  /\ stick_busy_q' = (req \/ (stick_busy_q /\ ~dmireset))
  /\ resp_ready_q' = TRUE /\ req_pulse_q' = FALSE

Edge(active, req, word, isDmi, dmireset, send, back, answer) ==
  \/ ~active /\ Passive(req, word, isDmi, send)
  \/ active /\ (Idle(req, word, dmireset) \/ Send(req, dmireset, send)
                 \/ WaitResp(req, dmireset, back, answer))

Reset ==
  /\ state_q' = "S_IDLE" /\ dtm_data_q' = Zero
  /\ stick_busy_q' = FALSE /\ req_pulse_q' = FALSE /\ resp_ready_q' = FALSE

Still == UNCHANGED <<state_q, dtm_data_q, stick_busy_q, req_pulse_q, resp_ready_q>>
=============================================================================
