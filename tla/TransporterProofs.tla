--------------------------- MODULE TransporterProofs ---------------------------
(***************************************************************************)
(* The FI Transporter as a whole, for every table, every set of requests   *)
(* and every interleaving of TCK, the AON clock and TRST.                  *)
(*                                                                         *)
(* A read of the table is always over before the next request arrives,     *)
(* whatever the clocks' ratio: a request needs four AON edges to cross,    *)
(* the read takes three.                                                   *)
(*                                                                         *)
(* The DTM matches a response to its request by waiting for it, so a       *)
(* request whose response it does not wait for (the one that enters FI     *)
(* mode, or what a TRST leaves behind) must be gone before the host's next *)
(* scan ends.  That is a race between the crossings and the TAP; Timing    *)
(* says when the crossings win it, Due and Slack measure it.               *)
(***************************************************************************)
EXTENDS Transporter, TLAPS

\* What single edges do to the two crossings, from the crossing's own lemmas.
ReqL == INSTANCE Cdc2PhaseProofs WITH NoData <- Zero,
  src_data_hold_q <- qs_data, src_toggle_q <- qs_tog, src_busy_q <- qs_busy,
  dst_toggle_src1_q <- qs_ack1, dst_toggle_src2_q <- qs_ack2, dst_toggle_src3_q <- qs_ack3,
  dst_data_o <- qd_data, dst_valid_o <- qd_valid, dst_toggle_q <- qd_tog,
  src_toggle_dst1_q <- qd_req1, src_toggle_dst2_q <- qd_req2, src_toggle_dst3_q <- qd_req3
RespL == INSTANCE Cdc2PhaseProofs WITH NoData <- Zero,
  src_data_hold_q <- rs_data, src_toggle_q <- rs_tog, src_busy_q <- rs_busy,
  dst_toggle_src1_q <- rs_ack1, dst_toggle_src2_q <- rs_ack2, dst_toggle_src3_q <- rs_ack3,
  dst_data_o <- rd_data, dst_valid_o <- rd_valid, dst_toggle_q <- rd_tog,
  src_toggle_dst1_q <- rd_req1, src_toggle_dst2_q <- rd_req2, src_toggle_dst3_q <- rd_req3

-----------------------------------------------------------------------------
(* The invariants. *)

\* Both crossings are in one of their stages, and the one-bit registers the
\* two clocks exchange are Boolean.
Crossings ==
  /\ ReqL!Flops /\ ReqL!Handshake /\ RespL!Flops /\ RespL!Handshake
  /\ req_pulse_q \in BOOLEAN /\ resp_ready_q \in BOOLEAN /\ dmi_resp_valid \in BOOLEAN
  /\ tap_req_q \in BOOLEAN /\ fi_mode_active_q \in BOOLEAN
  /\ fi_mode_req \in BOOLEAN
  /\ fi_mode_req_sync1_q \in BOOLEAN /\ fi_mode_req_sync2_q \in BOOLEAN

\* A read of the table in progress has the AON edges it needs before the next
\* request is there.
EdgesToRead == CASE tbl_state_q = "TBL_IDLE" -> 4
                 [] tbl_state_q = "TBL_RD_ISS" -> 3
                 [] OTHER -> 2
Settling ==
  /\ tbl_rd_pending_q \in BOOLEAN /\ tbl_rd_valid_q \in BOOLEAN
  /\ tbl_state_q \in {"TBL_IDLE", "TBL_RD_ISS", "TBL_RD_WAIT"}
  /\ tbl_state_q # "TBL_IDLE" => tbl_rd_pending_q
  /\ ReqL!InFlight /\ tbl_rd_pending_q => ReqL!ToTake >= EdgesToRead

\* The clocks are close enough for the crossings, and a scan long enough.
Timing == RATIO > 0 /\ 5 * RATIO + 7 <= DR_BITS

\* A transaction is in one place: pulsed by the DTM, crossing as a request,
\* waiting as a response, crossing as a response.
Pulsed    == req_pulse_q /\ ~ReqL!InFlight /\ ~dmi_resp_valid /\ ~RespL!InFlight
Asking    == ~req_pulse_q /\ ReqL!InFlight /\ ~dmi_resp_valid /\ ~RespL!InFlight
Answering == ~req_pulse_q /\ ~ReqL!InFlight /\ dmi_resp_valid /\ ~RespL!InFlight
Returning == ~req_pulse_q /\ ~ReqL!InFlight /\ ~dmi_resp_valid /\ RespL!InFlight
Quiet     == ~req_pulse_q /\ ~ReqL!InFlight /\ ~dmi_resp_valid /\ ~RespL!InFlight

\* The place, and whether both crossings are free when it gets to them.
Place ==
  \/ Pulsed /\ ~qs_busy
  \/ Asking /\ (rs_busy => RespL!ToFree <= ReqL!ToTake)
  \/ Answering /\ ~rs_busy
  \/ Returning
  \/ Quiet

\* The edges of TCK after which the transaction is over, at the most.
Due == IF req_pulse_q THEN 5 * RATIO + 10
       ELSE IF ReqL!InFlight THEN (ReqL!ToTake + 1) * RATIO + ReqL!ToTake + 5 - tcks
       ELSE IF dmi_resp_valid THEN RATIO + 5 - tcks
       ELSE RespL!ToTake

\* The edges of TCK before the TAP's next request, at the least.
Slack == CASE tap_req_q -> 0
           [] ~tap_req_q /\ tap_state_q = "UPDATE_DR" -> 1
           [] ~tap_req_q /\ tap_state_q = "EXIT1_DR" -> 2
           [] ~tap_req_q /\ tap_state_q = "SHIFT_DR" -> 2 + DR_BITS - shifted
           [] ~tap_req_q /\ tap_state_q = "CAPTURE_DR" -> 3 + DR_BITS
           [] OTHER -> 4 + DR_BITS

Scanning ==
  /\ tap_state_q \in {"TEST_LOGIC_RESET", "RUN_TEST_IDLE", "SELECT_DR", "CAPTURE_DR", "SHIFT_DR",
                      "EXIT1_DR", "UPDATE_DR", "SELECT_IR", "CAPTURE_IR", "SHIFT_IR", "EXIT1_IR",
                      "UPDATE_IR"}
  /\ tap_req_q => tap_state_q \in {"RUN_TEST_IDLE", "SELECT_DR"}
  /\ shifted \in 0 .. DR_BITS - 1
  /\ tap_state_q # "SHIFT_DR" => shifted = 0
  /\ tcks \in 0 .. RATIO

\* The DTM's states, and the race.
Turns ==
  /\ state_q \in {"S_IDLE", "S_SEND", "S_WAIT_RESP"}
  /\ state_q = "S_SEND" => Quiet
  /\ state_q = "S_WAIT_RESP" => fi_mode_active_q /\ ~Quiet /\ (req_pulse_q \/ resp_ready_q)
  /\ state_q = "S_IDLE" /\ ~Quiet => Due <= Slack

\* The word a transaction carries to the registers.
Word == IF req_pulse_q THEN dtm_data_q ELSE qs_data
ToServe == req_pulse_q \/ ReqL!InFlight

Answers == {Regs!Answer(last, TRUE, live) : live \in 0..1}
\* A read's answer stays true: the read port does not move under it.
Lasting == last.op \in {1, 2} /\ (last.op = 1 => tbl_state_q = "TBL_IDLE" /\ ~tbl_rd_pending_q)

\* What the words are: outside a transaction the DTM waits for, only requests to
\* enter FI mode; in one, the request accepted last, then its answer.
Words ==
  /\ state_q # "S_WAIT_RESP" /\ ToServe => Word.op = 2 /\ Word.addr = "FI_MODE"
  /\ state_q = "S_SEND" /\ fi_mode_active_q => dtm_data_q = last /\ last.op \in {1, 2}
  /\ state_q = "S_WAIT_RESP" /\ ToServe => Word = last /\ last.op \in {1, 2}
  /\ state_q = "S_WAIT_RESP" /\ dmi_resp_valid => dmi_resp_data \in Answers /\ Lasting
  /\ state_q = "S_WAIT_RESP" /\ RespL!InFlight => rs_data \in Answers /\ Lasting
  /\ state_q = "S_IDLE" /\ fi_mode_active_q /\ last # NoWord =>
       Quiet /\ dtm_data_q \in Answers /\ Lasting

\* The registers lag the accepted requests by the one that is on its way.
Pending == fi_mode_active_q /\ (state_q = "S_SEND" \/ (state_q = "S_WAIT_RESP" /\ ToServe))
Registered ==
  /\ cfg = [a \in Regs!CfgRegs |-> cfg[a]]
  /\ ref = IF Pending THEN Applied(Registers, last) ELSE Registers

Timely == Crossings /\ Settling /\ Scanning /\ Place /\ Turns
Exact  == Timely /\ Words /\ Registered
-----------------------------------------------------------------------------
(* The two crossings, as the lemmas and as the specification see them. *)

\* The request crossing: the specification's edges are the lemmas'.
LEMMA SameReqEdges ==
  /\ \A valid, d : Req!SrcEdge(valid, d) <=> ReqL!SrcEdge(valid, d)
  /\ \A ready : Req!DstEdge(ready) <=> ReqL!DstEdge(ready)
  /\ Req!SrcStill <=> ReqL!SrcStill
  /\ Req!DstStill <=> ReqL!DstStill
  /\ Req!Reset <=> ReqL!Reset
  /\ Req!Init <=> ReqL!Init
  BY DEF Req!SrcEdge, Req!Accept, Req!Hold, Req!SyncAck, Req!flip, Req!acked,
         ReqL!SrcEdge, ReqL!Accept, ReqL!Hold, ReqL!SyncAck, ReqL!flip, ReqL!acked,
         Req!DstEdge, Req!Capture, Req!Consume, Req!DstWait, Req!SyncRequest, Req!arrived,
         ReqL!DstEdge, ReqL!Capture, ReqL!Consume, ReqL!DstWait, ReqL!SyncRequest, ReqL!arrived,
         Req!SrcStill, ReqL!SrcStill, Req!DstStill, ReqL!DstStill, Req!Reset, ReqL!Reset,
         Req!Init, ReqL!Init

\* The response crossing likewise.
LEMMA SameRespEdges ==
  /\ \A valid, d : Resp!SrcEdge(valid, d) <=> RespL!SrcEdge(valid, d)
  /\ \A ready : Resp!DstEdge(ready) <=> RespL!DstEdge(ready)
  /\ Resp!SrcStill <=> RespL!SrcStill
  /\ Resp!DstStill <=> RespL!DstStill
  /\ Resp!Reset <=> RespL!Reset
  /\ Resp!Init <=> RespL!Init
  BY DEF Resp!SrcEdge, Resp!Accept, Resp!Hold, Resp!SyncAck, Resp!flip, Resp!acked,
         RespL!SrcEdge, RespL!Accept, RespL!Hold, RespL!SyncAck, RespL!flip, RespL!acked,
         Resp!DstEdge, Resp!Capture, Resp!Consume, Resp!DstWait, Resp!SyncRequest, Resp!arrived,
         RespL!DstEdge, RespL!Capture, RespL!Consume, RespL!DstWait, RespL!SyncRequest,
         RespL!arrived,
         Resp!SrcStill, RespL!SrcStill, Resp!DstStill, RespL!DstStill, Resp!Reset, RespL!Reset,
         Resp!Init, RespL!Init

-----------------------------------------------------------------------------
(* A step is a TRST, or an edge of either clock, of both, or of none. *)

TckSide(t) == IF t THEN Tck ELSE TckStill
AonSide(a) == IF a THEN Aon ELSE AonStill
Counted(t, a) ==
  RATIO > 0 => tcks' = (IF a THEN 0 ELSE IF t THEN tcks + 1 ELSE tcks)
                 /\ (t /\ ~a => tcks < RATIO)

\* What a step can be, sides and edge counter named.
LEMMA StepCases ==
  ASSUME [Next]_vars
  PROVE  \/ Trst
         \/ \E t, a \in BOOLEAN : TckSide(t) /\ AonSide(a) /\ Counted(t, a)
<1>0. RATIO \in Nat BY TransporterAssumption
<1>1. CASE TckEdge
  <2>1. TckSide(TRUE) /\ AonSide(FALSE) BY <1>1 DEF TckEdge, TckSide, AonSide
  <2>2. Counted(TRUE, FALSE) BY <1>0, <1>1 DEF TckEdge, Counted
  <2> QED BY <2>1, <2>2
<1>2. CASE AonEdge
  <2>1. TckSide(FALSE) /\ AonSide(TRUE) BY <1>2 DEF AonEdge, TckSide, AonSide
  <2>2. Counted(FALSE, TRUE) BY <1>2 DEF AonEdge, Counted
  <2> QED BY <2>1, <2>2
<1>3. CASE BothEdge
  <2>1. TckSide(TRUE) /\ AonSide(TRUE) BY <1>3 DEF BothEdge, TckSide, AonSide
  <2>2. Counted(TRUE, TRUE) BY <1>3 DEF BothEdge, Counted
  <2> QED BY <2>1, <2>2
<1>4. CASE UNCHANGED vars
  <2>1. TckStill
    <3>1. Tap!Still /\ Dtm!Still BY <1>4, Zenon DEF vars, Tap!Still, Dtm!Still
    <3>2. Req!SrcStill BY <1>4, Zenon DEF vars, Req!SrcStill
    <3>3. Resp!DstStill BY <1>4, Zenon DEF vars, Resp!DstStill
    <3> QED BY <1>4, <3>1, <3>2, <3>3, Zenon DEF vars, TckStill
  <2>2. AonStill
    <3>1. Regs!Still BY <1>4, Zenon DEF vars, Regs!Still
    <3>2. Req!DstStill BY <1>4, Zenon DEF vars, Req!DstStill
    <3>3. Resp!SrcStill BY <1>4, Zenon DEF vars, Resp!SrcStill
    <3> QED BY <1>4, <3>1, <3>2, <3>3, Zenon DEF vars, AonStill
  <2>3. tcks' = tcks BY <1>4, Zenon DEF vars
  <2>4. Counted(FALSE, FALSE) BY <2>3 DEF Counted
  <2> QED BY <2>1, <2>2, <2>4 DEF TckSide, AonSide
<1> QED BY <1>1, <1>2, <1>3, <1>4 DEF Next

\* The request crossing's source runs on TCK.
LEMMA ReqSource ==
  ASSUME Crossings, NEW t \in BOOLEAN, TckSide(t)
  PROVE  /\ ReqL!SrcDid(dtm_data_q)
         /\ IF t /\ req_pulse_q /\ ~qs_busy THEN ReqL!SyncAck /\ ReqL!Accepts(dtm_data_q)
                                            ELSE ~ReqL!Accepts(dtm_data_q)
<1>1. CASE t
  <2>1. ReqL!SrcEdge(req_pulse_q, dtm_data_q)
    BY <1>1, SameReqEdges, Zenon DEF TckSide, Tck
  <2>2. /\ ReqL!SyncAck
        /\ req_pulse_q /\ ~qs_busy => ReqL!Accepts(dtm_data_q)
        /\ ~(req_pulse_q /\ ~qs_busy) => ReqL!Frees \/ ReqL!Rests
    BY <2>1, ReqL!SrcCases, Zenon DEF Crossings
  <2>3. ReqL!Frees \/ ReqL!Rests => ~ReqL!Accepts(dtm_data_q)
    BY DEF ReqL!Frees, ReqL!Rests, ReqL!Accepts
  <2> QED BY <1>1, <2>2, <2>3, Zenon DEF ReqL!SrcDid
<1>2. CASE ~t
  <2>1. ReqL!SrcStill
    BY <1>2, SameReqEdges, Zenon DEF TckSide, TckStill
  <2>2. ~ReqL!Accepts(dtm_data_q)
    BY <2>1 DEF ReqL!SrcStill, ReqL!Accepts
  <2> QED BY <1>2, <2>1, <2>2, Zenon DEF ReqL!SrcDid
<1> QED BY <1>1, <1>2

\* Its destination runs on the AON clock.
LEMMA ReqDestination ==
  ASSUME Crossings, NEW a \in BOOLEAN, AonSide(a)
  PROVE  /\ ReqL!DstDid
         /\ a => ReqL!SyncRequest
         /\ ~a => ReqL!DstStill
         /\ a /\ qd_valid /\ ~dmi_resp_valid <=> ReqL!Takes
<1>1. CASE a
  <2>1. ReqL!DstEdge(~dmi_resp_valid)
    BY <1>1, SameReqEdges, Zenon DEF AonSide, Aon, Regs!dmi_req_ready_o
  <2>2. /\ ReqL!SyncRequest
        /\ qd_valid /\ ~dmi_resp_valid => ReqL!Takes
        /\ ~(qd_valid /\ ~dmi_resp_valid) => ReqL!Captures \/ ReqL!Waits
    BY <2>1, ReqL!DstCases, Zenon DEF Crossings
  <2>3. ReqL!Captures \/ ReqL!Waits => ~ReqL!Takes
    BY Zenon DEF ReqL!Captures, ReqL!Waits, ReqL!Takes
  <2> QED BY <1>1, <2>2, <2>3, Zenon DEF ReqL!DstDid
<1>2. CASE ~a
  <2>1. ReqL!DstStill
    BY <1>2, SameReqEdges, Zenon DEF AonSide, AonStill
  <2>2. ~ReqL!Takes
    BY <2>1, Zenon DEF ReqL!DstStill, ReqL!Takes
  <2> QED BY <1>2, <2>1, <2>2, Zenon DEF ReqL!DstDid
<1> QED BY <1>1, <1>2

\* The response crossing's source runs on the AON clock.
LEMMA RespSource ==
  ASSUME Crossings, NEW a \in BOOLEAN, AonSide(a)
  PROVE  /\ RespL!SrcDid(dmi_resp_data)
         /\ a => RespL!SyncAck
         /\ ~a => RespL!SrcStill
         /\ a /\ dmi_resp_valid /\ ~rs_busy <=> RespL!Accepts(dmi_resp_data)
<1>1. CASE a
  <2>1. RespL!SrcEdge(dmi_resp_valid, dmi_resp_data)
    BY <1>1, SameRespEdges, Zenon DEF AonSide, Aon
  <2>2. /\ RespL!SyncAck
        /\ dmi_resp_valid /\ ~rs_busy => RespL!Accepts(dmi_resp_data)
        /\ ~(dmi_resp_valid /\ ~rs_busy) => RespL!Frees \/ RespL!Rests
    BY <2>1, RespL!SrcCases, Zenon DEF Crossings
  <2>3. RespL!Frees \/ RespL!Rests => ~RespL!Accepts(dmi_resp_data)
    BY DEF RespL!Frees, RespL!Rests, RespL!Accepts
  <2> QED BY <1>1, <2>2, <2>3, Zenon DEF RespL!SrcDid
<1>2. CASE ~a
  <2>1. RespL!SrcStill
    BY <1>2, SameRespEdges, Zenon DEF AonSide, AonStill
  <2>2. ~RespL!Accepts(dmi_resp_data)
    BY <2>1 DEF RespL!SrcStill, RespL!Accepts
  <2> QED BY <1>2, <2>1, <2>2, Zenon DEF RespL!SrcDid
<1> QED BY <1>1, <1>2

\* Its destination runs on TCK.
LEMMA RespDestination ==
  ASSUME Crossings, NEW t \in BOOLEAN, TckSide(t)
  PROVE  /\ RespL!DstDid
         /\ t => RespL!SyncRequest
         /\ ~t => RespL!DstStill
         /\ t /\ rd_valid /\ Dtm!dmi_resp_ready_o <=> RespL!Takes
<1>1. CASE t
  <2>1. RespL!DstEdge(Dtm!dmi_resp_ready_o)
    BY <1>1, SameRespEdges, Zenon DEF TckSide, Tck
  <2>2. Dtm!dmi_resp_ready_o \in BOOLEAN
    BY Zenon DEF Dtm!dmi_resp_ready_o
  <2>3. /\ RespL!SyncRequest
        /\ rd_valid /\ Dtm!dmi_resp_ready_o => RespL!Takes
        /\ ~(rd_valid /\ Dtm!dmi_resp_ready_o) => RespL!Captures \/ RespL!Waits
    BY <2>1, <2>2, RespL!DstCases, Zenon DEF Crossings
  <2>4. RespL!Captures \/ RespL!Waits => ~RespL!Takes
    BY Zenon DEF RespL!Captures, RespL!Waits, RespL!Takes
  <2> QED BY <1>1, <2>3, <2>4, Zenon DEF RespL!DstDid
<1>2. CASE ~t
  <2>1. RespL!DstStill
    BY <1>2, SameRespEdges, Zenon DEF TckSide, TckStill
  <2>2. ~RespL!Takes
    BY <2>1, Zenon DEF RespL!DstStill, RespL!Takes
  <2> QED BY <1>2, <2>1, <2>2, Zenon DEF RespL!DstDid
<1> QED BY <1>1, <1>2
-----------------------------------------------------------------------------
(* How a request and a response move. *)

\* How a request moves: it crosses with the edges of the AON clock, one at a time.
LEMMA ReqMoves ==
  ASSUME Crossings, NEW t \in BOOLEAN, NEW a \in BOOLEAN, TckSide(t), AonSide(a)
  PROVE  /\ ReqL!Flops' /\ ReqL!Handshake'
         /\ ReqL!ToTake \in 1 .. 4 /\ ReqL!ToFree \in 1 .. 3 /\ ReqL!ToFree' \in 1 .. 3
         /\ ~ReqL!InFlight =>
              /\ ReqL!InFlight' <=> t /\ req_pulse_q /\ ~qs_busy
              /\ ReqL!InFlight' => ReqL!ToTake' = 4 /\ qs_data' = dtm_data_q
         /\ ReqL!InFlight =>
              /\ qs_busy /\ qs_data' = qs_data
              /\ qd_valid <=> ReqL!ToTake = 1
              /\ a /\ ReqL!ToTake = 1 /\ ~dmi_resp_valid => ~ReqL!InFlight'
              /\ a /\ ReqL!ToTake = 1 /\ dmi_resp_valid => ReqL!InFlight' /\ ReqL!ToTake' = 1
              /\ a /\ ReqL!ToTake > 1 => ReqL!InFlight' /\ ReqL!ToTake' = ReqL!ToTake - 1
              /\ ~a => ReqL!InFlight' /\ ReqL!ToTake' = ReqL!ToTake
         /\ qd_valid => ReqL!InFlight /\ qd_data = qs_data
         /\ ~qs_busy /\ ~(t /\ req_pulse_q) => ~qs_busy'
<1>1. ReqL!Flops /\ ReqL!Handshake
  BY DEF Crossings
<1>2. ReqL!SrcDid(dtm_data_q) /\ ReqL!DstDid
  BY ReqSource, ReqDestination
<1>3. ReqL!Flops' /\ ReqL!Handshake'
  BY <1>1, <1>2, ReqL!HandshakeKept
<1>4. /\ ReqL!ToTake \in 1 .. 4 /\ ReqL!ToFree \in 1 .. 3
      /\ ReqL!InFlight => qs_busy
      /\ qd_valid => ReqL!InFlight /\ qd_data = qs_data
      /\ ReqL!InFlight => (qd_valid <=> ReqL!ToTake = 1)
  <2>1. qd_valid => ReqL!ToTake = 1
    BY DEF ReqL!ToTake
  <2> QED BY <1>1, <2>1, ReqL!StageFacts
<1>5. ReqL!ToFree' \in 1 .. 3
  BY DEF ReqL!ToFree
<1>6. ASSUME ~ReqL!InFlight
      PROVE  /\ ReqL!InFlight' <=> t /\ req_pulse_q /\ ~qs_busy
             /\ ReqL!InFlight' => ReqL!ToTake' = 4 /\ qs_data' = dtm_data_q
  BY <1>1, <1>2, <1>6, ReqL!FromEmpty, ReqSource, Zenon DEF ReqL!SrcDid, ReqL!SrcStill, ReqL!Accepts
<1>7. ASSUME ReqL!InFlight
      PROVE  /\ qs_data' = qs_data
             /\ a /\ ReqL!ToTake = 1 /\ ~dmi_resp_valid => ~ReqL!InFlight'
             /\ a /\ ReqL!ToTake = 1 /\ dmi_resp_valid => ReqL!InFlight' /\ ReqL!ToTake' = 1
             /\ a /\ ReqL!ToTake > 1 => ReqL!InFlight' /\ ReqL!ToTake' = ReqL!ToTake - 1
             /\ ~a => ReqL!InFlight' /\ ReqL!ToTake' = ReqL!ToTake
  <2>1. /\ qs_data' = qs_data
        /\ ReqL!SyncRequest /\ ReqL!Takes => ~ReqL!InFlight'
        /\ ReqL!SyncRequest /\ ~qd_valid => ReqL!InFlight' /\ ReqL!ToTake' = ReqL!ToTake - 1
        /\ qd_valid /\ ~ReqL!Takes => ReqL!InFlight' /\ ReqL!ToTake' = 1
        /\ ReqL!DstStill => ReqL!InFlight' /\ ReqL!ToTake' = ReqL!ToTake
    BY <1>1, <1>2, <1>7, ReqL!FromInFlight, Zenon
  <2>2. a => ReqL!SyncRequest /\ (ReqL!Takes <=> qd_valid /\ ~dmi_resp_valid)
    BY ReqDestination, Zenon
  <2>3. ~a => ReqL!DstStill
    BY ReqDestination, Zenon
  <2>4. ReqL!ToTake > 1 => ReqL!ToTake # 1
    BY <1>4
  <2> QED BY <1>4, <1>7, <2>1, <2>2, <2>3, <2>4, Zenon
<1>8. ASSUME ~qs_busy, ~(t /\ req_pulse_q) PROVE ~qs_busy'
  BY <1>2, <1>8, ReqSource, Zenon
     DEF ReqL!SrcDid, ReqL!Frees, ReqL!Rests, ReqL!SrcStill
<1> QED BY <1>3, <1>4, <1>5, <1>6, <1>7, <1>8, Zenon

\* How a response moves: it crosses with the edges of TCK, one at a time.
LEMMA RespMoves ==
  ASSUME Crossings, NEW t \in BOOLEAN, NEW a \in BOOLEAN, TckSide(t), AonSide(a)
  PROVE  /\ RespL!Flops' /\ RespL!Handshake'
         /\ RespL!ToTake \in 1 .. 4 /\ RespL!ToFree \in 1 .. 3 /\ RespL!ToFree' \in 1 .. 3
         /\ ~RespL!InFlight =>
              /\ RespL!InFlight' <=> a /\ dmi_resp_valid /\ ~rs_busy
              /\ RespL!InFlight' => RespL!ToTake' = 4 /\ rs_data' = dmi_resp_data
         /\ RespL!InFlight =>
              /\ rs_busy /\ rs_data' = rs_data
              /\ rd_valid <=> RespL!ToTake = 1
              /\ t /\ RespL!ToTake = 1 /\ Dtm!dmi_resp_ready_o => ~RespL!InFlight'
              /\ t /\ RespL!ToTake = 1 /\ ~Dtm!dmi_resp_ready_o => RespL!InFlight' /\ RespL!ToTake' = 1
              /\ t /\ RespL!ToTake > 1 => RespL!InFlight' /\ RespL!ToTake' = RespL!ToTake - 1
              /\ ~t => RespL!InFlight' /\ RespL!ToTake' = RespL!ToTake
         /\ rd_valid => RespL!InFlight /\ rd_data = rs_data
         /\ ~rs_busy /\ ~(a /\ dmi_resp_valid) => ~rs_busy'
<1>1. RespL!Flops /\ RespL!Handshake
  BY DEF Crossings
<1>2. RespL!SrcDid(dmi_resp_data) /\ RespL!DstDid
  BY RespSource, RespDestination
<1>3. RespL!Flops' /\ RespL!Handshake'
  BY <1>1, <1>2, RespL!HandshakeKept
<1>4. /\ RespL!ToTake \in 1 .. 4 /\ RespL!ToFree \in 1 .. 3
      /\ RespL!InFlight => rs_busy
      /\ rd_valid => RespL!InFlight /\ rd_data = rs_data
      /\ RespL!InFlight => (rd_valid <=> RespL!ToTake = 1)
  <2>1. rd_valid => RespL!ToTake = 1
    BY DEF RespL!ToTake
  <2> QED BY <1>1, <2>1, RespL!StageFacts
<1>5. RespL!ToFree' \in 1 .. 3
  BY DEF RespL!ToFree
<1>6. ASSUME ~RespL!InFlight
      PROVE  /\ RespL!InFlight' <=> a /\ dmi_resp_valid /\ ~rs_busy
             /\ RespL!InFlight' => RespL!ToTake' = 4 /\ rs_data' = dmi_resp_data
  BY <1>1, <1>2, <1>6, RespL!FromEmpty, RespSource, Zenon DEF RespL!SrcDid, RespL!SrcStill, RespL!Accepts
<1>7. ASSUME RespL!InFlight
      PROVE  /\ rs_data' = rs_data
             /\ t /\ RespL!ToTake = 1 /\ Dtm!dmi_resp_ready_o => ~RespL!InFlight'
             /\ t /\ RespL!ToTake = 1 /\ ~Dtm!dmi_resp_ready_o => RespL!InFlight' /\ RespL!ToTake' = 1
             /\ t /\ RespL!ToTake > 1 => RespL!InFlight' /\ RespL!ToTake' = RespL!ToTake - 1
             /\ ~t => RespL!InFlight' /\ RespL!ToTake' = RespL!ToTake
  <2>1. /\ rs_data' = rs_data
        /\ RespL!SyncRequest /\ RespL!Takes => ~RespL!InFlight'
        /\ RespL!SyncRequest /\ ~rd_valid => RespL!InFlight' /\ RespL!ToTake' = RespL!ToTake - 1
        /\ rd_valid /\ ~RespL!Takes => RespL!InFlight' /\ RespL!ToTake' = 1
        /\ RespL!DstStill => RespL!InFlight' /\ RespL!ToTake' = RespL!ToTake
    BY <1>1, <1>2, <1>7, RespL!FromInFlight, Zenon
  <2>2. t => RespL!SyncRequest /\ (RespL!Takes <=> rd_valid /\ Dtm!dmi_resp_ready_o)
    BY RespDestination, Zenon
  <2>3. ~t => RespL!DstStill
    BY RespDestination, Zenon
  <2>4. RespL!ToTake > 1 => RespL!ToTake # 1
    BY <1>4
  <2> QED BY <1>4, <1>7, <2>1, <2>2, <2>3, <2>4, Zenon
<1>8. ASSUME ~rs_busy, ~(a /\ dmi_resp_valid) PROVE ~rs_busy'
  BY <1>2, <1>8, RespSource, Zenon
     DEF RespL!SrcDid, RespL!Frees, RespL!Rests, RespL!SrcStill
<1> QED BY <1>3, <1>4, <1>5, <1>6, <1>7, <1>8, Zenon

\* What the response crossing does between two responses: its source becomes
\* free with the edges of the AON clock.
LEMMA RespFrees ==
  ASSUME Crossings, NEW t \in BOOLEAN, NEW a \in BOOLEAN, TckSide(t), AonSide(a),
         ~RespL!InFlight, rs_busy
  PROVE  /\ ~RespL!InFlight'
         /\ a /\ RespL!ToFree = 1 => ~rs_busy'
         /\ a /\ RespL!ToFree > 1 => rs_busy' /\ RespL!ToFree' = RespL!ToFree - 1
         /\ ~a => rs_busy' /\ RespL!ToFree' = RespL!ToFree
<1>1. RespL!Flops /\ RespL!Handshake
  BY DEF Crossings
<1>2. RespL!SrcDid(dmi_resp_data) /\ RespL!DstDid
  BY RespSource, RespDestination
<1> QED BY <1>1, <1>2, RespSource, RespL!FromTaken, Zenon

\* A TRST empties both crossings.
LEMMA TrstEmpties ==
  ASSUME Trst
  PROVE  /\ ReqL!Flops' /\ ReqL!Handshake' /\ ~ReqL!InFlight' /\ ~qs_busy' /\ ~qd_valid'
         /\ RespL!Flops' /\ RespL!Handshake' /\ ~RespL!InFlight' /\ ~rs_busy' /\ ~rd_valid'
<1>1. ReqL!Reset /\ RespL!Reset
  BY SameReqEdges, SameRespEdges, Zenon DEF Trst
<1> QED BY <1>1, ReqL!AfterReset, RespL!AfterReset, Zenon

\* The crossings stay in their stages.
LEMMA CrossingsKept == Crossings /\ [Next]_vars => Crossings'
<1> SUFFICES ASSUME Crossings, [Next]_vars PROVE Crossings'
  OBVIOUS
<1>1. CASE Trst
  <2>1. /\ req_pulse_q' = FALSE /\ resp_ready_q' = FALSE /\ tap_req_q' = FALSE
        /\ fi_mode_active_q' = FALSE /\ fi_mode_req_sync1_q' = FALSE
        /\ fi_mode_req_sync2_q' = FALSE
    BY <1>1, Zenon DEF Trst, Tap!Reset, Dtm!Reset
  <2>2. dmi_resp_valid' = dmi_resp_valid /\ fi_mode_req' = fi_mode_req
    BY <1>1, Zenon DEF Trst, Regs!Still
  <2> QED BY <1>1, <2>1, <2>2, TrstEmpties, Zenon DEF Crossings
<1>2. ASSUME NEW t \in BOOLEAN, NEW a \in BOOLEAN, TckSide(t), AonSide(a)
      PROVE  Crossings'
  <2>1. ReqL!Flops' /\ ReqL!Handshake' /\ RespL!Flops' /\ RespL!Handshake'
    BY <1>2, ReqMoves, RespMoves
  <2> DEFINE Typed == /\ tap_req_q \in BOOLEAN /\ req_pulse_q \in BOOLEAN
                      /\ resp_ready_q \in BOOLEAN /\ fi_mode_active_q \in BOOLEAN
                      /\ fi_mode_req_sync1_q \in BOOLEAN /\ fi_mode_req_sync2_q \in BOOLEAN
  <2>2. ASSUME t PROVE Typed'
    <3>1. /\ Dtm!Edge(fi_mode_active_q, tap_req_q, tap_data_q, Tap!tap_ir_is_dmi_o, dmireset_q,
                      Req!src_ready_o, rd_valid, rd_data)
          /\ Cutover
          /\ \E tms \in 0 .. 1 : \E word, reset, ir : Tap!Edge(tms, word, reset, ir)
      BY <1>2, <2>2, Zenon DEF TckSide, Tck
    <3>2. tap_req_q' \in BOOLEAN
      BY <3>1, Zenon DEF Tap!Edge, Tap!updates
    <3>3. /\ fi_mode_active_q' \in BOOLEAN /\ fi_mode_req_sync1_q' \in BOOLEAN
          /\ fi_mode_req_sync2_q' \in BOOLEAN
      BY <3>1, Zenon DEF Cutover, Crossings
    <3>4. req_pulse_q' \in BOOLEAN /\ resp_ready_q' \in BOOLEAN
      <4>1. Req!src_ready_o \in BOOLEAN
        BY Zenon DEF Req!src_ready_o
      <4>2. ASSUME NEW req, NEW word, NEW isDmi, NEW send \in BOOLEAN,
                   Dtm!Passive(req, word, isDmi, send)
            PROVE  req_pulse_q' \in BOOLEAN /\ resp_ready_q' \in BOOLEAN
        BY <4>2, Zenon DEF Dtm!Passive
      <4>3. ASSUME NEW req, NEW word, NEW reset, Dtm!Idle(req, word, reset)
            PROVE  req_pulse_q' \in BOOLEAN /\ resp_ready_q' \in BOOLEAN
        BY <4>3, Zenon DEF Dtm!Idle
      <4>4. ASSUME NEW req, NEW reset, NEW send \in BOOLEAN, Dtm!Send(req, reset, send)
            PROVE  req_pulse_q' \in BOOLEAN /\ resp_ready_q' \in BOOLEAN
        BY <4>4, Zenon DEF Dtm!Send
      <4>5. ASSUME NEW req, NEW reset, NEW back, NEW answer,
                   Dtm!WaitResp(req, reset, back, answer)
            PROVE  req_pulse_q' \in BOOLEAN /\ resp_ready_q' \in BOOLEAN
        BY <4>5, Zenon DEF Dtm!WaitResp
      <4> QED BY <3>1, <4>1, <4>2, <4>3, <4>4, <4>5, Zenon DEF Dtm!Edge
    <3> QED BY <3>2, <3>3, <3>4
  <2>3. ASSUME ~t PROVE Typed'
    <3>1. /\ UNCHANGED <<tap_req_q, req_pulse_q, resp_ready_q>>
          /\ UNCHANGED <<fi_mode_req_sync1_q, fi_mode_req_sync2_q, fi_mode_active_q>>
      BY <1>2, <2>3, Zenon DEF TckSide, TckStill, Tap!Still, Dtm!Still
    <3> QED BY <3>1, Zenon DEF Crossings
  <2>4. dmi_resp_valid' \in BOOLEAN /\ fi_mode_req' \in BOOLEAN
    <3>1. CASE a
      <4>1. PICK live : Regs!Edge(qd_valid, qd_data, Resp!src_ready_o, host_rdata,
                                  fi_mode_active_q, live)
        BY <1>2, <3>1, Zenon DEF AonSide, Aon
      <4>2. dmi_resp_valid' \in BOOLEAN
        BY <4>1, Zenon DEF Regs!Edge, Regs!Respond, Regs!serves
      <4>3. fi_mode_req' \in BOOLEAN
        BY <4>1, Zenon DEF Regs!Edge, Regs!Configure, Crossings
      <4> QED BY <4>2, <4>3
    <3>2. CASE ~a
      BY <1>2, <3>2, Zenon DEF AonSide, AonStill, Regs!Still, Crossings
    <3> QED BY <3>1, <3>2
  <2> QED BY <2>1, <2>2, <2>3, <2>4, Zenon DEF Crossings
<1> QED BY <1>1, <1>2, StepCases, Zenon

-----------------------------------------------------------------------------
(* Reads of the table. *)

\* What an edge of the AON clock does to the read port (TBL_RCMD starts a read).
LEMMA ReadPort ==
  ASSUME Settling, NEW a \in BOOLEAN, AonSide(a)
  PROVE  /\ tbl_rd_pending_q' \in BOOLEAN /\ tbl_rd_valid_q' \in BOOLEAN
         /\ a => tbl_state_q' = (CASE tbl_state_q = "TBL_IDLE" ->
                                        IF tbl_rd_pending_q THEN "TBL_RD_ISS" ELSE "TBL_IDLE"
                                   [] tbl_state_q = "TBL_RD_ISS" -> "TBL_RD_WAIT"
                                   [] OTHER -> "TBL_IDLE")
         /\ a /\ tbl_rd_pending_q /\ tbl_state_q # "TBL_RD_WAIT" => tbl_rd_pending_q'
         /\ a /\ tbl_rd_pending_q' =>
              \/ qd_valid /\ ~dmi_resp_valid
              \/ tbl_rd_pending_q /\ tbl_state_q # "TBL_RD_WAIT"
         /\ ~a => tbl_state_q' = tbl_state_q /\ tbl_rd_pending_q' = tbl_rd_pending_q
<1>1. CASE a
  <2>1. PICK live : Regs!Edge(qd_valid, qd_data, Resp!src_ready_o, host_rdata,
                              fi_mode_active_q, live)
    BY <1>1, Zenon DEF AonSide, Aon
  <2>2. Regs!TableRead(qd_valid, qd_data, host_rdata)
    BY <2>1, Zenon DEF Regs!Edge
  <2> DEFINE rcmd == Regs!writes(qd_valid, qd_data, "TBL_RCMD")
  <2>3. tbl_rd_pending_q' = (rcmd \/ (tbl_rd_pending_q /\ ~(tbl_state_q = "TBL_RD_WAIT")))
    BY <2>2, Zenon DEF Regs!TableRead
  <2>4. rcmd => qd_valid /\ ~dmi_resp_valid
    BY Zenon DEF Regs!writes, Regs!serves, Regs!dmi_req_ready_o
  <2>5. tbl_state_q' = (CASE tbl_state_q = "TBL_IDLE" ->
                               IF tbl_rd_pending_q THEN "TBL_RD_ISS" ELSE "TBL_IDLE"
                          [] tbl_state_q = "TBL_RD_ISS" -> "TBL_RD_WAIT"
                          [] OTHER -> "TBL_IDLE")
    BY <2>2 DEF Regs!TableRead, Settling
  <2>6. tbl_rd_pending_q' \in BOOLEAN /\ tbl_rd_valid_q' \in BOOLEAN
    BY <2>2, <2>3, Zenon DEF Regs!TableRead
  <2> HIDE DEF rcmd
  <2> QED BY <1>1, <2>3, <2>4, <2>5, <2>6, Zenon
<1>2. CASE ~a
  BY <1>2, Zenon DEF AonSide, AonStill, Regs!Still, Settling
<1> QED BY <1>1, <1>2

\* A read keeps ahead of the request that follows it.
LEMMA SettlingKept == Crossings /\ Settling /\ [Next]_vars => Settling'
<1> SUFFICES ASSUME Crossings, Settling, [Next]_vars PROVE Settling'
  OBVIOUS
<1>1. CASE Trst
  <2>1. /\ UNCHANGED <<tbl_state_q, tbl_rd_pending_q, tbl_rd_valid_q>>
        /\ ~ReqL!InFlight'
    BY <1>1, TrstEmpties, Zenon DEF Trst, Regs!Still
  <2> QED BY <2>1, Zenon DEF Settling
<1>2. ASSUME NEW t \in BOOLEAN, NEW a \in BOOLEAN, TckSide(t), AonSide(a)
      PROVE  Settling'
  <2>1. /\ tbl_state_q' \in {"TBL_IDLE", "TBL_RD_ISS", "TBL_RD_WAIT"}
        /\ tbl_rd_pending_q' \in BOOLEAN /\ tbl_rd_valid_q' \in BOOLEAN
        /\ tbl_state_q' # "TBL_IDLE" => tbl_rd_pending_q'
    <3>1. CASE tbl_state_q = "TBL_IDLE"
      BY <1>2, <3>1, ReadPort DEF Settling
    <3>2. CASE tbl_state_q = "TBL_RD_ISS"
      BY <1>2, <3>2, ReadPort DEF Settling
    <3>3. CASE tbl_state_q = "TBL_RD_WAIT"
      BY <1>2, <3>3, ReadPort DEF Settling
    <3> QED BY <3>1, <3>2, <3>3 DEF Settling
  <2>2. ASSUME ReqL!InFlight', tbl_rd_pending_q' PROVE ReqL!ToTake' >= EdgesToRead'
    <3>1. EdgesToRead' \in 2 .. 4
      BY <2>1 DEF EdgesToRead
    <3>2. CASE ~ReqL!InFlight
      <4>1. ReqL!ToTake' = 4
        BY <1>2, <2>2, <3>2, ReqMoves, Zenon
      <4> QED BY <3>1, <4>1
    <3>3. CASE ReqL!InFlight /\ ~a
      <4>1. ReqL!ToTake' = ReqL!ToTake
        BY <1>2, <3>3, ReqMoves, Zenon
      <4>2. tbl_state_q' = tbl_state_q /\ tbl_rd_pending_q' = tbl_rd_pending_q
        BY <1>2, <3>3, ReadPort
      <4> QED BY <2>2, <3>3, <4>1, <4>2 DEF Settling, EdgesToRead
    <3>4. CASE ReqL!InFlight /\ a
      <4>1. ReqL!ToTake = 1 => dmi_resp_valid
        BY <1>2, <2>2, <3>4, ReqMoves, Zenon
      <4>2. ~(qd_valid /\ ~dmi_resp_valid)
        BY <1>2, <3>4, <4>1, ReqMoves, Zenon
      <4>3. tbl_rd_pending_q /\ tbl_state_q # "TBL_RD_WAIT"
        BY <1>2, <2>2, <3>4, <4>2, ReadPort
      <4>4. ReqL!ToTake >= EdgesToRead /\ ReqL!ToTake \in 1 .. 4
        BY <1>2, <3>4, <4>3, ReqMoves DEF Settling
      <4>5. CASE tbl_state_q = "TBL_IDLE"
        <5>1. tbl_state_q' = "TBL_RD_ISS"
          BY <1>2, <3>4, <4>3, <4>5, ReadPort
        <5>2. ReqL!ToTake = 4
          BY <4>4, <4>5 DEF EdgesToRead
        <5>3. ReqL!ToTake > 1
          BY <5>2
        <5>4. ReqL!ToTake' = ReqL!ToTake - 1
          BY <1>2, <3>4, <5>3, ReqMoves, Zenon
        <5> QED BY <5>1, <5>2, <5>4 DEF EdgesToRead
      <4>6. CASE tbl_state_q = "TBL_RD_ISS"
        <5>1. tbl_state_q' = "TBL_RD_WAIT"
          BY <1>2, <3>4, <4>6, ReadPort
        <5>2. ReqL!ToTake >= 3
          BY <4>4, <4>6 DEF EdgesToRead
        <5>3. ReqL!ToTake > 1
          BY <4>4, <5>2
        <5>4. ReqL!ToTake' = ReqL!ToTake - 1
          BY <1>2, <3>4, <5>3, ReqMoves, Zenon
        <5> QED BY <4>4, <5>1, <5>2, <5>4 DEF EdgesToRead
      <4> QED BY <4>3, <4>5, <4>6 DEF Settling
    <3> QED BY <3>2, <3>3, <3>4
  <2> QED BY <2>1, <2>2, Zenon DEF Settling
<1> QED BY <1>1, <1>2, StepCases, Zenon

\* The reset leaves both crossings empty and the read port at rest.
LEMMA StartsSettled == Init => Crossings /\ Settling
<1> SUFFICES ASSUME Init PROVE Crossings /\ Settling
  OBVIOUS
<1>1. /\ ReqL!Flops /\ ReqL!Handshake /\ ~ReqL!InFlight
      /\ RespL!Flops /\ RespL!Handshake /\ ~RespL!InFlight
  BY SameReqEdges, SameRespEdges, ReqL!AfterReset, RespL!AfterReset, Zenon DEF Init
<1>2. Crossings
  BY <1>1 DEF Init, Tap!Init, Dtm!Init, Regs!Init, Crossings
<1>3. Settling
  BY <1>1 DEF Init, Regs!Init, Settling
<1> QED BY <1>2, <1>3

\* A request finds the table's read port at rest, whatever the ratio of the two
\* clocks: what makes the answer to TBL_RDATA and TBL_STATUS well defined.
THEOREM TableReadsSettle == Spec => []ReadsSettle
<1>1. Init => Crossings /\ Settling
  BY StartsSettled
<1>2. Crossings /\ Settling /\ [Next]_vars => (Crossings /\ Settling)'
  BY CrossingsKept, SettlingKept
<1>3. Crossings /\ Settling => ReadsSettle
  <2> SUFFICES ASSUME Crossings, Settling, qd_valid
               PROVE  tbl_state_q = "TBL_IDLE" /\ ~tbl_rd_pending_q
    BY DEF ReadsSettle, Regs!serves
  <2>1. ReqL!InFlight
    BY ReqL!StageFacts, Zenon DEF Crossings
  <2>2. ReqL!ToTake = 1
    BY DEF ReqL!ToTake
  <2>3. EdgesToRead \in 2 .. 4
    BY DEF EdgesToRead
  <2> QED BY <2>1, <2>2, <2>3 DEF Settling
<1> QED BY <1>1, <1>2, <1>3, PTL DEF Spec

-----------------------------------------------------------------------------
(* What an edge of TCK does to the DTM and to the TAP. *)

DtmPassive ==
  /\ ~fi_mode_active_q /\ state_q' = "S_IDLE"
  /\ req_pulse_q' => /\ tap_req_q /\ ~qs_busy /\ dtm_data_q' = tap_data_q
                     /\ tap_data_q.op = 2 /\ tap_data_q.addr = "FI_MODE"
DtmIdle ==
  /\ fi_mode_active_q /\ state_q = "S_IDLE" /\ ~req_pulse_q'
  /\ IF tap_req_q /\ tap_data_q.op \in {1, 2}
       THEN state_q' = "S_SEND" /\ dtm_data_q' = tap_data_q
       ELSE state_q' = state_q /\ dtm_data_q' = dtm_data_q
DtmSend ==
  /\ fi_mode_active_q /\ state_q = "S_SEND"
  /\ req_pulse_q' <=> ~qs_busy
  /\ state_q' = IF qs_busy THEN "S_SEND" ELSE "S_WAIT_RESP"
  /\ dtm_data_q' = dtm_data_q
DtmWait ==
  /\ fi_mode_active_q /\ state_q = "S_WAIT_RESP" /\ ~req_pulse_q' /\ resp_ready_q'
  /\ IF rd_valid THEN state_q' = "S_IDLE" /\ dtm_data_q' = rd_data
                 ELSE state_q' = state_q /\ dtm_data_q' = dtm_data_q

\* An edge of TCK is one of the four; the mode changes only while the DTM is idle.
LEMMA DtmCases ==
  ASSUME Crossings, Tck
  PROVE  /\ DtmPassive \/ DtmIdle \/ DtmSend \/ DtmWait
         /\ fi_mode_active_q' # fi_mode_active_q => state_q = "S_IDLE"
<1>1. /\ Dtm!Edge(fi_mode_active_q, tap_req_q, tap_data_q, Tap!tap_ir_is_dmi_o, dmireset_q,
                  ~qs_busy, rd_valid, rd_data)
      /\ Cutover
  BY Zenon DEF Tck, Req!src_ready_o
<1>2. ASSUME ~fi_mode_active_q,
             Dtm!Passive(tap_req_q, tap_data_q, Tap!tap_ir_is_dmi_o, ~qs_busy)
      PROVE  DtmPassive
  BY <1>2, Zenon DEF Dtm!Passive, Dtm!passive_entry_trigger_w, Dtm!OP_WRITE, DtmPassive
<1>3. ASSUME fi_mode_active_q, Dtm!Idle(tap_req_q, tap_data_q, dmireset_q) PROVE DtmIdle
  BY <1>3 DEF Dtm!Idle, Dtm!req_is_active_w, Dtm!OP_READ, Dtm!OP_WRITE, DtmIdle
<1>4. ASSUME fi_mode_active_q, Dtm!Send(tap_req_q, dmireset_q, ~qs_busy) PROVE DtmSend
  <2>1. req_pulse_q' <=> ~qs_busy
    BY <1>4, Zenon DEF Dtm!Send
  <2>2. state_q' = IF qs_busy THEN "S_SEND" ELSE "S_WAIT_RESP"
    BY <1>4, Zenon DEF Dtm!Send
  <2> QED BY <1>4, <2>1, <2>2, Zenon DEF Dtm!Send, DtmSend
<1>5. ASSUME fi_mode_active_q, Dtm!WaitResp(tap_req_q, dmireset_q, rd_valid, rd_data)
      PROVE  DtmWait
  <2>1. ~req_pulse_q' /\ resp_ready_q'
    BY <1>5, Zenon DEF Dtm!WaitResp
  <2>2. IF rd_valid THEN state_q' = "S_IDLE" /\ dtm_data_q' = rd_data
                    ELSE state_q' = state_q /\ dtm_data_q' = dtm_data_q
    BY <1>5, Zenon DEF Dtm!WaitResp
  <2> QED BY <1>5, <2>1, <2>2, Zenon DEF Dtm!WaitResp, DtmWait
<1>6. fi_mode_active_q' # fi_mode_active_q => state_q = "S_IDLE"
  BY <1>1, Zenon DEF Cutover, Dtm!dtm_idle_o
<1> QED BY <1>1, <1>2, <1>3, <1>4, <1>5, <1>6, Zenon DEF Dtm!Edge

\* A TCK that stands still keeps the DTM, the TAP and the mode.
LEMMA TckStands ==
  ASSUME TckStill
  PROVE  UNCHANGED <<state_q, dtm_data_q, req_pulse_q, resp_ready_q, tap_state_q, tap_req_q,
                     tap_data_q, fi_mode_active_q, shifted, last, ref>>
  BY Zenon DEF TckStill, Tap!Still, Dtm!Still

\* The TAP needs an edge of TCK for every state of a scan, and one for every bit.
LEMMA SlackFalls ==
  ASSUME Scanning, Crossings, NEW t \in BOOLEAN, NEW a \in BOOLEAN, TckSide(t), Counted(t, a),
         RATIO > 0
  PROVE  /\ Scanning'
         /\ Slack \in Nat /\ Slack' \in Nat
         /\ tap_req_q => Slack = 0
         /\ t => Slack' >= Slack - 1
         /\ ~t => Slack' = Slack
         /\ t /\ tap_req_q => Slack' >= 3 + DR_BITS
<1>0. RATIO \in Nat /\ DR_BITS \in Nat \ {0}
  BY TransporterAssumption
<1>1. tcks' \in 0 .. RATIO
  BY <1>0 DEF Counted, Scanning
<1>2. Slack \in Nat /\ (tap_req_q => Slack = 0)
  BY <1>0 DEF Slack, Scanning, Crossings
<1>3. CASE ~t
  <2>1. UNCHANGED <<tap_state_q, tap_req_q, shifted>>
    BY <1>3, TckStands, Zenon DEF TckSide
  <2>2. Slack' = Slack
    BY <2>1 DEF Slack
  <2> QED BY <1>0, <1>1, <1>2, <1>3, <2>1, <2>2 DEF Scanning
<1>4. CASE t
  <2>1. PICK tms, word, reset, ir :
             tms \in 0 .. 1 /\ Scans(tms) /\ Tap!Edge(tms, word, reset, ir)
    BY <1>4, Zenon DEF TckSide, Tck
  <2>2. /\ tap_state_q' = Tap!tap_state_d[tap_state_q][tms + 1]
        /\ tap_req_q' => tap_state_q = "UPDATE_DR"
    BY <2>1, Zenon DEF Tap!Edge, Tap!updates
  <2>3. tap_req_q' \in BOOLEAN
    BY <2>1, Zenon DEF Tap!Edge, Tap!updates
  <2>4. CASE tap_state_q = "SHIFT_DR"
    <3>1. CASE shifted + 1 < DR_BITS
      <4>1. tms = 0 /\ shifted' = shifted + 1
        BY <2>1, <2>4, <3>1 DEF Scans
      <4>2. tap_state_q' = "SHIFT_DR"
        BY <2>2, <2>4, <4>1 DEF Tap!tap_state_d
      <4> QED BY <1>0, <1>1, <1>2, <1>4, <2>2, <2>3, <2>4, <3>1, <4>1, <4>2 DEF Scanning, Slack
    <3>2. CASE ~(shifted + 1 < DR_BITS)
      <4>1. tms = 1 /\ shifted' = 0
        BY <2>1, <2>4, <3>2 DEF Scans
      <4>2. tap_state_q' = "EXIT1_DR"
        BY <2>2, <2>4, <4>1 DEF Tap!tap_state_d
      <4> QED BY <1>0, <1>1, <1>2, <1>4, <2>2, <2>3, <2>4, <3>2, <4>1, <4>2 DEF Scanning, Slack
    <3> QED BY <3>1, <3>2
  <2>5. CASE tap_state_q # "SHIFT_DR"
    <3>1. shifted' = 0
      BY <2>1, <2>5 DEF Scans
    <3>2. CASE tap_state_q \in {"CAPTURE_DR", "EXIT1_DR", "UPDATE_DR"}
      <4>1. tap_state_q = "CAPTURE_DR" => tap_state_q' = "SHIFT_DR"
        BY <2>1, <2>2 DEF Scans, Tap!tap_state_d
      <4>2. tap_state_q = "EXIT1_DR" => tap_state_q' = "UPDATE_DR"
        BY <2>1, <2>2 DEF Scans, Tap!tap_state_d
      <4>3. tap_state_q = "UPDATE_DR" => tap_state_q' \in {"RUN_TEST_IDLE", "SELECT_DR"}
        BY <2>1, <2>2 DEF Tap!tap_state_d
      <4> QED BY <1>0, <1>1, <1>2, <1>4, <2>2, <2>3, <3>1, <3>2, <4>1, <4>2, <4>3
              DEF Scanning, Slack
    <3>3. CASE tap_state_q \in {"TEST_LOGIC_RESET", "RUN_TEST_IDLE", "SELECT_DR", "SELECT_IR",
                                "CAPTURE_IR", "SHIFT_IR", "EXIT1_IR", "UPDATE_IR"}
      <4>1. /\ ~tap_req_q'
            /\ tap_state_q' \in {"TEST_LOGIC_RESET", "RUN_TEST_IDLE", "SELECT_DR", "CAPTURE_DR",
                                 "SELECT_IR", "CAPTURE_IR", "SHIFT_IR", "EXIT1_IR", "UPDATE_IR"}
        BY <2>1, <2>2, <3>3 DEF Scans, Tap!tap_state_d
      <4>2. Slack' >= 3 + DR_BITS /\ Slack' \in Nat /\ Slack <= 4 + DR_BITS
        BY <1>0, <3>3, <4>1 DEF Slack
      <4> QED BY <1>0, <1>1, <1>2, <1>4, <3>1, <4>1, <4>2 DEF Scanning
    <3> QED BY <2>5, <3>2, <3>3 DEF Scanning
  <2> QED BY <2>4, <2>5
<1> QED BY <1>3, <1>4

\* What an edge of the AON clock does to the response register.
LEMMA ResponseRegister ==
  ASSUME NEW a \in BOOLEAN, AonSide(a)
  PROVE  /\ a => (dmi_resp_valid' <=> (qd_valid /\ ~dmi_resp_valid) \/ (dmi_resp_valid /\ rs_busy))
         /\ a /\ qd_valid /\ ~dmi_resp_valid =>
              dmi_resp_data' \in {Regs!Answer(qd_data, fi_mode_active_q, live) : live \in 0 .. 1}
         /\ ~(a /\ qd_valid /\ ~dmi_resp_valid) => dmi_resp_data' = dmi_resp_data
         /\ ~a => dmi_resp_valid' = dmi_resp_valid
<1>1. CASE a
  <2>1. PICK live \in 0 .. 1 : Regs!Edge(qd_valid, qd_data, Resp!src_ready_o, host_rdata,
                                         fi_mode_active_q, live)
    BY <1>1 DEF AonSide, Aon
  <2>2. Regs!Respond(qd_valid, qd_data, ~rs_busy, fi_mode_active_q, live)
    BY <2>1, Zenon DEF Regs!Edge, Resp!src_ready_o
  <2> QED BY <1>1, <2>2, Zenon DEF Regs!Respond, Regs!serves, Regs!dmi_req_ready_o
<1>2. CASE ~a
  BY <1>2, Zenon DEF AonSide, AonStill, Regs!Still
<1> QED BY <1>1, <1>2

-----------------------------------------------------------------------------
(* Where a transaction is, and how long it still takes. *)

\* There is always an edge left until a transaction is over.
LEMMA DueIs ==
  ASSUME RATIO > 0, Scanning, ReqL!ToTake \in 1 .. 4, RespL!ToTake \in 1 .. 4
  PROVE  /\ Due \in Nat \ {0}
         /\ Pulsed => Due = 5 * RATIO + 10
         /\ Asking => Due = (ReqL!ToTake + 1) * RATIO + ReqL!ToTake + 5 - tcks
         /\ Answering => Due = RATIO + 5 - tcks
         /\ Returning => Due = RespL!ToTake
<1>0. RATIO \in Nat /\ tcks \in 0 .. RATIO
  BY TransporterAssumption DEF Scanning
<1>1. (ReqL!ToTake + 1) * RATIO + ReqL!ToTake + 5 - tcks \in Nat \ {0}
  <2>1. CASE ReqL!ToTake = 1 BY <1>0, <2>1
  <2>2. CASE ReqL!ToTake = 2 BY <1>0, <2>2
  <2>3. CASE ReqL!ToTake = 3 BY <1>0, <2>3
  <2>4. CASE ReqL!ToTake = 4 BY <1>0, <2>4
  <2> QED BY <2>1, <2>2, <2>3, <2>4
<1>2. /\ 5 * RATIO + 10 \in Nat \ {0} /\ RATIO + 5 - tcks \in Nat \ {0}
  BY <1>0
<1>3. CASE req_pulse_q BY <1>2, <1>3 DEF Due, Pulsed, Asking, Answering, Returning
<1>4. CASE ~req_pulse_q /\ ReqL!InFlight
  BY <1>1, <1>4 DEF Due, Pulsed, Asking, Answering, Returning
<1>5. CASE ~req_pulse_q /\ ~ReqL!InFlight /\ dmi_resp_valid
  BY <1>2, <1>5 DEF Due, Pulsed, Asking, Answering, Returning
<1>6. CASE ~req_pulse_q /\ ~ReqL!InFlight /\ ~dmi_resp_valid
  BY <1>6 DEF Due, Pulsed, Asking, Answering, Returning
<1> QED BY <1>3, <1>4, <1>5, <1>6

\* The DTM sends nothing while a transaction is somewhere: one that it waits for
\* holds it, and any other is over before the TAP's next request.
LEMMA NothingNew ==
  ASSUME Timely, RATIO > 0, ~Quiet, Tck
  PROVE  ~req_pulse_q'
<1>1. DtmPassive \/ DtmIdle \/ DtmSend \/ DtmWait
  BY DtmCases DEF Timely
<1>2. ASSUME DtmPassive, tap_req_q PROVE FALSE
  <2>1. state_q = "S_IDLE"
    BY <1>2 DEF Timely, Turns, DtmPassive
  <2>2. Due <= Slack
    BY <2>1 DEF Timely, Turns
  <2>3. Slack = 0
    BY <1>2 DEF Slack
  <2>4. Due \in Nat \ {0}
    <3>1. ReqL!ToTake \in 1 .. 4 /\ RespL!ToTake \in 1 .. 4
      BY DEF ReqL!ToTake, RespL!ToTake
    <3> QED BY <3>1, DueIs DEF Timely
  <2> QED BY <2>2, <2>3, <2>4
<1>3. ~DtmSend
  BY DEF Timely, Turns, DtmSend
<1> QED BY <1>1, <1>2, <1>3, Zenon DEF DtmPassive, DtmIdle, DtmWait

\* A pulse comes only out of quiet, and finds the request crossing free.
LEMMA FromQuiet ==
  ASSUME Timely, RATIO > 0, NEW t \in BOOLEAN, NEW a \in BOOLEAN, TckSide(t), AonSide(a), Quiet
  PROVE  Quiet' \/ (t /\ Pulsed' /\ ~qs_busy')
<1>0. Crossings
  BY DEF Timely
<1>1. ~ReqL!InFlight' /\ ~qd_valid /\ ~RespL!InFlight'
  BY <1>0, ReqMoves, RespMoves, Zenon DEF Quiet
<1>2. ~dmi_resp_valid'
  BY <1>0, <1>1, ResponseRegister, Zenon DEF Quiet
<1>3. ASSUME req_pulse_q' PROVE t /\ ~qs_busy'
  <2>1. t
    <3>1. ASSUME ~t PROVE req_pulse_q' = req_pulse_q
      BY <3>1, TckStands, Zenon DEF TckSide
    <3> QED BY <1>3, <3>1 DEF Quiet
  <2>2. ~qs_busy
    <3>1. DtmPassive \/ DtmIdle \/ DtmSend \/ DtmWait
      BY <1>0, <2>1, DtmCases DEF TckSide
    <3> QED BY <1>3, <3>1, Zenon DEF DtmPassive, DtmIdle, DtmSend, DtmWait
  <2> QED BY <1>0, <2>1, <2>2, ReqMoves, Zenon DEF Quiet
<1> QED BY <1>1, <1>2, <1>3, Zenon DEF Quiet, Pulsed

\* From the pulse on the next edge of TCK takes the request up.
LEMMA FromPulsed ==
  ASSUME Timely, RATIO > 0, NEW t \in BOOLEAN, NEW a \in BOOLEAN, TckSide(t), AonSide(a),
         Pulsed, ~qs_busy
  PROVE  IF t THEN Asking' /\ ReqL!ToTake' = 4 /\ qs_data' = dtm_data_q
              ELSE Pulsed' /\ ~qs_busy'
<1>0. Crossings
  BY DEF Timely
<1>1. ~qd_valid /\ ~RespL!InFlight'
  BY <1>0, ReqMoves, RespMoves, Zenon DEF Pulsed
<1>2. ~dmi_resp_valid'
  BY <1>0, <1>1, ResponseRegister, Zenon DEF Pulsed
<1>3. CASE t
  <2>1. ~req_pulse_q'
    BY <1>3, NothingNew, Zenon DEF TckSide, Quiet, Pulsed
  <2>2. ReqL!InFlight' /\ ReqL!ToTake' = 4 /\ qs_data' = dtm_data_q
    BY <1>0, <1>3, ReqMoves, Zenon DEF Pulsed
  <2> QED BY <1>1, <1>2, <1>3, <2>1, <2>2, Zenon DEF Asking
<1>4. CASE ~t
  <2>1. req_pulse_q' = req_pulse_q
    BY <1>4, TckStands, Zenon DEF TckSide
  <2>2. ~ReqL!InFlight' /\ ~qs_busy'
    BY <1>0, <1>4, ReqMoves, Zenon DEF Pulsed
  <2> QED BY <1>1, <1>2, <1>4, <2>1, <2>2, Zenon DEF Pulsed
<1> QED BY <1>3, <1>4

\* A request crosses with the edges of the AON clock, the last of which serves it.
LEMMA FromAsking ==
  ASSUME Timely, RATIO > 0, NEW t \in BOOLEAN, NEW a \in BOOLEAN, TckSide(t), AonSide(a),
         Asking, rs_busy => RespL!ToFree <= ReqL!ToTake
  PROVE  /\ qd_valid <=> ReqL!ToTake = 1
         /\ qd_valid => qd_data = qs_data
         /\ qs_data' = qs_data
         /\ ~a => Asking' /\ ReqL!ToTake' = ReqL!ToTake
         /\ a /\ ReqL!ToTake > 1 => Asking' /\ ReqL!ToTake' = ReqL!ToTake - 1
         /\ a /\ ReqL!ToTake = 1 => Answering' /\ ~rs_busy'
         /\ Asking' /\ rs_busy' => RespL!ToFree' <= ReqL!ToTake'
<1>0. Crossings
  BY DEF Timely
<1>1. /\ ReqL!ToTake \in 1 .. 4 /\ RespL!ToFree \in 1 .. 3
      /\ qd_valid <=> ReqL!ToTake = 1
      /\ qd_valid => qd_data = qs_data
      /\ qs_data' = qs_data
      /\ ~a => ReqL!InFlight' /\ ReqL!ToTake' = ReqL!ToTake
      /\ a /\ ReqL!ToTake > 1 => ReqL!InFlight' /\ ReqL!ToTake' = ReqL!ToTake - 1
      /\ a /\ ReqL!ToTake = 1 => ~ReqL!InFlight'
  BY <1>0, ReqMoves, RespMoves, Zenon DEF Asking
<1>2. ~RespL!InFlight' /\ (~rs_busy => ~rs_busy')
  BY <1>0, RespMoves, Zenon DEF Asking
<1>3. ~req_pulse_q'
  <2>1. CASE t
    BY <2>1, NothingNew, Zenon DEF TckSide, Quiet, Asking
  <2>2. CASE ~t
    BY <2>2, TckStands, Zenon DEF TckSide, Asking
  <2> QED BY <2>1, <2>2
<1>4. /\ ~a => ~dmi_resp_valid'
      /\ a => (dmi_resp_valid' <=> ReqL!ToTake = 1)
  BY <1>1, ResponseRegister, Zenon DEF Asking
<1>5. ~(ReqL!ToTake > 1 /\ ReqL!ToTake = 1)
  BY <1>1
<1>6. /\ ~a => Asking' /\ ReqL!ToTake' = ReqL!ToTake
      /\ a /\ ReqL!ToTake > 1 => Asking' /\ ReqL!ToTake' = ReqL!ToTake - 1
      /\ a /\ ReqL!ToTake = 1 => Answering'
  BY <1>1, <1>2, <1>3, <1>4, <1>5, Zenon DEF Asking, Answering
<1>7. ASSUME a, ReqL!ToTake = 1 PROVE ~rs_busy'
  <2>1. ASSUME rs_busy PROVE RespL!ToFree = 1
    BY <1>1, <1>7, <2>1
  <2> QED BY <1>0, <1>2, <1>7, <2>1, RespFrees, Zenon DEF Asking
<1>8. ASSUME Asking', rs_busy' PROVE RespL!ToFree' <= ReqL!ToTake'
  <2>1. rs_busy
    BY <1>2, <1>8
  <2>2. CASE ~a
    <3>1. RespL!ToFree' = RespL!ToFree
      BY <1>0, <2>1, <2>2, RespFrees, Zenon DEF Asking
    <3> QED BY <2>1, <2>2, <1>6, <3>1
  <2>3. CASE a
    <3>1. ReqL!ToTake > 1
      BY <1>1, <1>6, <1>8, <2>3 DEF Asking, Answering
    <3>2. RespL!ToFree > 1
      <4>1. RespL!ToFree # 1
        BY <1>0, <1>8, <2>1, <2>3, RespFrees, Zenon DEF Asking
      <4> QED BY <1>1, <4>1
    <3>3. RespL!ToFree' = RespL!ToFree - 1
      BY <1>0, <2>1, <2>3, <3>2, RespFrees, Zenon DEF Asking
    <3> QED BY <1>1, <1>6, <2>1, <2>3, <3>1, <3>3
  <2> QED BY <2>2, <2>3
<1> QED BY <1>1, <1>6, <1>7, <1>8, Zenon

\* A response finds the response crossing free.
LEMMA FromAnswering ==
  ASSUME Timely, RATIO > 0, NEW t \in BOOLEAN, NEW a \in BOOLEAN, TckSide(t), AonSide(a),
         Answering, ~rs_busy
  PROVE  IF a THEN Returning' /\ RespL!ToTake' = 4 /\ rs_data' = dmi_resp_data
              ELSE Answering' /\ ~rs_busy' /\ dmi_resp_data' = dmi_resp_data
<1>0. Crossings
  BY DEF Timely
<1>1. ~qd_valid /\ ~ReqL!InFlight'
  BY <1>0, ReqMoves, Zenon DEF Answering
<1>2. ~req_pulse_q'
  <2>1. CASE t
    BY <2>1, NothingNew, Zenon DEF TckSide, Quiet, Answering
  <2>2. CASE ~t
    BY <2>2, TckStands, Zenon DEF TckSide, Answering
  <2> QED BY <2>1, <2>2
<1>3. CASE a
  <2>1. ~dmi_resp_valid'
    BY <1>1, <1>3, ResponseRegister, Zenon
  <2>2. RespL!InFlight' /\ RespL!ToTake' = 4 /\ rs_data' = dmi_resp_data
    BY <1>0, <1>3, RespMoves, Zenon DEF Answering
  <2> QED BY <1>1, <1>2, <1>3, <2>1, <2>2, Zenon DEF Returning
<1>4. CASE ~a
  <2>1. dmi_resp_valid' = dmi_resp_valid /\ dmi_resp_data' = dmi_resp_data
    BY <1>4, ResponseRegister, Zenon
  <2>2. ~RespL!InFlight' /\ ~rs_busy'
    BY <1>0, <1>4, RespMoves, Zenon DEF Answering
  <2> QED BY <1>1, <1>2, <1>4, <2>1, <2>2, Zenon DEF Answering
<1> QED BY <1>3, <1>4

\* The DTM takes a response on the edge of TCK that brings it, waited for or not.
LEMMA FromReturning ==
  ASSUME Timely, RATIO > 0, NEW t \in BOOLEAN, NEW a \in BOOLEAN, TckSide(t), AonSide(a),
         Returning
  PROVE  /\ rd_valid <=> RespL!ToTake = 1
         /\ rd_valid => rd_data = rs_data
         /\ rs_data' = rs_data
         /\ ~t => Returning' /\ RespL!ToTake' = RespL!ToTake
         /\ t /\ RespL!ToTake > 1 => Returning' /\ RespL!ToTake' = RespL!ToTake - 1
         /\ t /\ RespL!ToTake = 1 => Quiet'
<1>0. Crossings
  BY DEF Timely
<1>1. ~qd_valid /\ ~ReqL!InFlight'
  BY <1>0, ReqMoves, Zenon DEF Returning
<1>2. ~req_pulse_q'
  <2>1. CASE t
    BY <2>1, NothingNew, Zenon DEF TckSide, Quiet, Returning
  <2>2. CASE ~t
    BY <2>2, TckStands, Zenon DEF TckSide, Returning
  <2> QED BY <2>1, <2>2
<1>3. ~dmi_resp_valid'
  BY <1>1, ResponseRegister, Zenon DEF Returning
<1>4. Dtm!dmi_resp_ready_o
  <2>1. CASE state_q = "S_IDLE"
    BY <2>1, Zenon DEF Dtm!dmi_resp_ready_o
  <2>2. CASE state_q = "S_WAIT_RESP"
    BY <2>2, Zenon DEF Timely, Turns, Returning, Dtm!dmi_resp_ready_o
  <2>3. CASE state_q = "S_SEND"
    BY <2>3, Zenon DEF Timely, Turns, Returning, Quiet
  <2> QED BY <2>1, <2>2, <2>3 DEF Timely, Turns
<1>5. /\ rd_valid <=> RespL!ToTake = 1
      /\ rd_valid => rd_data = rs_data
      /\ rs_data' = rs_data
      /\ ~t => RespL!InFlight' /\ RespL!ToTake' = RespL!ToTake
      /\ t /\ RespL!ToTake > 1 => RespL!InFlight' /\ RespL!ToTake' = RespL!ToTake - 1
      /\ t /\ RespL!ToTake = 1 => ~RespL!InFlight'
  BY <1>0, <1>4, RespMoves, Zenon DEF Returning
<1> QED BY <1>1, <1>2, <1>3, <1>5, Zenon DEF Returning, Quiet

\* A transaction stays in one place, and every edge of TCK brings its end nearer.
LEMMA TransactionMoves ==
  ASSUME Timely, RATIO > 0, NEW t \in BOOLEAN, NEW a \in BOOLEAN, TckSide(t), AonSide(a),
         Counted(t, a)
  PROVE  /\ Place'
         /\ ~Quiet => Quiet' \/ Due' <= Due - (IF t THEN 1 ELSE 0)
<1>0. /\ RATIO \in Nat /\ tcks \in 0 .. RATIO
      /\ ReqL!ToTake \in 1 .. 4 /\ RespL!ToTake \in 1 .. 4 /\ RespL!ToFree' \in 1 .. 3
      /\ a => tcks' = 0
      /\ ~a /\ t => tcks' = tcks + 1
      /\ ~a /\ ~t => tcks' = tcks
  BY TransporterAssumption DEF Timely, Scanning, ReqL!ToTake, RespL!ToTake, RespL!ToFree, Counted
<1>1. /\ Pulsed' => Due' = 5 * RATIO + 10
      /\ Asking' => Due' = (ReqL!ToTake' + 1) * RATIO + ReqL!ToTake' + 5 - tcks'
      /\ Answering' => Due' = RATIO + 5 - tcks'
      /\ Returning' => Due' = RespL!ToTake'
  BY DEF Due, Pulsed, Asking, Answering, Returning
<1>2. /\ Pulsed => Due = 5 * RATIO + 10
      /\ Asking => Due = (ReqL!ToTake + 1) * RATIO + ReqL!ToTake + 5 - tcks
      /\ Answering => Due = RATIO + 5 - tcks
      /\ Returning => Due = RespL!ToTake
  BY DEF Due, Pulsed, Asking, Answering, Returning
<1>3. CASE Quiet
  <2>1. Quiet' \/ (Pulsed' /\ ~qs_busy')
    BY <1>3, FromQuiet
  <2> QED BY <1>3, <2>1, Zenon DEF Place
<1>4. CASE Pulsed /\ ~qs_busy
  <2>1. CASE t
    <3>1. Asking' /\ ReqL!ToTake' = 4
      BY <1>4, <2>1, FromPulsed
    <3>2. Due' <= Due - 1
      BY <1>0, <1>1, <1>2, <1>4, <2>1, <3>1
    <3>3. RespL!ToFree' <= ReqL!ToTake'
      BY <1>0, <3>1
    <3> QED BY <2>1, <3>1, <3>2, <3>3, Zenon DEF Place
  <2>2. CASE ~t
    <3>1. Pulsed' /\ ~qs_busy'
      BY <1>4, <2>2, FromPulsed
    <3>2. Due' <= Due - 0
      BY <1>0, <1>1, <1>2, <1>4, <3>1
    <3> QED BY <2>2, <3>1, <3>2, Zenon DEF Place
  <2> QED BY <2>1, <2>2
<1>5. CASE Asking /\ (rs_busy => RespL!ToFree <= ReqL!ToTake)
  <2>1. /\ ~a => Asking' /\ ReqL!ToTake' = ReqL!ToTake
        /\ a /\ ReqL!ToTake > 1 => Asking' /\ ReqL!ToTake' = ReqL!ToTake - 1
        /\ a /\ ReqL!ToTake = 1 => Answering' /\ ~rs_busy'
        /\ Asking' /\ rs_busy' => RespL!ToFree' <= ReqL!ToTake'
    BY <1>5, FromAsking, Zenon
  <2>2. CASE ~a
    <3>1. Due' <= Due - (IF t THEN 1 ELSE 0)
      <4>1. Due' = (ReqL!ToTake + 1) * RATIO + ReqL!ToTake + 5 - tcks'
        BY <1>1, <2>1, <2>2
      <4>2. Due = (ReqL!ToTake + 1) * RATIO + ReqL!ToTake + 5 - tcks
        BY <1>2, <1>5
      <4>3. (ReqL!ToTake + 1) * RATIO + ReqL!ToTake + 5 \in Int
        BY <1>0
      <4> HIDE <1>1, <1>2
      <4> QED BY <1>0, <2>2, <4>1, <4>2, <4>3
    <3> QED BY <2>1, <2>2, <3>1, Zenon DEF Place
  <2>3. CASE a /\ ReqL!ToTake = 1
    <3>1. Due' <= Due - (IF t THEN 1 ELSE 0)
      BY <1>0, <1>1, <1>2, <1>5, <2>1, <2>3
    <3> QED BY <2>1, <2>3, <3>1, Zenon DEF Place
  <2>4. CASE a /\ ReqL!ToTake > 1
    <3>1. Asking' /\ ReqL!ToTake' = ReqL!ToTake - 1
      BY <2>1, <2>4
    <3>2. Due' <= Due - (IF t THEN 1 ELSE 0)
      <4>1. CASE ReqL!ToTake = 2 BY <1>0, <1>1, <1>2, <1>5, <2>4, <3>1, <4>1
      <4>2. CASE ReqL!ToTake = 3 BY <1>0, <1>1, <1>2, <1>5, <2>4, <3>1, <4>2
      <4>3. CASE ReqL!ToTake = 4 BY <1>0, <1>1, <1>2, <1>5, <2>4, <3>1, <4>3
      <4> QED BY <1>0, <2>4, <4>1, <4>2, <4>3
    <3> QED BY <2>1, <3>1, <3>2, Zenon DEF Place
  <2>5. ReqL!ToTake = 1 \/ ReqL!ToTake > 1
    BY <1>0
  <2> QED BY <2>2, <2>3, <2>4, <2>5
<1>6. CASE Answering /\ ~rs_busy
  <2>1. CASE a
    <3>1. Returning' /\ RespL!ToTake' = 4
      BY <1>6, <2>1, FromAnswering
    <3>2. Due' <= Due - (IF t THEN 1 ELSE 0)
      BY <1>0, <1>1, <1>2, <1>6, <3>1
    <3> QED BY <3>1, <3>2, Zenon DEF Place
  <2>2. CASE ~a
    <3>1. Answering' /\ ~rs_busy'
      BY <1>6, <2>2, FromAnswering
    <3>2. Due' <= Due - (IF t THEN 1 ELSE 0)
      BY <1>0, <1>1, <1>2, <1>6, <2>2, <3>1
    <3> QED BY <3>1, <3>2, Zenon DEF Place
  <2> QED BY <2>1, <2>2
<1>7. CASE Returning
  <2>1. /\ ~t => Returning' /\ RespL!ToTake' = RespL!ToTake
        /\ t /\ RespL!ToTake > 1 => Returning' /\ RespL!ToTake' = RespL!ToTake - 1
        /\ t /\ RespL!ToTake = 1 => Quiet'
    BY <1>7, FromReturning, Zenon
  <2>2. CASE t /\ RespL!ToTake = 1
    BY <2>1, <2>2, Zenon DEF Place
  <2>3. CASE ~t \/ RespL!ToTake > 1
    <3>1. Due' <= Due - (IF t THEN 1 ELSE 0)
      BY <1>0, <1>1, <1>2, <1>7, <2>1, <2>3
    <3> QED BY <2>1, <2>3, <3>1, Zenon DEF Place
  <2> QED BY <1>0, <2>2, <2>3
<1> QED BY <1>3, <1>4, <1>5, <1>6, <1>7, Zenon DEF Timely, Place

\* A transaction is over only when the DTM takes its response.
LEMMA StillSomewhere ==
  ASSUME Timely, RATIO > 0, NEW t \in BOOLEAN, NEW a \in BOOLEAN, TckSide(t), AonSide(a),
         ~Quiet, ~(t /\ rd_valid)
  PROVE  ~Quiet'
<1>1. CASE Pulsed /\ ~qs_busy
  BY <1>1, FromPulsed, Zenon DEF Pulsed, Asking, Quiet
<1>2. CASE Asking /\ (rs_busy => RespL!ToFree <= ReqL!ToTake)
  <2>1. Asking' \/ Answering'
    BY <1>2, FromAsking DEF ReqL!ToTake
  <2> QED BY <2>1, Zenon DEF Asking, Answering, Quiet
<1>3. CASE Answering /\ ~rs_busy
  <2>1. Answering' \/ Returning'
    BY <1>3, FromAnswering
  <2> QED BY <2>1, Zenon DEF Answering, Returning, Quiet
<1>4. CASE Returning
  <2>1. t => RespL!ToTake # 1 /\ RespL!ToTake \in 1 .. 4
    BY <1>4, FromReturning DEF RespL!ToTake
  <2>2. t => RespL!ToTake > 1
    BY <2>1
  <2> QED BY <1>4, <2>2, FromReturning, Zenon DEF Returning, Quiet
<1> QED BY <1>1, <1>2, <1>3, <1>4, Zenon DEF Timely, Place

\* A transaction that the DTM does not wait for is over before the TAP's next
\* request.
LEMMA TurnsKept ==
  ASSUME Timing, Timely, NEW t \in BOOLEAN, NEW a \in BOOLEAN, TckSide(t), AonSide(a),
         Counted(t, a)
  PROVE  Turns'
<1>0. /\ Crossings /\ Scanning /\ Turns /\ Place
      /\ RATIO \in Nat /\ RATIO > 0 /\ DR_BITS \in Nat /\ 5 * RATIO + 7 <= DR_BITS
  BY TransporterAssumption DEF Timely, Timing
<1>1. /\ Slack \in Nat /\ Slack' \in Nat
      /\ tap_req_q => Slack = 0
      /\ t => Slack' >= Slack - 1
      /\ ~t => Slack' = Slack
      /\ t /\ tap_req_q => Slack' >= 3 + DR_BITS
  BY <1>0, SlackFalls
<1>2. ~Quiet => Quiet' \/ Due' <= Due - (IF t THEN 1 ELSE 0)
  BY <1>0, TransactionMoves
<1>3. Due \in Nat \ {0}
  BY <1>0, DueIs DEF ReqL!ToTake, RespL!ToTake
<1>4. Quiet => Quiet' \/ (t /\ Pulsed')
  BY <1>0, FromQuiet
<1>5. Pulsed' => Due' = 5 * RATIO + 10
  BY DEF Pulsed, Due
\* The race, for a transaction that was not waited for before the step.
<1>6. ASSUME state_q = "S_IDLE", ~Quiet, ~Quiet' PROVE Due' <= Slack'
  <2>1. Due <= Slack
    BY <1>0, <1>6, Zenon DEF Turns
  <2>2. Due' <= Due - (IF t THEN 1 ELSE 0)
    BY <1>2, <1>6
  <2>3. Slack' >= Slack - (IF t THEN 1 ELSE 0)
    BY <1>1
  <2>4. Due' \in Int
    <3>1. tcks' \in Int /\ ReqL!ToTake' \in Int /\ RespL!ToTake' \in Int
      BY <1>0, SlackFalls DEF Scanning, ReqL!ToTake, RespL!ToTake
    <3> QED BY <1>0, <3>1 DEF Due
  <2> QED BY <1>1, <1>3, <2>1, <2>2, <2>3, <2>4
<1>7. CASE ~t
  <2>1. UNCHANGED <<state_q, req_pulse_q, resp_ready_q, fi_mode_active_q>>
    BY <1>7, TckStands, Zenon DEF TckSide
  <2>2. Quiet => Quiet'
    BY <1>4, <1>7
  <2>3. ~Quiet => ~Quiet'
    BY <1>0, <1>7, StillSomewhere
  <2>4. state_q = "S_IDLE" /\ ~Quiet' => Due' <= Slack'
    BY <1>6, <2>2
  <2> QED BY <1>0, <2>1, <2>2, <2>3, <2>4, Zenon DEF Turns
<1>8. CASE t
  <2>0. Tck
    BY <1>8, Zenon DEF TckSide
  <2>1. CASE DtmPassive
    <3>1. state_q' = "S_IDLE" /\ state_q # "S_WAIT_RESP"
      BY <1>0, <2>1 DEF DtmPassive, Turns
    <3>2. ASSUME ~Quiet' PROVE Due' <= Slack'
      <4>1. CASE Quiet
        <5>1. Pulsed' /\ tap_req_q
          BY <1>4, <2>1, <3>2, <4>1 DEF Pulsed, DtmPassive
        <5> QED BY <1>0, <1>1, <1>5, <1>8, <5>1
      <4>2. CASE ~Quiet
        <5>1. state_q = "S_IDLE"
          BY <1>0, <3>1, <4>2 DEF Turns
        <5> QED BY <1>6, <3>2, <4>2, <5>1
      <4> QED BY <4>1, <4>2
    <3> QED BY <3>1, <3>2 DEF Turns
  <2>2. CASE DtmIdle
    <3>1. CASE tap_req_q /\ tap_data_q.op \in {1, 2}
      <4>1. Quiet
        BY <1>0, <1>1, <1>3, <2>2, <3>1 DEF Turns, DtmIdle
      <4>2. Quiet'
        BY <1>4, <2>2, <4>1 DEF DtmIdle, Pulsed
      <4> QED BY <2>2, <3>1, <4>2 DEF Turns, DtmIdle
    <3>2. CASE ~(tap_req_q /\ tap_data_q.op \in {1, 2})
      <4>1. state_q' = "S_IDLE" /\ state_q = "S_IDLE"
        BY <2>2, <3>2 DEF DtmIdle
      <4>2. Quiet => Quiet'
        BY <1>4, <2>2 DEF DtmIdle, Pulsed
      <4>3. ~Quiet' => Due' <= Slack'
        BY <1>6, <4>1, <4>2
      <4> QED BY <4>1, <4>3 DEF Turns
    <3> QED BY <3>1, <3>2
  <2>3. CASE DtmSend
    <3>1. Quiet /\ fi_mode_active_q'
      <4>1. fi_mode_active_q' = fi_mode_active_q
        BY <1>0, <2>0, <2>3, DtmCases DEF DtmSend
      <4> QED BY <1>0, <2>3, <4>1 DEF Turns, DtmSend
    <3>2. CASE qs_busy
      <4>1. Quiet'
        BY <1>4, <2>3, <3>1, <3>2 DEF DtmSend, Pulsed
      <4> QED BY <2>3, <3>2, <4>1 DEF Turns, DtmSend
    <3>3. CASE ~qs_busy
      <4>1. req_pulse_q' /\ ~Quiet' /\ state_q' = "S_WAIT_RESP"
        BY <2>3, <3>3 DEF DtmSend, Quiet
      <4> QED BY <3>1, <4>1 DEF Turns
    <3> QED BY <3>2, <3>3
  <2>4. CASE DtmWait
    <3>1. fi_mode_active_q' /\ ~Quiet /\ resp_ready_q'
      <4>1. fi_mode_active_q' = fi_mode_active_q
        BY <1>0, <2>0, <2>4, DtmCases DEF DtmWait
      <4> QED BY <1>0, <2>4, <4>1 DEF Turns, DtmWait
    <3>2. CASE rd_valid
      <4>1. state_q' = "S_IDLE"
        BY <2>4, <3>2 DEF DtmWait
      <4>2. Returning
        <5>1. RespL!InFlight
          BY <1>0, <3>2, RespMoves, Zenon
        <5> QED BY <1>0, <5>1, Zenon DEF Place, Pulsed, Asking, Answering, Quiet
      <4>3. Quiet'
        BY <1>0, <1>8, <3>2, <4>2, FromReturning, Zenon
      <4> QED BY <4>1, <4>3 DEF Turns
    <3>3. CASE ~rd_valid
      <4>1. state_q' = "S_WAIT_RESP"
        BY <2>4, <3>3 DEF DtmWait
      <4>2. ~Quiet'
        BY <1>0, <3>1, <3>3, StillSomewhere
      <4> QED BY <3>1, <4>1, <4>2 DEF Turns
    <3> QED BY <3>2, <3>3
  <2> QED BY <1>0, <2>0, <2>1, <2>2, <2>3, <2>4, DtmCases, Zenon
<1> QED BY <1>7, <1>8

\* A TRST leaves at most a response register behind, and the TAP is far from its
\* next request.
LEMMA TrstTimely == Timing /\ Timely /\ Trst => Scanning' /\ Place' /\ Turns'
<1> SUFFICES ASSUME Timing, Timely, Trst PROVE Scanning' /\ Place' /\ Turns'
  OBVIOUS
<1>1. /\ req_pulse_q' = FALSE /\ state_q' = "S_IDLE" /\ tap_req_q' = FALSE
      /\ tap_state_q' = "TEST_LOGIC_RESET" /\ shifted' = 0 /\ tcks' = tcks
  BY Zenon DEF Trst, Tap!Reset, Dtm!Reset
<1>2. ~ReqL!InFlight' /\ ~RespL!InFlight' /\ ~rs_busy'
  BY TrstEmpties, Zenon
<1>3. RATIO \in Nat /\ DR_BITS \in Nat \ {0} /\ tcks \in 0 .. RATIO /\ 5 * RATIO + 7 <= DR_BITS
  BY TransporterAssumption DEF Timely, Scanning, Timing
<1>4. Scanning'
  BY <1>1, <1>3 DEF Scanning
<1>5. Place' /\ (Answering' \/ Quiet')
  BY <1>1, <1>2, Zenon DEF Place, Answering, Quiet
<1>6. ASSUME Answering' PROVE Due' <= Slack'
  <2>1. Due' = RATIO + 5 - tcks
    BY <1>1, <1>6 DEF Due, Answering
  <2>2. Slack' = 4 + DR_BITS
    BY <1>1 DEF Slack
  <2> QED BY <1>3, <2>1, <2>2
<1>7. Turns'
  BY <1>1, <1>5, <1>6 DEF Turns
<1> QED BY <1>4, <1>5, <1>7

\* Every step keeps the transactions apart and in time.
LEMMA TimelyKept == Timing /\ Timely /\ [Next]_vars => Timely'
<1> SUFFICES ASSUME Timing, Timely, [Next]_vars PROVE Timely'
  OBVIOUS
<1>1. Crossings' /\ Settling'
  BY CrossingsKept, SettlingKept DEF Timely
<1>2. CASE Trst
  BY <1>1, <1>2, TrstTimely DEF Timely
<1>3. ASSUME NEW t \in BOOLEAN, NEW a \in BOOLEAN, TckSide(t), AonSide(a), Counted(t, a)
      PROVE  Scanning' /\ Place' /\ Turns'
  <2>1. RATIO > 0 /\ Scanning /\ Crossings
    BY DEF Timing, Timely
  <2>2. Scanning'
    BY <1>3, <2>1, SlackFalls
  <2>3. Place'
    BY <1>3, <2>1, TransactionMoves
  <2>4. Turns'
    BY <1>3, TurnsKept
  <2> QED BY <2>2, <2>3, <2>4
<1> QED BY <1>1, <1>2, <1>3, StepCases, Zenon DEF Timely

\* At the reset nothing is under way.
LEMMA StartsTimely == Timing /\ Init => Timely
<1> SUFFICES ASSUME Timing, Init PROVE Timely
  OBVIOUS
<1>1. Crossings /\ Settling
  BY StartsSettled
<1>2. ~ReqL!InFlight /\ ~RespL!InFlight
  BY SameReqEdges, SameRespEdges, ReqL!AfterReset, RespL!AfterReset, Zenon DEF Init
<1>3. /\ req_pulse_q = FALSE /\ dmi_resp_valid = FALSE /\ state_q = "S_IDLE"
      /\ tap_req_q = FALSE /\ tap_state_q = "TEST_LOGIC_RESET" /\ shifted = 0 /\ tcks = 0
  BY Zenon DEF Init, Tap!Init, Dtm!Init, Regs!Init
<1>4. Quiet
  BY <1>2, <1>3, Zenon DEF Quiet
<1>5. Scanning /\ Place /\ Turns
  BY <1>3, <1>4, TransporterAssumption DEF Scanning, Place, Turns
<1> QED BY <1>1, <1>5 DEF Timely

-----------------------------------------------------------------------------
(* What a served request does to the registers. *)

\* A request is served on the last edge of its crossing.
Serves(a) == a /\ qd_valid /\ ~dmi_resp_valid

\* Serving a word is applying it; nothing else moves the registers.
LEMMA RegistersFollow ==
  ASSUME Settling, cfg = [r \in Regs!CfgRegs |-> cfg[r]], NEW a \in BOOLEAN, AonSide(a)
  PROVE  /\ cfg' = [r \in Regs!CfgRegs |-> cfg'[r]]
         /\ Serves(a) => Registers' = Applied(Registers, qd_data)
         /\ ~Serves(a) => Registers' = Registers
<1>1. CASE ~a
  <2>1. UNCHANGED <<cfg, tbl_addr_ptr_q, tbl_auto_inc_q>>
    BY <1>1, Zenon DEF AonSide, AonStill, Regs!Still
  <2> QED BY <1>1, <2>1 DEF Serves, Registers
<1>2. CASE a
  <2> DEFINE W(r) == Serves(a) /\ qd_data.op = 2 /\ qd_data.addr = r
  <2>1. PICK live : Regs!Edge(qd_valid, qd_data, Resp!src_ready_o, host_rdata,
                              fi_mode_active_q, live)
    BY <1>2, Zenon DEF AonSide, Aon
  <2>2. \A r : Regs!writes(qd_valid, qd_data, r) <=> W(r)
    BY <1>2, Zenon DEF Regs!writes, Regs!serves, Regs!dmi_req_ready_o, Regs!OP_WRITE, Serves
  <2>3. cfg' = [r \in Regs!CfgRegs |-> IF W(r) THEN Regs!Kept(r, qd_data.data) ELSE cfg[r]]
    BY <2>1, <2>2 DEF Regs!Edge, Regs!Configure
  <2>4. tbl_auto_inc_q' = IF W("TBL_CTRL") THEN qd_data.data % 2 = 1 ELSE tbl_auto_inc_q
    BY <2>1, <2>2 DEF Regs!Edge, Regs!TableWrite
  <2>5. tbl_addr_ptr_q' = CASE W("TBL_ADDR") -> qd_data.data % TBL_WORDS
                            [] W("TBL_WDATA") /\ tbl_auto_inc_q ->
                                 (tbl_addr_ptr_q + 1) % TBL_WORDS
                            [] OTHER -> tbl_addr_ptr_q
    BY <2>1, <2>2 DEF Regs!Edge, Regs!TableWrite, Regs!Point
  <2>6. cfg' = [r \in Regs!CfgRegs |-> cfg'[r]]
    BY <2>3
  <2>7. ASSUME \A r : ~W(r) PROVE Registers' = Registers
    <3>1. cfg' = cfg
      BY <2>3, <2>7
    <3>2. tbl_auto_inc_q' = tbl_auto_inc_q /\ tbl_addr_ptr_q' = tbl_addr_ptr_q
      BY <2>4, <2>5, <2>7
    <3> QED BY <3>1, <3>2 DEF Registers
  <2>8. ASSUME Serves(a), qd_data.op = 2 PROVE Registers' = Applied(Registers, qd_data)
    <3> DEFINE r == qd_data.addr
    <3>0. \A s : W(s) <=> s = r
      BY <2>8
    <3> HIDE DEF W
    <3>1. CASE r \in Regs!CfgRegs
      <4>1. r # "TBL_CTRL" /\ r # "TBL_ADDR" /\ r # "TBL_WDATA"
        BY <3>1 DEF Regs!CfgRegs
      <4>2. tbl_auto_inc_q' = tbl_auto_inc_q /\ tbl_addr_ptr_q' = tbl_addr_ptr_q
        BY <2>4, <2>5, <3>0, <4>1
      <4>3. cfg' = [cfg EXCEPT ![r] = Regs!Kept(r, qd_data.data)]
        BY <2>3, <3>0, <3>1
      <4>4. Applied(Registers, qd_data) = [Registers EXCEPT !.cfg[r] = Regs!Kept(r, qd_data.data)]
        BY <2>8, <3>1 DEF Applied, Regs!OP_WRITE, Regs!CfgRegs
      <4> QED BY <4>2, <4>3, <4>4 DEF Registers
    <3>2. CASE r \notin Regs!CfgRegs
      <4>1. cfg' = cfg
        BY <2>3, <3>0, <3>2
      <4>2. CASE r = "TBL_CTRL"
        BY <2>4, <2>5, <2>8, <3>0, <3>2, <4>1, <4>2 DEF Applied, Registers, Regs!OP_WRITE
      <4>3. CASE r = "TBL_ADDR"
        BY <2>4, <2>5, <2>8, <3>0, <3>2, <4>1, <4>3 DEF Applied, Registers, Regs!OP_WRITE
      <4>4. CASE r = "TBL_WDATA" /\ tbl_auto_inc_q
        BY <2>4, <2>5, <2>8, <3>0, <3>2, <4>1, <4>4 DEF Applied, Registers, Regs!OP_WRITE
      <4>5. CASE r \notin {"TBL_CTRL", "TBL_ADDR"} /\ ~(r = "TBL_WDATA" /\ tbl_auto_inc_q)
        BY <2>4, <2>5, <2>8, <3>0, <3>2, <4>1, <4>5 DEF Applied, Registers, Regs!OP_WRITE
      <4> QED BY <4>2, <4>3, <4>4, <4>5
    <3> QED BY <3>1, <3>2
  <2>9. ASSUME Serves(a), qd_data.op # 2 PROVE Registers' = Applied(Registers, qd_data)
    <3>1. Registers' = Registers
      BY <2>7, <2>9
    <3> QED BY <2>9, <3>1 DEF Applied, Regs!OP_WRITE
  <2> QED BY <2>6, <2>7, <2>8, <2>9
<1> QED BY <1>1, <1>2

\* Entering FI mode writes no register that Registers holds.
LEMMA EntryIsNoWrite ==
  ASSUME NEW r, NEW word, word.op = 2, word.addr = "FI_MODE"
  PROVE  Applied(r, word) = r
  BY DEF Applied, Regs!OP_WRITE, Regs!CfgRegs

\* The answer to a write is what was written; the answer to a read lasts, for
\* the read port is at rest and nothing is written.
LEMMA AnswersLast ==
  ASSUME Settling, cfg = [r \in Regs!CfgRegs |-> cfg[r]], NEW a \in BOOLEAN, AonSide(a),
         Lasting, Serves(a) => qd_data.op # 2 \/ last.op = 2, last' = last
  PROVE  Answers' = Answers /\ Lasting'
<1>1. CASE last.op = 2
  <2>1. Answers' = Answers
    BY <1>1 DEF Answers, Regs!Answer, Regs!OP_NOP, Regs!OP_READ, Regs!OP_WRITE, Regs!WriteAnswer,
                Regs!Answered, Regs!Kept
  <2>2. Lasting'
    BY <1>1 DEF Lasting
  <2> QED BY <2>1, <2>2
<1>2. CASE last.op = 1
  <2>1. tbl_state_q = "TBL_IDLE" /\ ~tbl_rd_pending_q
    BY <1>2 DEF Lasting
  <2>2. UNCHANGED <<cfg, tbl_addr_ptr_q, tbl_auto_inc_q, tbl_host_wdata, tbl_rdata_shadow_q,
                    tbl_rd_valid_q, tbl_rd_pending_q, tbl_state_q>>
    <3>1. CASE ~a
      BY <3>1, Zenon DEF AonSide, AonStill, Regs!Still
    <3>2. CASE a
      <4>1. PICK live : Regs!Edge(qd_valid, qd_data, Resp!src_ready_o, host_rdata,
                                  fi_mode_active_q, live)
        BY <3>2, Zenon DEF AonSide, Aon
      <4>2. \A r : ~Regs!writes(qd_valid, qd_data, r)
        BY <1>2, <3>2 DEF Regs!writes, Regs!serves, Regs!dmi_req_ready_o, Regs!OP_WRITE, Serves
      <4>3. cfg' = cfg
        BY <4>1, <4>2 DEF Regs!Edge, Regs!Configure
      <4>4. tbl_auto_inc_q' = tbl_auto_inc_q /\ tbl_host_wdata' = tbl_host_wdata
        BY <4>1, <4>2, Zenon DEF Regs!Edge, Regs!TableWrite
      <4>5. tbl_addr_ptr_q' = tbl_addr_ptr_q
        BY <4>1, <4>2 DEF Regs!Edge, Regs!TableWrite, Regs!Point
      <4>6. Regs!TableRead(qd_valid, qd_data, host_rdata)
        BY <4>1, Zenon DEF Regs!Edge
      <4>7. tbl_state_q' = tbl_state_q /\ tbl_rdata_shadow_q' = tbl_rdata_shadow_q
        BY <2>1, <4>6 DEF Regs!TableRead
      <4>8. tbl_rd_pending_q' = tbl_rd_pending_q
        <5>1. ~tbl_rd_pending_q'
          BY <2>1, <4>2, <4>6, Zenon DEF Regs!TableRead
        <5>2. tbl_rd_pending_q' \in BOOLEAN
          BY ReadPort
        <5> QED BY <2>1, <5>1, <5>2, Zenon DEF Settling
      <4>9. tbl_rd_valid_q' = tbl_rd_valid_q
        <5>1. tbl_rd_valid_q' <=> tbl_rd_valid_q
          <6>1. tbl_state_q # "TBL_RD_WAIT"
            BY <2>1
          <6> QED BY <4>2, <4>6, <6>1, Zenon DEF Regs!TableRead
        <5>2. tbl_rd_valid_q' \in BOOLEAN
          BY ReadPort
        <5> QED BY <5>1, <5>2, Zenon DEF Settling
      <4> QED BY <4>3, <4>4, <4>5, <4>7, <4>8, <4>9
    <3> QED BY <3>1, <3>2
  <2>3. Answers' = Answers
    BY <2>2 DEF Answers, Regs!Answer, Regs!ReadAnswer, Regs!WriteAnswer, Regs!Value,
                Regs!Answered, Regs!Kept, Regs!bit
  <2>4. Lasting'
    BY <2>1, <2>2 DEF Lasting
  <2> QED BY <2>3, <2>4
<1> QED BY <1>1, <1>2 DEF Lasting

\* The history of accepted requests: only an idle DTM in FI mode accepts one.
LEMMA Accepted ==
  ASSUME Crossings, Tck
  PROVE  /\ ~fi_mode_active_q => last' = NoWord /\ ref' = ref
         /\ fi_mode_active_q /\ fi_mode_active_q' /\ state_q = "S_IDLE" /\ tap_req_q
              /\ tap_data_q.op \in {1, 2} =>
              last' = tap_data_q /\ ref' = Applied(ref, tap_data_q)
         /\ fi_mode_active_q
              /\ ~(fi_mode_active_q' /\ state_q = "S_IDLE" /\ tap_req_q
                     /\ tap_data_q.op \in {1, 2}) =>
              last' = last /\ ref' = ref
<1>1. /\ last' = CASE ~fi_mode_active_q -> NoWord
                   [] Accepts -> tap_data_q
                   [] OTHER -> last
      /\ ref' = IF Accepts THEN Applied(ref, tap_data_q) ELSE ref
  BY Zenon DEF Tck
<1>2. Accepts <=> /\ fi_mode_active_q /\ fi_mode_active_q'
                  /\ state_q = "S_IDLE" /\ tap_req_q /\ tap_data_q.op \in {1, 2}
  BY DEF Accepts, Dtm!dtm_idle_o, Dtm!req_is_active_w, Dtm!OP_READ, Dtm!OP_WRITE
<1> QED BY <1>1, <1>2

-----------------------------------------------------------------------------
(* The words and the registers. *)

\* A request keeps its word until it is served, and is served once.
LEMMA WordKept ==
  ASSUME Timely, RATIO > 0, NEW t \in BOOLEAN, NEW a \in BOOLEAN, TckSide(t), AonSide(a)
  PROVE  /\ ~Quiet /\ ToServe' => ToServe /\ ~Serves(a) /\ Word' = Word
         /\ Serves(a) => ToServe /\ ~Quiet /\ ~ToServe' /\ qd_data = Word
         /\ ToServe /\ ~Serves(a) => ToServe'
         /\ ToServe => ~Quiet
<1>1. CASE Quiet
  <2>1. ~qd_valid
    BY <1>1, ReqMoves, Zenon DEF Timely, Quiet
  <2> QED BY <1>1, <2>1 DEF Quiet, ToServe, Serves
<1>2. CASE Pulsed /\ ~qs_busy
  <2>1. ~qd_valid
    BY <1>2, ReqMoves, Zenon DEF Timely, Pulsed
  <2>2. IF t THEN Asking' /\ qs_data' = dtm_data_q ELSE Pulsed'
    BY <1>2, FromPulsed
  <2>3. CASE t
    <3>1. Word = dtm_data_q
      BY <1>2, Zenon DEF Pulsed, Word
    <3>2. Word' = qs_data'
      BY <2>2, <2>3, Zenon DEF Asking, Word
    <3>3. Word' = Word
      BY <2>2, <2>3, <3>1, <3>2
    <3>4. ToServe /\ ~Quiet /\ ~Serves(a)
      BY <1>2, <2>1, Zenon DEF Pulsed, Quiet, ToServe, Serves
    <3>5. ToServe'
      BY <2>2, <2>3, Zenon DEF Asking, ToServe
    <3> QED BY <3>3, <3>4, <3>5, Zenon
  <2>4. CASE ~t
    <3>1. dtm_data_q' = dtm_data_q
      BY <2>4, TckStands, Zenon DEF TckSide
    <3> QED BY <1>2, <2>1, <2>2, <2>4, <3>1 DEF Pulsed, Quiet, ToServe, Serves, Word
  <2> QED BY <2>3, <2>4
<1>3. CASE Asking /\ (rs_busy => RespL!ToFree <= ReqL!ToTake)
  <2>1. /\ qd_valid <=> ReqL!ToTake = 1
        /\ qd_valid => qd_data = qs_data
        /\ qs_data' = qs_data
        /\ ~Serves(a) => Asking'
        /\ Serves(a) => Answering'
    <3>1. ReqL!ToTake \in 1 .. 4
      BY DEF ReqL!ToTake
    <3>2. ReqL!ToTake = 1 \/ ReqL!ToTake > 1
      BY <3>1
    <3> QED BY <1>3, <3>2, FromAsking, Zenon DEF Serves, Asking
  <2>2. ToServe /\ ~Quiet /\ Word = qs_data
    BY <1>3, Zenon DEF Asking, Quiet, ToServe, Word
  <2>3. ~Serves(a) => ToServe' /\ Word' = qs_data'
    BY <2>1, Zenon DEF Asking, ToServe, Word
  <2>4. Serves(a) => ~ToServe' /\ qd_data = qs_data
    BY <2>1, Zenon DEF Answering, ToServe, Serves
  <2> QED BY <2>1, <2>2, <2>3, <2>4
<1>4. CASE Answering /\ ~rs_busy
  <2>1. Answering' \/ Returning'
    BY <1>4, FromAnswering
  <2> QED BY <1>4, <2>1 DEF Answering, Returning, Quiet, ToServe, Serves
<1>5. CASE Returning
  <2>1. ~qd_valid
    BY <1>5, ReqMoves, Zenon DEF Timely, Returning
  <2>2. Returning' \/ Quiet'
    <3>1. RespL!ToTake \in 1 .. 4
      BY DEF RespL!ToTake
    <3>2. RespL!ToTake = 1 \/ RespL!ToTake > 1
      BY <3>1
    <3> QED BY <1>5, <3>2, FromReturning, Zenon
  <2> QED BY <1>5, <2>1, <2>2 DEF Returning, Quiet, ToServe, Serves
<1> QED BY <1>1, <1>2, <1>3, <1>4, <1>5, Zenon DEF Timely, Place

\* Outside a transaction that the DTM waits for, the registers keep what they
\* hold: what is served then only enters FI mode.
LEMMA RegistersMove ==
  ASSUME Exact, RATIO > 0, NEW t \in BOOLEAN, NEW a \in BOOLEAN, TckSide(t), AonSide(a)
  PROVE  /\ state_q # "S_WAIT_RESP" \/ ~Serves(a) => Registers' = Registers
         /\ state_q = "S_WAIT_RESP" /\ Serves(a) =>
              Registers' = Applied(Registers, last) /\ last.op \in {1, 2}
         /\ cfg' = [r \in Regs!CfgRegs |-> cfg'[r]]
<1>1. /\ cfg' = [r \in Regs!CfgRegs |-> cfg'[r]]
      /\ Serves(a) => Registers' = Applied(Registers, qd_data)
      /\ ~Serves(a) => Registers' = Registers
  BY RegistersFollow DEF Exact, Timely, Registered
<1>2. Serves(a) => ToServe /\ qd_data = Word
  BY WordKept DEF Exact
<1>3. state_q = "S_WAIT_RESP" /\ ToServe => Word = last /\ last.op \in {1, 2}
  BY DEF Exact, Words
<1>4. state_q # "S_WAIT_RESP" /\ ToServe => Word.op = 2 /\ Word.addr = "FI_MODE"
  BY Zenon DEF Exact, Words
<1>5. ASSUME state_q # "S_WAIT_RESP", Serves(a) PROVE Registers' = Registers
  <2>1. Applied(Registers, qd_data) = Registers
    BY <1>2, <1>4, <1>5, EntryIsNoWrite
  <2> QED BY <1>1, <1>5, <2>1
<1> QED BY <1>1, <1>2, <1>3, <1>5, Zenon

\* What stays while the DTM waits for a transaction, or is idle with its answer.
LEMMA AnswerKept ==
  ASSUME Exact, RATIO > 0, NEW t \in BOOLEAN, NEW a \in BOOLEAN, TckSide(t), AonSide(a),
         Lasting, ~ToServe, last' = last
  PROVE  Answers' = Answers /\ Lasting'
<1>1. ~Serves(a)
  BY WordKept DEF Exact
<1> QED BY <1>1, AnswersLast DEF Exact, Timely, Registered

\* The response to the request that is served is its answer.
LEMMA ServedAnswer ==
  ASSUME Exact, RATIO > 0, NEW t \in BOOLEAN, NEW a \in BOOLEAN, TckSide(t), AonSide(a),
         Serves(a), state_q = "S_WAIT_RESP", last' = last
  PROVE  dmi_resp_data' \in Answers' /\ Lasting'
<1>1. qd_data = last /\ last.op \in {1, 2}
  BY WordKept DEF Exact, Words
<1>2. fi_mode_active_q = TRUE
  BY Zenon DEF Exact, Timely, Turns, Crossings
<1>3. dmi_resp_data' \in Answers
  BY <1>1, <1>2, ResponseRegister DEF Serves, Answers
<1>4. Lasting
  <2>1. ReqL!InFlight /\ ReqL!ToTake = 1
    BY ReqMoves, Zenon DEF Exact, Timely, Serves
  <2>2. EdgesToRead \in 2 .. 4
    BY DEF EdgesToRead
  <2>3. tbl_state_q = "TBL_IDLE" /\ ~tbl_rd_pending_q
    BY <2>1, <2>2 DEF Exact, Timely, Settling
  <2> QED BY <1>1, <2>3 DEF Lasting
<1>5. qd_data.op # 2 \/ last.op = 2
  BY <1>1
<1>6. Answers' = Answers /\ Lasting'
  BY <1>4, <1>5, AnswersLast DEF Exact, Timely, Registered
<1> QED BY <1>3, <1>6

\* What the DTM waits for is the request it accepted last, then its answer; what
\* it does not wait for enters FI mode; what it shows is the last answer.
LEMMA WordsKept ==
  ASSUME Timing, Exact, NEW t \in BOOLEAN, NEW a \in BOOLEAN, TckSide(t), AonSide(a),
         Counted(t, a)
  PROVE  Words'
<1>0. /\ Timely /\ Words /\ Turns /\ Turns' /\ Crossings /\ Scanning /\ Place
      /\ RATIO > 0 /\ fi_mode_active_q \in BOOLEAN
  BY TurnsKept DEF Exact, Timely, Timing, Crossings
<1>1. /\ ~Quiet /\ ToServe' => ToServe /\ ~Serves(a) /\ Word' = Word
      /\ ToServe => ~Quiet
  BY <1>0, WordKept
<1>2. /\ t => Tck /\ (DtmPassive \/ DtmIdle \/ DtmSend \/ DtmWait)
      /\ ~t => UNCHANGED <<state_q, dtm_data_q, req_pulse_q, fi_mode_active_q, last>>
  BY <1>0, DtmCases, TckStands, Zenon DEF TckSide
<1>3. Quiet => Quiet' \/ (t /\ Pulsed')
  BY <1>0, FromQuiet
<1>4. Quiet' \/ Pulsed' => ~dmi_resp_valid' /\ ~RespL!InFlight'
  BY Zenon DEF Quiet, Pulsed
<1>5. Pulsed' => Word' = dtm_data_q'
  BY Zenon DEF Pulsed, Word
<1>6. fi_mode_active_q /\ state_q # "S_IDLE" => last' = last
  BY <1>0, <1>2, Accepted, Zenon
\* What is served outside a transaction of the DTM.
<1>7. ASSUME state_q' # "S_WAIT_RESP", ToServe' PROVE (Word.op = 2 /\ Word.addr = "FI_MODE")'
  <2>1. CASE Quiet
    <3>1. t /\ Pulsed'
      BY <1>3, <1>7, <2>1, Zenon DEF Quiet, ToServe
    <3>2. DtmPassive
      BY <1>2, <1>7, <3>1 DEF DtmIdle, DtmSend, DtmWait, Pulsed
    <3> QED BY <1>5, <3>1, <3>2 DEF DtmPassive, Pulsed
  <2>2. CASE ~Quiet
    <3>1. ToServe /\ Word' = Word
      BY <1>1, <1>7, <2>2
    <3>2. state_q # "S_WAIT_RESP"
      <4>1. ASSUME state_q = "S_WAIT_RESP" PROVE FALSE
        <5>1. t /\ DtmWait /\ rd_valid
          BY <1>0, <1>2, <1>7, <4>1 DEF DtmPassive, DtmIdle, DtmSend, DtmWait, Turns
        <5>2. RespL!InFlight
          BY <1>0, <5>1, RespMoves, Zenon
        <5>3. Returning
          BY <1>0, <5>2, Zenon DEF Place, Pulsed, Asking, Answering, Quiet
        <5> QED BY <3>1, <5>3, Zenon DEF Returning, ToServe
      <4> QED BY <4>1
    <3> QED BY <1>0, <3>1, <3>2 DEF Words
  <2> QED BY <2>1, <2>2
\* A request the DTM holds.
<1>8. ASSUME state_q' = "S_SEND", fi_mode_active_q'
      PROVE  dtm_data_q' = last' /\ last'.op \in {1, 2}
  <2>1. CASE ~t
    BY <1>0, <1>2, <1>8, <2>1 DEF Words
  <2>2. CASE t /\ DtmIdle
    BY <1>0, <1>2, <1>8, <2>2, Accepted DEF DtmIdle
  <2>3. CASE t /\ DtmSend
    <3>1. last' = last
      BY <1>6, <2>3 DEF DtmSend
    <3> QED BY <1>0, <2>3, <3>1 DEF DtmSend, Words
  <2> QED BY <1>2, <1>8, <2>1, <2>2, <2>3 DEF DtmPassive, DtmWait
\* A transaction that the DTM waits for.
<1>9. ASSUME state_q' = "S_WAIT_RESP"
      PROVE  /\ ToServe' => Word' = last' /\ last'.op \in {1, 2}
             /\ dmi_resp_valid' => dmi_resp_data' \in Answers' /\ Lasting'
             /\ RespL!InFlight' => rs_data' \in Answers' /\ Lasting'
  <2>1. CASE t /\ DtmSend
    <3>1. Quiet /\ dtm_data_q = last /\ last.op \in {1, 2}
      BY <1>0, <2>1 DEF Turns, Words, DtmSend
    <3>2. last' = last /\ dtm_data_q' = dtm_data_q /\ ~qs_busy
      BY <1>6, <1>9, <2>1 DEF DtmSend
    <3>3. Pulsed'
      <4>1. req_pulse_q'
        BY <2>1, <3>2 DEF DtmSend
      <4> QED BY <1>3, <3>1, <4>1, Zenon DEF Quiet
    <3> QED BY <1>4, <1>5, <3>1, <3>2, <3>3
  <2>2. CASE state_q = "S_WAIT_RESP"
    <3>1. last' = last
      BY <1>0, <1>6, <2>2 DEF Turns
    <3>2. ~Quiet
      BY <1>0, <2>2 DEF Turns
    <3>3. ASSUME ToServe' PROVE Word' = last' /\ last'.op \in {1, 2}
      BY <1>0, <1>1, <2>2, <3>1, <3>2, <3>3 DEF Words
    <3>4. ASSUME dmi_resp_valid' PROVE dmi_resp_data' \in Answers' /\ Lasting'
      <4>1. CASE Serves(a)
        BY <1>0, <2>2, <3>1, <4>1, ServedAnswer
      <4>2. CASE ~Serves(a)
        <5>1. Answering /\ ~rs_busy
          <6>1. dmi_resp_valid
            BY <1>0, <3>4, <4>2, ResponseRegister, Zenon DEF Serves
          <6> QED BY <1>0, <6>1, Zenon DEF Place, Pulsed, Asking, Returning, Quiet
        <5>2. dmi_resp_data' = dmi_resp_data
          BY <4>2, ResponseRegister DEF Serves
        <5>3. dmi_resp_data \in Answers /\ Lasting /\ ~ToServe
          BY <1>0, <2>2, <5>1 DEF Words, Answering, ToServe
        <5> QED BY <1>0, <3>1, <5>2, <5>3, AnswerKept
      <4> QED BY <4>1, <4>2
    <3>5. ASSUME RespL!InFlight' PROVE rs_data' \in Answers' /\ Lasting'
      <4>1. CASE Answering /\ ~rs_busy
        <5>1. rs_data' = dmi_resp_data
          BY <1>0, <3>5, <4>1, FromAnswering, Zenon DEF Answering
        <5>2. dmi_resp_data \in Answers /\ Lasting /\ ~ToServe
          BY <1>0, <2>2, <4>1 DEF Words, Answering, ToServe
        <5> QED BY <1>0, <3>1, <5>1, <5>2, AnswerKept
      <4>2. CASE Returning
        <5>1. rs_data' = rs_data
          BY <1>0, <4>2, FromReturning
        <5>2. rs_data \in Answers /\ Lasting /\ ~ToServe
          BY <1>0, <2>2, <4>2 DEF Words, Returning, ToServe
        <5> QED BY <1>0, <3>1, <5>1, <5>2, AnswerKept
      <4>3. CASE ToServe
        <5>1. ~RespL!InFlight /\ ~dmi_resp_valid
          BY <1>0, <4>3, Zenon DEF Place, Pulsed, Asking, Answering, Returning, Quiet, ToServe
        <5> QED BY <1>0, <3>5, <5>1, RespMoves, Zenon
      <4> QED BY <1>0, <3>2, <4>1, <4>2, <4>3, Zenon DEF Place, Pulsed, Asking, ToServe
    <3> QED BY <3>3, <3>4, <3>5
  <2> QED BY <1>2, <1>9, <2>1, <2>2 DEF DtmPassive, DtmIdle, DtmWait
\* What the DTM shows.
<1>10. ASSUME state_q' = "S_IDLE", fi_mode_active_q', last' # NoWord
       PROVE  Quiet' /\ dtm_data_q' \in Answers' /\ Lasting'
  <2>1. CASE ~t
    <3>1. Quiet /\ dtm_data_q \in Answers /\ Lasting /\ last' = last
      BY <1>0, <1>2, <1>10, <2>1 DEF Words
    <3>2. Quiet' /\ ~ToServe /\ dtm_data_q' = dtm_data_q
      BY <1>1, <1>2, <1>3, <2>1, <3>1
    <3> QED BY <1>0, <3>1, <3>2, AnswerKept
  <2>2. CASE t /\ DtmPassive
    BY <1>0, <1>2, <1>10, <2>2, Accepted DEF DtmPassive
  <2>3. CASE t /\ DtmIdle
    <3>1. ~(tap_req_q /\ tap_data_q.op \in {1, 2}) /\ dtm_data_q' = dtm_data_q
      BY <1>10, <2>3 DEF DtmIdle
    <3>2. last' = last
      BY <1>0, <1>2, <2>3, <3>1, Accepted DEF DtmIdle
    <3>3. Quiet /\ dtm_data_q \in Answers /\ Lasting
      BY <1>0, <1>10, <2>3, <3>2 DEF DtmIdle, Words
    <3>4. Quiet' /\ ~ToServe
      BY <1>1, <1>3, <2>3, <3>3 DEF DtmIdle, Pulsed
    <3> QED BY <1>0, <3>1, <3>2, <3>3, <3>4, AnswerKept
  <2>4. CASE t /\ DtmWait
    <3>1. rd_valid /\ state_q = "S_WAIT_RESP" /\ dtm_data_q' = rd_data /\ last' = last
      BY <1>6, <1>10, <2>4 DEF DtmWait
    <3>2. Returning
      <4>1. RespL!InFlight
        BY <1>0, <3>1, RespMoves, Zenon
      <4> QED BY <1>0, <4>1, Zenon DEF Place, Pulsed, Asking, Answering, Quiet
    <3>3. rd_data = rs_data /\ Quiet'
      BY <1>0, <2>4, <3>1, <3>2, FromReturning, Zenon
    <3>4. rs_data \in Answers /\ Lasting /\ ~ToServe
      BY <1>0, <3>1, <3>2 DEF Words, Returning, ToServe
    <3> QED BY <1>0, <3>1, <3>3, <3>4, AnswerKept
  <2> QED BY <1>2, <1>10, <2>1, <2>2, <2>3, <2>4 DEF DtmSend
<1> QED BY <1>7, <1>8, <1>9, <1>10, Zenon DEF Words

\* The registers are what the accepted requests make of them, but for the one
\* that is on its way.
LEMMA RegisteredKept ==
  ASSUME Timing, Exact, NEW t \in BOOLEAN, NEW a \in BOOLEAN, TckSide(t), AonSide(a),
         Counted(t, a)
  PROVE  Registered'
<1>0. /\ Timely /\ Words /\ Turns /\ Crossings /\ Registered /\ Place
      /\ RATIO > 0 /\ fi_mode_active_q \in BOOLEAN
  BY DEF Exact, Timely, Timing, Crossings
<1>1. /\ ~Quiet /\ ToServe' => ToServe /\ ~Serves(a)
      /\ Serves(a) => ToServe /\ ~ToServe'
      /\ ToServe /\ ~Serves(a) => ToServe'
      /\ ToServe => ~Quiet
  BY <1>0, WordKept
<1>2. /\ t => Tck /\ (DtmPassive \/ DtmIdle \/ DtmSend \/ DtmWait)
      /\ ~t => UNCHANGED <<state_q, req_pulse_q, fi_mode_active_q, last, ref>>
  BY <1>0, DtmCases, TckStands, Zenon DEF TckSide
<1>3. /\ state_q # "S_WAIT_RESP" \/ ~Serves(a) => Registers' = Registers
      /\ state_q = "S_WAIT_RESP" /\ Serves(a) => Registers' = Applied(Registers, last)
      /\ cfg' = [r \in Regs!CfgRegs |-> cfg'[r]]
  BY <1>0, RegistersMove
<1>4. SUFFICES ref' = IF Pending' THEN Applied(Registers', last') ELSE Registers'
  BY <1>3 DEF Registered
\* Applied to the same registers, the same word gives the same.
<1>5. ASSUME Registers' = Registers, last' = last
      PROVE  Applied(Registers', last') = Applied(Registers, last)
  BY <1>5
\* While the DTM waits, before and after the request is served.
<1>6. ASSUME state_q = "S_WAIT_RESP", state_q' = "S_WAIT_RESP", ref' = ref, last' = last,
             fi_mode_active_q' = fi_mode_active_q
      PROVE  ref' = IF Pending' THEN Applied(Registers', last') ELSE Registers'
  <2>1. fi_mode_active_q /\ ~Quiet
    BY <1>0, <1>6 DEF Turns
  <2>2. (Pending <=> ToServe) /\ (Pending' <=> ToServe')
    BY <1>6, <2>1 DEF Pending
  <2>3. CASE Serves(a)
    BY <1>0, <1>1, <1>3, <1>6, <2>2, <2>3 DEF Registered
  <2>4. CASE ~Serves(a)
    BY <1>0, <1>1, <1>3, <1>6, <2>1, <2>2, <2>4 DEF Registered
  <2> QED BY <2>3, <2>4
<1>7. CASE ~t
  <2>1. CASE state_q = "S_WAIT_RESP"
    BY <1>2, <1>6, <1>7, <2>1
  <2>2. CASE state_q # "S_WAIT_RESP"
    <3>1. Pending' <=> Pending
      BY <1>2, <1>7, <2>2 DEF Pending
    <3> QED BY <1>0, <1>2, <1>3, <1>7, <2>2, <3>1 DEF Registered
  <2> QED BY <2>1, <2>2
<1>8. CASE t /\ DtmPassive
  <2>1. ~Pending /\ ~Pending' /\ state_q # "S_WAIT_RESP"
    BY <1>0, <1>8 DEF DtmPassive, Pending, Turns
  <2>2. ref' = ref
    BY <1>0, <1>2, <1>8, Accepted DEF DtmPassive
  <2> QED BY <1>0, <1>3, <2>1, <2>2 DEF Registered
<1>9. CASE t /\ DtmIdle
  <2>1. ~Pending /\ state_q # "S_WAIT_RESP" /\ Registers' = Registers /\ ref = Registers
    BY <1>0, <1>3, <1>9 DEF DtmIdle, Pending, Registered
  <2>2. CASE tap_req_q /\ tap_data_q.op \in {1, 2} /\ fi_mode_active_q'
    <3>1. last' = tap_data_q /\ ref' = Applied(ref, tap_data_q)
      BY <1>0, <1>2, <1>9, <2>2, Accepted DEF DtmIdle
    <3>2. Pending'
      BY <1>9, <2>2 DEF DtmIdle, Pending
    <3> QED BY <2>1, <3>1, <3>2
  <2>3. CASE ~(tap_req_q /\ tap_data_q.op \in {1, 2} /\ fi_mode_active_q')
    <3>1. ref' = ref
      BY <1>0, <1>2, <1>9, <2>3, Accepted DEF DtmIdle
    <3>2. ~Pending'
      BY <1>9, <2>3 DEF DtmIdle, Pending
    <3> QED BY <2>1, <3>1, <3>2
  <2> QED BY <2>2, <2>3
<1>10. CASE t /\ DtmSend
  <2>1. /\ fi_mode_active_q' = fi_mode_active_q
        /\ last' = last /\ ref' = ref
    BY <1>0, <1>2, <1>10, DtmCases, Accepted DEF DtmSend
  <2>2. Pending /\ Pending' /\ state_q # "S_WAIT_RESP"
    BY <1>10, <2>1 DEF DtmSend, Pending, ToServe
  <2> QED BY <1>0, <1>3, <2>1, <2>2 DEF Registered
<1>11. CASE t /\ DtmWait
  <2>1. /\ fi_mode_active_q' = fi_mode_active_q
        /\ last' = last /\ ref' = ref
    BY <1>0, <1>2, <1>11, DtmCases, Accepted DEF DtmWait
  <2>2. CASE ~rd_valid
    BY <1>6, <1>11, <2>1, <2>2 DEF DtmWait
  <2>3. CASE rd_valid
    <3>1. RespL!InFlight
      BY <1>0, <2>3, RespMoves, Zenon
    <3>2. ~ToServe
      BY <1>0, <3>1, Zenon DEF Place, Pulsed, Asking, Answering, Returning, Quiet, ToServe
    <3>3. ~Pending /\ ~Pending' /\ ~Serves(a)
      BY <1>1, <1>11, <2>3, <3>2 DEF DtmWait, Pending
    <3> QED BY <1>0, <1>3, <2>1, <3>3 DEF Registered
  <2> QED BY <2>2, <2>3
<1> QED BY <1>2, <1>7, <1>8, <1>9, <1>10, <1>11, Zenon

\* A TRST forgets the requests and leaves the registers alone.
LEMMA TrstExact == Exact /\ Trst => Words' /\ Registered'
<1> SUFFICES ASSUME Exact, Trst PROVE Words' /\ Registered'
  OBVIOUS
<1>1. /\ req_pulse_q' = FALSE /\ state_q' = "S_IDLE" /\ fi_mode_active_q' = FALSE
      /\ ref' = Registers
  BY Zenon DEF Trst, Dtm!Reset
<1>2. ~ReqL!InFlight' /\ ~RespL!InFlight'
  BY TrstEmpties, Zenon
<1>3. Words'
  BY <1>1, <1>2 DEF Words, ToServe
<1>4. UNCHANGED <<cfg, tbl_addr_ptr_q, tbl_auto_inc_q>>
  BY Zenon DEF Trst, Regs!Still
<1>5. Registered'
  BY <1>1, <1>4 DEF Exact, Registered, Registers, Pending
<1> QED BY <1>3, <1>5

\* The invariant: under Timing, every reachable state is Exact.
LEMMA ExactHolds == ASSUME Timing PROVE Spec => []Exact
<1>1. Init => Exact
  <2> SUFFICES ASSUME Init PROVE Exact
    OBVIOUS
  <2>1. Timely
    BY StartsTimely
  <2>2. /\ req_pulse_q = FALSE /\ state_q = "S_IDLE" /\ fi_mode_active_q = FALSE
        /\ dmi_resp_valid = FALSE /\ ref = Registers
        /\ cfg = [r \in Regs!CfgRegs |-> 0]
    BY Zenon DEF Init, Dtm!Init, Regs!Init
  <2>3. ~ReqL!InFlight /\ ~RespL!InFlight
    BY SameReqEdges, SameRespEdges, ReqL!AfterReset, RespL!AfterReset, Zenon DEF Init
  <2>4. Words
    BY <2>2, <2>3 DEF Words, ToServe
  <2>5. Registered
    BY <2>2 DEF Registered, Pending
  <2> QED BY <2>1, <2>4, <2>5 DEF Exact
<1>2. Exact /\ [Next]_vars => Exact'
  <2> SUFFICES ASSUME Exact, [Next]_vars PROVE Exact'
    OBVIOUS
  <2>1. Timely'
    BY TimelyKept DEF Exact
  <2>2. CASE Trst
    BY <2>1, <2>2, TrstExact DEF Exact
  <2>3. ASSUME NEW t \in BOOLEAN, NEW a \in BOOLEAN, TckSide(t), AonSide(a), Counted(t, a)
        PROVE  Words' /\ Registered'
    BY <2>3, WordsKept, RegisteredKept
  <2> QED BY <2>1, <2>2, <2>3, StepCases, Zenon DEF Exact
<1> QED BY <1>1, <1>2, PTL DEF Spec

-----------------------------------------------------------------------------
(* The theorems. *)

\* What the DTM shows the host as finished is the answer to the request it
\* accepted last: no response of an earlier request, of the one that entered FI
\* mode or of one that a TRST cut off is ever taken for it (S_WAIT_RESP takes
\* the next response whoever it is for).
THEOREM RightAnswer == ASSUME Timing PROVE Spec => []AnswersTheLastRequest
<1>1. Exact => AnswersTheLastRequest
  <2> DEFINE shown == Dtm!data_o(fi_mode_active_q)
  <2> SUFFICES ASSUME Exact, fi_mode_active_q, last # NoWord,
                      shown # [Zero EXCEPT !.op = Dtm!RESP_BUSY]
               PROVE  shown \in {Regs!Answer(last, fi_mode_active_q, live) : live \in 0..1}
    BY DEF AnswersTheLastRequest
  <2>1. ~stick_busy_q /\ state_q = "S_IDLE" /\ shown = dtm_data_q
    BY DEF Dtm!data_o, Dtm!busy_now_w
  <2>2. fi_mode_active_q = TRUE
    BY Zenon DEF Exact, Timely, Crossings
  <2>3. dtm_data_q \in Answers
    BY <2>1 DEF Exact, Words
  <2> QED BY <2>1, <2>2, <2>3 DEF Answers
<1> QED BY <1>1, ExactHolds, PTL

\* Every accepted request is carried out once and in order: with nothing under
\* way the registers are what the accepted requests make of them.
THEOREM CarriedOutOnce == ASSUME Timing PROVE Spec => []EachRequestOnce
<1>1. Exact => EachRequestOnce
  BY DEF Exact, Registered, Pending, EachRequestOnce, Dtm!dtm_idle_o
<1> QED BY <1>1, ExactHolds, PTL

\* Out of FI mode the host's traffic to the DUT changes no FI register
\* (passive_entry_trigger_w lets only the request to enter through).
THEOREM PassiveWhenTransparent == ASSUME Timing PROVE Spec => TransparentIsPassive
<1>1. Exact /\ [Next]_vars =>
        [~fi_mode_active_q /\ ~fi_mode_active_q' => Registers' = Registers]_vars
  <2> SUFFICES ASSUME Exact, [Next]_vars, ~fi_mode_active_q PROVE Registers' = Registers
    OBVIOUS
  <2>1. state_q # "S_WAIT_RESP" /\ RATIO > 0
    BY DEF Exact, Timely, Turns, Timing
  <2>2. CASE Trst
    BY <2>2, Zenon DEF Trst, Regs!Still, Registers
  <2>3. ASSUME NEW t \in BOOLEAN, NEW a \in BOOLEAN, TckSide(t), AonSide(a)
        PROVE  Registers' = Registers
    BY <2>1, <2>3, RegistersMove
  <2> QED BY <2>2, <2>3, StepCases, Zenon
<1> QED BY <1>1, ExactHolds, PTL DEF Spec, TransparentIsPassive
=============================================================================
