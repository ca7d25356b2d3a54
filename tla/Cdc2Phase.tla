------------------------------- MODULE Cdc2Phase -------------------------------
(***************************************************************************)
(* The two-phase clock-domain crossing of rtl/fi_transporter.v             *)
(* (fi_cdc_2phase_v6).  SrcEdge and DstEdge are one rising edge of the two *)
(* clocks; each writes its own side's registers only, so a composition may *)
(* let one edge, or both at once, happen.  A flop that samples the other   *)
(* side's toggle while it changes may see either value: the edges in one   *)
(* order or the other, or together, are those outcomes.                    *)
(*                                                                         *)
(* Inputs are parameters: the source's valid and data, the destination's   *)
(* ready.                                                                  *)
(***************************************************************************)
EXTENDS Integers

CONSTANT NoData    \* what the data registers hold after a reset

VARIABLES
  src_data_hold_q, src_toggle_q, src_busy_q,
  dst_toggle_src1_q, dst_toggle_src2_q, dst_toggle_src3_q,
  dst_data_o, dst_valid_o, dst_toggle_q,
  src_toggle_dst1_q, src_toggle_dst2_q, src_toggle_dst3_q

SrcStill == UNCHANGED <<src_data_hold_q, src_toggle_q, src_busy_q,
                        dst_toggle_src1_q, dst_toggle_src2_q, dst_toggle_src3_q>>
DstStill == UNCHANGED <<dst_data_o, dst_valid_o, dst_toggle_q,
                        src_toggle_dst1_q, src_toggle_dst2_q, src_toggle_dst3_q>>

src_ready_o == ~src_busy_q

Init ==
  /\ src_data_hold_q = NoData /\ src_toggle_q = 0 /\ src_busy_q = FALSE
  /\ dst_toggle_src1_q = 0 /\ dst_toggle_src2_q = 0 /\ dst_toggle_src3_q = 0
  /\ dst_data_o = NoData /\ dst_valid_o = FALSE /\ dst_toggle_q = 0
  /\ src_toggle_dst1_q = 0 /\ src_toggle_dst2_q = 0 /\ src_toggle_dst3_q = 0

-----------------------------------------------------------------------------
(* The source's clock. *)

SyncAck ==
  /\ dst_toggle_src1_q' = dst_toggle_q
  /\ dst_toggle_src2_q' = dst_toggle_src1_q
  /\ dst_toggle_src3_q' = dst_toggle_src2_q

flip(t) == 1 - t

\* The acknowledgement has come through: a change, seen for one cycle.
acked == dst_toggle_src2_q # dst_toggle_src3_q

Accept(valid, data) ==
  /\ SyncAck
  /\ valid /\ ~src_busy_q
  /\ src_data_hold_q' = data
  /\ src_toggle_q' = flip(src_toggle_q)
  /\ src_busy_q' = TRUE

\* Nothing is accepted; an acknowledgement frees the bridge.
Hold_Mutant(valid) ==
  /\ SyncAck
  /\ ~valid \/ src_busy_q
  /\ UNCHANGED <<src_busy_q, src_data_hold_q, src_toggle_q>>
Hold(valid) ==
  /\ SyncAck
  /\ ~valid \/ src_busy_q
  /\ src_busy_q' = (src_busy_q /\ ~acked)
  /\ UNCHANGED <<src_data_hold_q, src_toggle_q>>

SrcEdge(valid, data) == Accept(valid, data) \/ Hold(valid)

-----------------------------------------------------------------------------
(* The destination's clock. *)

SyncRequest ==
  /\ src_toggle_dst1_q' = src_toggle_q
  /\ src_toggle_dst2_q' = src_toggle_dst1_q
  /\ src_toggle_dst3_q' = src_toggle_dst2_q

arrived_Mutant == src_toggle_q # src_toggle_dst1_q
arrived == src_toggle_dst2_q # src_toggle_dst3_q

Capture ==
  /\ SyncRequest
  /\ ~dst_valid_o /\ arrived
  /\ dst_data_o' = src_data_hold_q
  /\ dst_valid_o' = TRUE
  /\ UNCHANGED dst_toggle_q

Consume_Mutant(ready) ==
  /\ SyncRequest
  /\ dst_valid_o /\ ready
  /\ dst_valid_o' = FALSE
  /\ UNCHANGED <<dst_data_o, dst_toggle_q>>
Consume(ready) ==
  /\ SyncRequest
  /\ dst_valid_o /\ ready
  /\ dst_valid_o' = FALSE
  /\ dst_toggle_q' = src_toggle_dst2_q
  /\ UNCHANGED dst_data_o

DstWait(ready) ==
  /\ SyncRequest
  /\ IF dst_valid_o THEN ~ready ELSE ~arrived
  /\ UNCHANGED <<dst_data_o, dst_valid_o, dst_toggle_q>>

DstEdge(ready) == Capture \/ Consume(ready) \/ DstWait(ready)

-----------------------------------------------------------------------------
\* The shared asynchronous reset: both halves together.
Reset ==
  /\ src_data_hold_q' = NoData /\ src_toggle_q' = 0 /\ src_busy_q' = FALSE
  /\ dst_toggle_src1_q' = 0 /\ dst_toggle_src2_q' = 0 /\ dst_toggle_src3_q' = 0
  /\ dst_data_o' = NoData /\ dst_valid_o' = FALSE /\ dst_toggle_q' = 0
  /\ src_toggle_dst1_q' = 0 /\ src_toggle_dst2_q' = 0 /\ src_toggle_dst3_q' = 0

-----------------------------------------------------------------------------
(* Where the two toggles and their six synchroniser flops can be, for the  *)
(* invariants of a specification that uses the crossing.                   *)

Flops ==
  /\ src_busy_q \in BOOLEAN /\ dst_valid_o \in BOOLEAN
  /\ src_toggle_q \in {0, 1} /\ dst_toggle_q \in {0, 1}
  /\ dst_toggle_src1_q \in {0, 1} /\ dst_toggle_src2_q \in {0, 1} /\ dst_toggle_src3_q \in {0, 1}
  /\ src_toggle_dst1_q \in {0, 1} /\ src_toggle_dst2_q \in {0, 1} /\ src_toggle_dst3_q \in {0, 1}

\* An item is under way from its acceptance until the destination takes it.
InFlight == src_toggle_q # dst_toggle_q

SrcIdle ==
  /\ ~InFlight
  /\ dst_toggle_src1_q = dst_toggle_q /\ dst_toggle_src2_q = dst_toggle_q
  /\ dst_toggle_src3_q = dst_toggle_q
  /\ src_toggle_dst1_q = src_toggle_q /\ src_toggle_dst2_q = src_toggle_q
  /\ src_toggle_dst3_q = src_toggle_q
  /\ ~dst_valid_o
Underway ==
  /\ InFlight
  /\ dst_toggle_src1_q = dst_toggle_q /\ dst_toggle_src2_q = dst_toggle_q
  /\ dst_toggle_src3_q = dst_toggle_q
  /\ src_toggle_dst2_q = src_toggle_q => src_toggle_dst1_q = src_toggle_q
  /\ src_toggle_dst3_q = src_toggle_q => src_toggle_dst2_q = src_toggle_q
  /\ dst_valid_o <=> src_toggle_dst3_q = src_toggle_q
  /\ dst_valid_o => dst_data_o = src_data_hold_q
Answered ==
  /\ ~InFlight
  /\ src_toggle_dst1_q = src_toggle_q /\ src_toggle_dst2_q = src_toggle_q
  /\ src_toggle_dst3_q = src_toggle_q
  /\ dst_toggle_src2_q = dst_toggle_q => dst_toggle_src1_q = dst_toggle_q
  /\ dst_toggle_src3_q # dst_toggle_q
  /\ ~dst_valid_o
Handshake == IF src_busy_q THEN Underway \/ Answered ELSE SrcIdle

\* The edges of the destination's clock, with the destination ready, after
\* which the item under way has been taken.
ToTake ==
  IF dst_valid_o THEN 1
  ELSE IF src_toggle_dst2_q = src_toggle_q THEN 2
  ELSE IF src_toggle_dst1_q = src_toggle_q THEN 3
  ELSE 4

\* The edges of the source's clock after which a source whose item was taken
\* is free again.
ToFree ==
  IF dst_toggle_src2_q = dst_toggle_q THEN 1
  ELSE IF dst_toggle_src1_q = dst_toggle_q THEN 2
  ELSE 3
=============================================================================
