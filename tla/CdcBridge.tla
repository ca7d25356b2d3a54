------------------------------- MODULE CdcBridge -------------------------------
(***************************************************************************)
(* One clock-domain crossing between a source and a destination that offer *)
(* and take items whenever they like, on clocks of any ratio and phase,    *)
(* with the shared reset (the AON reset or TRST) at any time.              *)
(***************************************************************************)
EXTENDS Integers, Sequences

CONSTANTS
  Data,      \* what is sent across
  NoData     \* the data registers' reset value

ASSUME DataAssumption == NoData \notin Data

VARIABLES
  src_data_hold_q, src_toggle_q, src_busy_q,
  dst_toggle_src1_q, dst_toggle_src2_q, dst_toggle_src3_q,
  dst_data_o, dst_valid_o, dst_toggle_q,
  src_toggle_dst1_q, src_toggle_dst2_q, src_toggle_dst3_q,
  taken,     \* history: the item the destination took last
  epoch      \* history: flips with every reset

Cdc == INSTANCE Cdc2Phase

vars == <<src_data_hold_q, src_toggle_q, src_busy_q,
          dst_toggle_src1_q, dst_toggle_src2_q, dst_toggle_src3_q,
          dst_data_o, dst_valid_o, dst_toggle_q,
          src_toggle_dst1_q, src_toggle_dst2_q, src_toggle_dst3_q, taken, epoch>>

Init == Cdc!Init /\ taken = NoData /\ epoch = 0

Src == \E valid \in BOOLEAN, d \in Data : Cdc!SrcEdge(valid, d)
Dst(ready) ==
  /\ Cdc!DstEdge(ready)
  /\ taken' = IF dst_valid_o /\ ready THEN dst_data_o ELSE taken

SrcOnly == Src /\ Cdc!DstStill /\ UNCHANGED <<taken, epoch>>
DstOnly == (\E ready \in BOOLEAN : Dst(ready)) /\ Cdc!SrcStill /\ UNCHANGED epoch
Both    == Src /\ (\E ready \in BOOLEAN : Dst(ready)) /\ UNCHANGED epoch
Reset   == Cdc!Reset /\ epoch' = 1 - epoch /\ UNCHANGED taken

Edges == SrcOnly \/ DstOnly \/ Both
Next  == Edges \/ Reset

Spec == Init /\ [][Next]_vars

\* Both clocks run, and a destination that is offered an item takes it.
DstTakes == dst_valid_o /\ Dst(TRUE) /\ Cdc!SrcStill /\ UNCHANGED epoch
FairSpec == Spec /\ WF_vars(SrcOnly) /\ WF_vars(DstOnly) /\ WF_vars(DstTakes)

-----------------------------------------------------------------------------
(* Properties. *)

Bit == {0, 1}
TypeOK ==
  /\ src_data_hold_q \in Data \union {NoData} /\ dst_data_o \in Data \union {NoData}
  /\ taken \in Data \union {NoData}
  /\ epoch \in Bit
  /\ src_busy_q \in BOOLEAN /\ dst_valid_o \in BOOLEAN
  /\ src_toggle_q \in Bit /\ dst_toggle_q \in Bit
  /\ dst_toggle_src1_q \in Bit /\ dst_toggle_src2_q \in Bit /\ dst_toggle_src3_q \in Bit
  /\ src_toggle_dst1_q \in Bit /\ src_toggle_dst2_q \in Bit /\ src_toggle_dst3_q \in Bit

\* The bridge is a one-place hand-off: an item is on its way from its acceptance
\* until the destination has answered with its toggle.
Abstract == INSTANCE HandOff WITH
              place <- IF Cdc!InFlight THEN <<src_data_hold_q>> ELSE <<>>
ExactlyOnce == Abstract!Spec

\* The data bits cross without synchronisers of their own: on the edge on which
\* the destination captures them they are not changing.
StableCapture ==
  [][~dst_valid_o /\ dst_valid_o' => src_data_hold_q' = src_data_hold_q]_vars

\* Where the two toggles and their synchronisers can be.  Without it the
\* hand-off is not inductive: a busy source whose item was already taken must
\* not see a second request arrive.
Handshake == Cdc!Handshake

\* An accepted item is delivered, or dropped by a reset, and the source is free for
\* the next one.
Delivered == src_busy_q ~> ~src_busy_q
=============================================================================
