---------------------------- MODULE CdcBridgeProofs ----------------------------
(***************************************************************************)
(* The clock-domain crossing hands every item over exactly once, for every *)
(* set of data and every interleaving of the two clocks and of resets.     *)
(* The inductive invariant is TypeOK /\ Handshake: where the two toggles   *)
(* and the six synchroniser flops can be in each stage of a hand-off.      *)
(***************************************************************************)
EXTENDS CdcBridge, TLAPS

\* What single edges do, from the crossing's own lemmas.
Lem == INSTANCE Cdc2PhaseProofs

IInv == TypeOK /\ Handshake

\* The lemmas speak of the same handshake and of the same edges.
LEMMA SameHandshake ==
  /\ Handshake <=> Lem!Handshake
  /\ TypeOK => Lem!Flops
  /\ Cdc!InFlight <=> Lem!InFlight
  BY DEF Handshake, Cdc!Handshake, Cdc!SrcIdle, Cdc!Underway, Cdc!Answered, Cdc!InFlight,
         Lem!Handshake, Lem!SrcIdle, Lem!Underway, Lem!Answered, Lem!InFlight,
         TypeOK, Bit, Lem!Flops

\* The same in the next state.
LEMMA SameHandshakeNext ==
  /\ Handshake' <=> Lem!Handshake'
  /\ Cdc!InFlight' <=> Lem!InFlight'
  BY DEF Handshake, Cdc!Handshake, Cdc!SrcIdle, Cdc!Underway, Cdc!Answered, Cdc!InFlight,
         Lem!Handshake, Lem!SrcIdle, Lem!Underway, Lem!Answered, Lem!InFlight

\* The two instances' edges, resets and initial states are the same.
LEMMA SameEdges ==
  /\ \A valid, d : Cdc!SrcEdge(valid, d) <=> Lem!SrcEdge(valid, d)
  /\ \A ready : Cdc!DstEdge(ready) <=> Lem!DstEdge(ready)
  /\ Cdc!SrcStill <=> Lem!SrcStill
  /\ Cdc!DstStill <=> Lem!DstStill
  /\ Cdc!Reset <=> Lem!Reset
  /\ Cdc!Init <=> Lem!Init
  BY DEF Cdc!SrcEdge, Cdc!Accept, Cdc!Hold, Cdc!SyncAck, Cdc!flip, Cdc!acked,
         Lem!SrcEdge, Lem!Accept, Lem!Hold, Lem!SyncAck, Lem!flip, Lem!acked,
         Cdc!DstEdge, Cdc!Capture, Cdc!Consume, Cdc!DstWait, Cdc!SyncRequest, Cdc!arrived,
         Lem!DstEdge, Lem!Capture, Lem!Consume, Lem!DstWait, Lem!SyncRequest, Lem!arrived,
         Cdc!SrcStill, Lem!SrcStill, Cdc!DstStill, Lem!DstStill, Cdc!Reset, Lem!Reset,
         Cdc!Init, Lem!Init

(***************************************************************************)
(* Types: each side's edge keeps its own registers typed.                  *)
(***************************************************************************)
SrcTypes ==
  /\ src_data_hold_q \in Data \union {NoData} /\ src_busy_q \in BOOLEAN
  /\ src_toggle_q \in Bit
  /\ dst_toggle_src1_q \in Bit /\ dst_toggle_src2_q \in Bit /\ dst_toggle_src3_q \in Bit
DstTypes ==
  /\ dst_data_o \in Data \union {NoData} /\ dst_valid_o \in BOOLEAN
  /\ dst_toggle_q \in Bit
  /\ src_toggle_dst1_q \in Bit /\ src_toggle_dst2_q \in Bit /\ src_toggle_dst3_q \in Bit
HistTypes == taken \in Data \union {NoData} /\ epoch \in Bit

\* TypeOK is the three groups of types together.
LEMMA TypeParts == TypeOK <=> SrcTypes /\ DstTypes /\ HistTypes
  BY DEF TypeOK, SrcTypes, DstTypes, HistTypes

\* The same in the next state.
LEMMA TypePartsNext == TypeOK' <=> SrcTypes' /\ DstTypes' /\ HistTypes'
  BY DEF TypeOK, SrcTypes, DstTypes, HistTypes

\* The reset values are typed.
LEMMA TypeInit == Init => TypeOK
  BY DEF Init, Cdc!Init, TypeOK, Bit

\* An edge of the source's clock keeps the source's registers typed.
LEMMA SrcTyped == TypeOK /\ Src => SrcTypes'
<1> SUFFICES ASSUME TypeOK, NEW valid \in BOOLEAN, NEW d \in Data, Cdc!SrcEdge(valid, d)
             PROVE  SrcTypes'
  BY DEF Src
<1>1. Cdc!SyncAck BY DEF Cdc!SrcEdge, Cdc!Accept, Cdc!Hold
<1>2. (dst_toggle_src1_q \in Bit /\ dst_toggle_src2_q \in Bit /\ dst_toggle_src3_q \in Bit)'
  BY <1>1 DEF Cdc!SyncAck, TypeOK
<1>3. src_busy_q' \in BOOLEAN
  BY DEF Cdc!SrcEdge, Cdc!Accept, Cdc!Hold, TypeOK
<1>4. src_data_hold_q' \in Data \union {NoData}
  BY DEF Cdc!SrcEdge, Cdc!Accept, Cdc!Hold, TypeOK
<1>5. src_toggle_q' \in Bit
  BY DEF Cdc!SrcEdge, Cdc!Accept, Cdc!Hold, Cdc!flip, TypeOK, Bit
<1> QED BY <1>2, <1>3, <1>4, <1>5 DEF SrcTypes

\* An edge of the destination's clock keeps its registers and the history typed.
LEMMA DstTyped ==
  ASSUME TypeOK, NEW ready \in BOOLEAN, Dst(ready)
  PROVE  DstTypes' /\ (taken \in Data \union {NoData})'
<1>1. Cdc!SyncRequest BY DEF Dst, Cdc!DstEdge, Cdc!Capture, Cdc!Consume, Cdc!DstWait
<1>2. (src_toggle_dst1_q \in Bit /\ src_toggle_dst2_q \in Bit /\ src_toggle_dst3_q \in Bit)'
  BY <1>1 DEF Cdc!SyncRequest, TypeOK
<1>3. dst_valid_o' \in BOOLEAN
  BY DEF Dst, Cdc!DstEdge, Cdc!Capture, Cdc!Consume, Cdc!DstWait, TypeOK
<1>4. dst_data_o' \in Data \union {NoData}
  BY DEF Dst, Cdc!DstEdge, Cdc!Capture, Cdc!Consume, Cdc!DstWait, TypeOK
<1>5. dst_toggle_q' \in Bit
  BY DEF Dst, Cdc!DstEdge, Cdc!Capture, Cdc!Consume, Cdc!DstWait, TypeOK
<1>6. (taken \in Data \union {NoData})'
  BY DEF Dst, TypeOK
<1> QED BY <1>2, <1>3, <1>4, <1>5, <1>6 DEF DstTypes

\* A side whose clock stands still keeps its registers.
LEMMA StillTyped ==
  /\ TypeOK /\ Cdc!SrcStill => SrcTypes'
  /\ TypeOK /\ Cdc!DstStill => DstTypes'
  BY DEF TypeOK, SrcTypes, DstTypes, Cdc!SrcStill, Cdc!DstStill

\* The reset leaves typed registers behind.
LEMMA ResetTyped == TypeOK /\ Reset => TypeOK'
<1> SUFFICES ASSUME TypeOK, Reset PROVE TypeOK'
  OBVIOUS
<1>1. SrcTypes' /\ DstTypes' BY Zenon DEF Reset, Cdc!Reset, Bit, SrcTypes, DstTypes
<1>2. HistTypes' BY DEF Reset, HistTypes, TypeOK, Bit
<1> QED BY <1>1, <1>2, TypePartsNext

\* Every step keeps the types.
LEMMA TypeStep == TypeOK /\ [Next]_vars => TypeOK'
<1> SUFFICES ASSUME TypeOK, [Next]_vars PROVE TypeOK'
  OBVIOUS
<1>1. CASE SrcOnly
  <2>1. SrcTypes' BY <1>1, SrcTyped DEF SrcOnly
  <2>2. DstTypes' BY <1>1, StillTyped DEF SrcOnly
  <2>3. HistTypes' BY <1>1 DEF SrcOnly, HistTypes, TypeOK
  <2> QED BY <2>1, <2>2, <2>3, TypePartsNext
<1>2. CASE DstOnly
  <2>1. SrcTypes' BY <1>2, StillTyped DEF DstOnly
  <2>2. DstTypes' /\ (taken \in Data \union {NoData})' BY <1>2, DstTyped DEF DstOnly
  <2>3. HistTypes' BY <1>2, <2>2 DEF DstOnly, HistTypes, TypeOK
  <2> QED BY <2>1, <2>2, <2>3, TypePartsNext
<1>3. CASE Both
  <2>1. SrcTypes' BY <1>3, SrcTyped DEF Both
  <2>2. DstTypes' /\ (taken \in Data \union {NoData})' BY <1>3, DstTyped DEF Both
  <2>3. HistTypes' BY <1>3, <2>2 DEF Both, HistTypes, TypeOK
  <2> QED BY <2>1, <2>2, <2>3, TypePartsNext
<1>4. CASE Reset BY <1>4, ResetTyped
<1>5. CASE UNCHANGED vars BY <1>5 DEF vars, TypeOK
<1> QED BY <1>1, <1>2, <1>3, <1>4, <1>5 DEF Next, Edges

-----------------------------------------------------------------------------
(* The handshake. *)

\* What each clock did in a step: the source accepted an item of Data, or none;
\* the history follows what the destination took.
SrcSide(d) == Lem!SrcDid(d) /\ (Lem!Accepts(d) => d \in Data)
DstSide    == Lem!DstDid /\ taken' = IF Lem!Takes THEN dst_data_o ELSE taken

\* An edge of the source's clock is one of the crossing's source steps.
LEMMA SrcDoes ==
  ASSUME TypeOK, Src
  PROVE  \E d : SrcSide(d)
<1>1. PICK valid \in BOOLEAN, d \in Data : Lem!SrcEdge(valid, d)
  BY SameEdges DEF Src
<1>2. Lem!SyncAck /\ (Lem!Accepts(d) \/ Lem!Frees \/ Lem!Rests)
  BY <1>1, SameHandshake, Lem!SrcCases, Zenon
<1>3. Lem!SrcDid(d)
  BY <1>2, Zenon DEF Lem!SrcDid
<1> QED BY <1>3 DEF SrcSide

\* An edge of the destination's clock is one of its destination steps.
LEMMA DstDoes ==
  ASSUME TypeOK, NEW ready \in BOOLEAN, Dst(ready)
  PROVE  DstSide
<1>1. Lem!DstEdge(ready) /\ taken' = IF dst_valid_o /\ ready THEN dst_data_o ELSE taken
  BY SameEdges DEF Dst
<1>2. /\ Lem!SyncRequest
      /\ dst_valid_o /\ ready => Lem!Takes
      /\ ~(dst_valid_o /\ ready) => Lem!Captures \/ Lem!Waits
  BY <1>1, SameHandshake, Lem!DstCases, Zenon
<1>3. Lem!DstDid
  BY <1>2, Zenon DEF Lem!DstDid
<1>4. ~(dst_valid_o /\ ready) => ~Lem!Takes
  BY <1>2, Zenon DEF Lem!Captures, Lem!Waits, Lem!Takes
<1> QED BY <1>1, <1>2, <1>3, <1>4, Zenon DEF DstSide

\* A clock that stands still.
LEMMA StillDoes ==
  /\ Cdc!SrcStill => \E d : SrcSide(d)
  /\ TypeOK /\ Cdc!DstStill /\ UNCHANGED taken => DstSide
<1>1. ASSUME Cdc!SrcStill PROVE SrcSide(NoData)
  <2>1. Lem!SrcStill BY <1>1, SameEdges
  <2>2. ~Lem!Accepts(NoData) BY <2>1, Zenon DEF Lem!SrcStill, Lem!Accepts
  <2> QED BY <2>1, <2>2, Zenon DEF SrcSide, Lem!SrcDid
<1>2. ASSUME Cdc!DstStill, UNCHANGED taken PROVE DstSide
  <2>1. Lem!DstStill BY <1>2, SameEdges
  <2>2. ~Lem!Takes BY <2>1, Zenon DEF Lem!DstStill, Lem!Takes
  <2> QED BY <1>2, <2>1, <2>2, Zenon DEF DstSide, Lem!DstDid
<1> QED BY <1>1, <1>2

\* Every step is the two clocks' edges, or none of them, or a reset.
LEMMA StepCases ==
  ASSUME TypeOK, [Next]_vars
  PROVE  \/ (\E d : SrcSide(d)) /\ DstSide /\ UNCHANGED epoch
         \/ Reset
<1>1. CASE SrcOnly BY <1>1, SrcDoes, StillDoes, Zenon DEF SrcOnly
<1>2. CASE DstOnly
  <2>1. DstSide BY <1>2, DstDoes DEF DstOnly
  <2> QED BY <1>2, <2>1, StillDoes, Zenon DEF DstOnly
<1>3. CASE Both
  <2>1. DstSide BY <1>3, DstDoes DEF Both
  <2> QED BY <1>3, <2>1, SrcDoes, Zenon DEF Both
<1>4. CASE UNCHANGED vars
  <2>1. Cdc!SrcStill /\ Cdc!DstStill /\ UNCHANGED <<taken, epoch>>
    BY <1>4, Zenon DEF vars, Cdc!SrcStill, Cdc!DstStill
  <2> QED BY <2>1, StillDoes, Zenon
<1> QED BY <1>1, <1>2, <1>3, <1>4 DEF Next, Edges

\* Every step keeps the handshake.
LEMMA HandshakeStep == IInv /\ [Next]_vars => Handshake'
<1> SUFFICES ASSUME IInv, [Next]_vars PROVE Handshake'
  OBVIOUS
<1>1. ASSUME NEW d, SrcSide(d), DstSide PROVE Handshake'
  BY <1>1, SameHandshake, SameHandshakeNext, Lem!HandshakeKept, Zenon
     DEF IInv, SrcSide, DstSide
<1>2. CASE Reset
  BY <1>2, SameEdges, SameHandshakeNext, Lem!AfterReset, Zenon DEF Reset
<1> QED BY <1>1, <1>2, StepCases, Zenon DEF IInv

\* The types and the handshake hold in every reachable state of the crossing
\* (both always blocks of fi_cdc_2phase_v6 and its resets).
THEOREM HandshakeHolds == Spec => [](TypeOK /\ Handshake)
<1>1. Init => IInv
  BY TypeInit, SameEdges, SameHandshake, Lem!AfterReset, Zenon DEF Init, IInv
<1>2. IInv /\ [Next]_vars => IInv'
  BY TypeStep, HandshakeStep DEF IInv
<1> QED BY <1>1, <1>2, PTL DEF Spec, IInv

\* The data bits are not changing on the edge that captures them
\* (dst_data_o <= src_data_hold_q, which has no synchroniser).
THEOREM CaptureIsStable == Spec => StableCapture
<1> DEFINE Stable == ~dst_valid_o /\ dst_valid_o' => src_data_hold_q' = src_data_hold_q
<1>1. TypeOK /\ Handshake /\ [Next]_vars => [Stable]_vars
  <2> SUFFICES ASSUME TypeOK, Handshake, [Next]_vars, ~dst_valid_o, dst_valid_o'
               PROVE  src_data_hold_q' = src_data_hold_q
    OBVIOUS
  <2>1. Lem!Flops /\ Lem!Handshake BY SameHandshake
  <2>2. ASSUME NEW d, SrcSide(d), DstSide PROVE src_data_hold_q' = src_data_hold_q
    <3>1. Lem!InFlight
      BY <2>1, <2>2, Lem!FromEmpty, Zenon DEF SrcSide, DstSide
    <3> QED BY <2>1, <2>2, <3>1, Lem!FromInFlight, Zenon DEF SrcSide, DstSide
  <2>3. CASE Reset BY <2>3, Zenon DEF Reset, Cdc!Reset
  <2> QED BY <2>2, <2>3, StepCases, Zenon
<1> QED BY <1>1, HandshakeHolds, PTL DEF Spec, StableCapture

-----------------------------------------------------------------------------
(* Refinement: the crossing is a one-place hand-off. *)

\* An acceptance puts the item in, a consumption takes it out, a reset empties
\* the place, and every other edge of either clock is a stutter.
LEMMA HandOffStep ==
  ASSUME TypeOK, Handshake, [Next]_vars
  PROVE  [Abstract!Next]_(Abstract!vars)
<1>1. Lem!Flops /\ Lem!Handshake BY SameHandshake
<1>2. ASSUME NEW d, SrcSide(d), DstSide, UNCHANGED epoch, ~Cdc!InFlight
      PROVE  [Abstract!Next]_(Abstract!vars)
  <2>1. ~Lem!Takes /\ taken' = taken
    BY <1>1, <1>2, SameHandshake, Lem!StageFacts, Zenon DEF DstSide, Lem!Takes
  <2>2. CASE Lem!SyncAck /\ Lem!Accepts(d)
    <3>1. Cdc!InFlight' /\ src_data_hold_q' = d /\ d \in Data
      BY <1>1, <1>2, <2>2, SameHandshake, SameHandshakeNext, Lem!FromEmpty, Zenon
         DEF SrcSide, DstSide
    <3>2. Abstract!Put(d) BY <1>2, <2>1, <3>1 DEF Abstract!Put
    <3> QED BY <3>1, <3>2 DEF Abstract!Next
  <2>3. CASE ~(Lem!SyncAck /\ Lem!Accepts(d))
    <3>1. ~Cdc!InFlight'
      BY <1>1, <1>2, <2>3, SameHandshake, SameHandshakeNext, Lem!FromEmpty, Zenon
         DEF SrcSide, DstSide
    <3> QED BY <1>2, <2>1, <3>1 DEF Abstract!vars
  <2> QED BY <2>2, <2>3
<1>3. ASSUME NEW d, SrcSide(d), DstSide, UNCHANGED epoch, Cdc!InFlight
      PROVE  [Abstract!Next]_(Abstract!vars)
  <2>1. src_data_hold_q' = src_data_hold_q
    BY <1>1, <1>3, SameHandshake, Lem!FromInFlight, Zenon DEF SrcSide, DstSide
  <2>2. CASE Lem!Takes
    <3>1. Lem!SyncRequest
      BY <1>3, <2>2, Zenon DEF DstSide, Lem!DstDid, Lem!Takes, Lem!DstStill
    <3>2. ~Cdc!InFlight'
      BY <1>1, <1>3, <2>2, <3>1, SameHandshake, SameHandshakeNext, Lem!FromInFlight, Zenon
         DEF SrcSide, DstSide
    <3>3. taken' = src_data_hold_q
      BY <1>1, <1>3, <2>2, Lem!StageFacts, Zenon DEF DstSide, Lem!Takes
    <3>4. Abstract!Take BY <1>3, <3>2, <3>3 DEF Abstract!Take
    <3> QED BY <3>4 DEF Abstract!Next
  <2>3. CASE ~Lem!Takes
    <3>1. dst_toggle_q' = dst_toggle_q /\ taken' = taken
      BY <1>3, <2>3, Zenon DEF DstSide, Lem!DstDid, Lem!Captures, Lem!Waits, Lem!DstStill
    <3>2. src_toggle_q' = src_toggle_q
      BY <1>1, <1>3, SameHandshake, Lem!StageFacts, Zenon
         DEF SrcSide, Lem!SrcDid, Lem!Accepts, Lem!Frees, Lem!Rests, Lem!SrcStill
    <3> QED BY <1>3, <2>1, <3>1, <3>2 DEF Abstract!vars, Cdc!InFlight
  <2> QED BY <2>2, <2>3
<1>4. CASE Reset
  <2>1. ~Cdc!InFlight'
    BY <1>4, SameEdges, SameHandshakeNext, Lem!AfterReset, Zenon DEF Reset
  <2>2. Abstract!Abort BY <1>4, <2>1 DEF Reset, Abstract!Abort
  <2> QED BY <2>2 DEF Abstract!Next
<1> QED BY <1>2, <1>3, <1>4, StepCases, Zenon

\* Every item the source accepts is taken by the destination exactly once, in
\* order and unchanged, unless a reset drops it (fi_cdc_2phase_v6, used for the
\* DMI requests and for their responses).
THEOREM HandedOverOnce == Spec => ExactlyOnce
<1>1. Init => Abstract!Init
  <2> SUFFICES ASSUME Init PROVE Abstract!Init OBVIOUS
  <2>1. ~Cdc!InFlight
    BY SameEdges, SameHandshake, Lem!AfterReset, Zenon DEF Init
  <2> QED BY <2>1, DataAssumption DEF Init, Abstract!Init
<1>2. TypeOK /\ Handshake /\ [Next]_vars => [Abstract!Next]_(Abstract!vars)
  BY HandOffStep
<1> QED BY <1>1, <1>2, HandshakeHolds, PTL DEF Spec, Abstract!Spec, ExactlyOnce
=============================================================================
