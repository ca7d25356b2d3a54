---------------------------- MODULE Cdc2PhaseProofs ----------------------------
(***************************************************************************)
(* What one edge of either clock, or of both at once, does to a crossing.  *)
(* The specifications that use the crossing instantiate these lemmas.      *)
(***************************************************************************)
EXTENDS Cdc2Phase, TLAPS

\* An edge of the source's clock accepts an item, learns that the last one
\* was taken, or does neither.
Accepts(data) == ~src_busy_q /\ src_busy_q' = TRUE /\ src_toggle_q' = 1 - src_toggle_q
                   /\ src_data_hold_q' = data
Frees == src_busy_q /\ acked /\ src_busy_q' = FALSE
           /\ UNCHANGED <<src_toggle_q, src_data_hold_q>>
Rests == (src_busy_q => ~acked) /\ src_busy_q' = src_busy_q
           /\ UNCHANGED <<src_toggle_q, src_data_hold_q>>

\* An edge of the destination's clock captures an item, has it taken, or waits.
Captures == ~dst_valid_o /\ arrived /\ dst_valid_o' = TRUE /\ dst_data_o' = src_data_hold_q
              /\ UNCHANGED dst_toggle_q
Takes    == dst_valid_o /\ dst_valid_o' = FALSE /\ dst_toggle_q' = src_toggle_dst2_q
              /\ UNCHANGED dst_data_o
Waits    == (~dst_valid_o => ~arrived) /\ dst_valid_o' = dst_valid_o
              /\ UNCHANGED <<dst_data_o, dst_toggle_q>>

SrcDid(data) == (SyncAck /\ (Accepts(data) \/ Frees \/ Rests)) \/ SrcStill
DstDid == (SyncRequest /\ (Captures \/ Takes \/ Waits)) \/ DstStill

\* The source accepts exactly when it is offered an item and free.
LEMMA SrcCases ==
  ASSUME Flops, NEW valid \in BOOLEAN, NEW data, SrcEdge(valid, data)
  PROVE  /\ SyncAck
         /\ valid /\ ~src_busy_q => Accepts(data)
         /\ ~(valid /\ ~src_busy_q) => Frees \/ Rests
<1>1. CASE Accept(valid, data)
  BY <1>1 DEF Accept, flip, Accepts
<1>2. CASE Hold(valid)
  BY <1>2, Zenon DEF Hold, Frees, Rests, Flops
<1> QED BY <1>1, <1>2 DEF SrcEdge

\* The destination takes exactly when it has an item and is ready.
LEMMA DstCases ==
  ASSUME Flops, NEW ready \in BOOLEAN, DstEdge(ready)
  PROVE  /\ SyncRequest
         /\ dst_valid_o /\ ready => Takes
         /\ ~(dst_valid_o /\ ready) => Captures \/ Waits
<1>1. CASE Capture
  BY <1>1, Zenon DEF Capture, Captures
<1>2. CASE Consume(ready)
  BY <1>2, Zenon DEF Consume, Takes
<1>3. CASE DstWait(ready)
  BY <1>3, Zenon DEF DstWait, Waits
<1> QED BY <1>1, <1>2, <1>3 DEF DstEdge

\* The reset leaves the crossing empty, with Boolean flops.
LEMMA AfterReset ==
  /\ Init => Flops /\ Handshake /\ ~InFlight /\ ~src_busy_q /\ ~dst_valid_o
  /\ Reset => Flops' /\ Handshake' /\ ~InFlight' /\ ~src_busy_q' /\ ~dst_valid_o'
<1>1. ASSUME Init PROVE Flops /\ SrcIdle /\ ~src_busy_q
  BY <1>1 DEF Init, Flops, SrcIdle, InFlight
<1>2. ASSUME Reset PROVE Flops' /\ SrcIdle' /\ ~src_busy_q'
  BY <1>2 DEF Reset, Flops, SrcIdle, InFlight
<1> QED BY <1>1, <1>2, Zenon DEF Handshake, SrcIdle

\* Every edge keeps the flops Boolean.
LEMMA FlopsKept ==
  ASSUME Flops, NEW data, SrcDid(data), DstDid
  PROVE  Flops'
<1>1. src_busy_q' \in BOOLEAN /\ src_toggle_q' \in {0, 1}
  <2>1. src_busy_q' \in BOOLEAN
    BY Zenon DEF SrcDid, Accepts, Frees, Rests, SrcStill, Flops
  <2>2. src_toggle_q' \in {0, 1}
    BY DEF SrcDid, Accepts, Frees, Rests, SrcStill, Flops
  <2> QED BY <2>1, <2>2
<1>2. /\ dst_toggle_src1_q' \in {0, 1} /\ dst_toggle_src2_q' \in {0, 1}
      /\ dst_toggle_src3_q' \in {0, 1}
  BY DEF SrcDid, SyncAck, SrcStill, Flops
<1>3. dst_valid_o' \in BOOLEAN /\ dst_toggle_q' \in {0, 1}
  <2>1. dst_valid_o' \in BOOLEAN
    BY Zenon DEF DstDid, Captures, Takes, Waits, DstStill, Flops
  <2>2. dst_toggle_q' \in {0, 1}
    BY DEF DstDid, Captures, Takes, Waits, DstStill, Flops
  <2> QED BY <2>1, <2>2
<1>4. /\ src_toggle_dst1_q' \in {0, 1} /\ src_toggle_dst2_q' \in {0, 1}
      /\ src_toggle_dst3_q' \in {0, 1}
  BY DEF DstDid, SyncRequest, DstStill, Flops
<1> QED BY <1>1, <1>2, <1>3, <1>4 DEF Flops

-----------------------------------------------------------------------------
(* The handshake is kept. *)

\* An idle bridge stays idle, or has accepted an item.
LEMMA FromIdle ==
  ASSUME Flops, ~src_busy_q, SrcIdle, NEW data, SrcDid(data), DstDid
  PROVE  Handshake'
  BY DEF Flops, SrcIdle, Underway, Answered, InFlight, Handshake, SyncAck, SyncRequest,
         SrcStill, DstStill, SrcDid, DstDid, Accepts, Frees, Rests, Captures, Takes, Waits,
         acked, arrived

\* An item under way stays under way, or has been taken.
LEMMA FromUnderway ==
  ASSUME Flops, src_busy_q, Underway, NEW data, SrcDid(data), DstDid
  PROVE  Handshake'
<1>1. /\ src_busy_q' /\ UNCHANGED <<src_toggle_q, src_data_hold_q>>
      /\ dst_toggle_src1_q' = dst_toggle_q /\ dst_toggle_src2_q' = dst_toggle_q
      /\ dst_toggle_src3_q' = dst_toggle_q
  BY DEF Flops, Underway, SyncAck, SrcStill, SrcDid, Accepts, Frees, Rests, acked
<1>2. CASE SyncRequest /\ Takes
  <2>1. dst_toggle_q' = src_toggle_q /\ ~dst_valid_o' /\ src_toggle_dst1_q' = src_toggle_q
        /\ src_toggle_dst2_q' = src_toggle_q /\ src_toggle_dst3_q' = src_toggle_q
    BY <1>2 DEF Underway, Takes, SyncRequest
  <2>2. Answered'
    BY <1>1, <2>1 DEF Underway, Answered, InFlight
  <2> QED BY <1>1, <2>2, Zenon DEF Handshake
<1>3. CASE SyncRequest /\ Captures
  <2>1. Underway'
    BY <1>1, <1>3 DEF Flops, Underway, InFlight, Captures, SyncRequest, arrived
  <2> QED BY <1>1, <2>1, Zenon DEF Handshake
<1>4. CASE SyncRequest /\ Waits
  <2>1. Underway'
    BY <1>1, <1>4 DEF Flops, Underway, InFlight, Waits, SyncRequest, arrived
  <2> QED BY <1>1, <2>1, Zenon DEF Handshake
<1>5. CASE DstStill
  <2>1. Underway' BY <1>1, <1>5 DEF Underway, InFlight, DstStill
  <2> QED BY <1>1, <2>1, Zenon DEF Handshake
<1> QED BY <1>2, <1>3, <1>4, <1>5 DEF DstDid

\* An answer on its way stays on its way, or has freed the source.
LEMMA FromAnswered ==
  ASSUME Flops, src_busy_q, Answered, NEW data, SrcDid(data), DstDid
  PROVE  Handshake'
<1>1. /\ ~dst_valid_o' /\ dst_toggle_q' = dst_toggle_q
      /\ src_toggle_dst1_q' = src_toggle_q /\ src_toggle_dst2_q' = src_toggle_q
      /\ src_toggle_dst3_q' = src_toggle_q
  BY DEF Flops, Answered, InFlight, SyncRequest, DstStill, DstDid, Captures, Takes, Waits, arrived
<1>2. src_toggle_q' = src_toggle_q
  BY DEF SrcDid, SrcStill, Accepts, Frees, Rests
<1>3. CASE SyncAck /\ Frees
  <2>1. SrcIdle'
    BY <1>1, <1>2, <1>3 DEF Flops, Answered, InFlight, SrcIdle, Frees, SyncAck, acked
  <2> QED BY <1>3, <2>1, Zenon DEF Handshake, Frees
<1>4. CASE SyncAck /\ Rests
  <2>1. Answered'
    BY <1>1, <1>2, <1>4 DEF Flops, Answered, InFlight, Rests, SyncAck, acked
  <2> QED BY <1>4, <2>1, Zenon DEF Handshake, Rests
<1>5. CASE SrcStill
  <2>1. Answered' BY <1>1, <1>5 DEF Answered, InFlight, SrcStill
  <2>2. src_busy_q' BY <1>5, Zenon DEF SrcStill
  <2> QED BY <2>1, <2>2, Zenon DEF Handshake
<1> QED BY <1>3, <1>4, <1>5 DEF SrcDid, Accepts

\* Whatever the two clocks do, the crossing stays in one of its stages.
LEMMA HandshakeKept ==
  ASSUME Flops, Handshake, NEW data, SrcDid(data), DstDid
  PROVE  Flops' /\ Handshake'
<1>1. CASE src_busy_q /\ Underway BY <1>1, FromUnderway, FlopsKept
<1>2. CASE src_busy_q /\ Answered BY <1>2, FromAnswered, FlopsKept
<1>3. CASE ~src_busy_q /\ SrcIdle BY <1>3, FromIdle, FlopsKept
<1> QED BY <1>1, <1>2, <1>3, Zenon DEF Handshake

-----------------------------------------------------------------------------
(* How far a hand-off is. *)

\* What the stages say of the two interfaces.
LEMMA StageFacts ==
  ASSUME Flops, Handshake
  PROVE  /\ InFlight => src_busy_q
         /\ dst_valid_o => InFlight /\ dst_data_o = src_data_hold_q
         /\ ToTake \in 1 .. 4 /\ ToFree \in 1 .. 3
         /\ InFlight /\ ToTake = 1 => dst_valid_o
<1>1. InFlight => src_busy_q /\ Underway
  BY Zenon DEF Handshake, SrcIdle, Answered
<1>2. dst_valid_o => InFlight /\ dst_data_o = src_data_hold_q
  BY Zenon DEF Handshake, SrcIdle, Answered, Underway
<1>3. ToTake \in 1 .. 4 /\ ToFree \in 1 .. 3 /\ (ToTake = 1 => dst_valid_o)
  BY DEF ToTake, ToFree
<1> QED BY <1>1, <1>2, <1>3

\* An empty crossing: only an acceptance puts an item under way, with all of
\* the way before it.
LEMMA FromEmpty ==
  ASSUME Flops, Handshake, ~InFlight, NEW data, SrcDid(data), DstDid
  PROVE  /\ ~dst_valid_o' /\ dst_toggle_q' = dst_toggle_q
         /\ SyncAck /\ Accepts(data) => InFlight' /\ ToTake' = 4 /\ src_data_hold_q' = data
         /\ ~(SyncAck /\ Accepts(data)) => ~InFlight'
<1>1. SrcIdle \/ Answered
  BY Zenon DEF Handshake, Underway
<1>2. ~dst_valid_o /\ ~arrived
  BY <1>1 DEF SrcIdle, Answered, arrived
<1>3. ~dst_valid_o' /\ dst_toggle_q' = dst_toggle_q
  BY <1>2 DEF DstDid, Captures, Takes, Waits, DstStill, Flops
<1>4. /\ src_toggle_dst1_q' = src_toggle_q /\ src_toggle_dst2_q' = src_toggle_q
  BY <1>1 DEF DstDid, DstStill, SyncRequest, SrcIdle, Answered
<1>5. ASSUME SyncAck, Accepts(data)
      PROVE  InFlight' /\ ToTake' = 4 /\ src_data_hold_q' = data
  <2>1. src_toggle_q' # src_toggle_q
    BY <1>5 DEF Accepts, Flops
  <2> QED BY <1>3, <1>4, <1>5, <2>1 DEF InFlight, ToTake, Accepts
<1>6. ASSUME ~(SyncAck /\ Accepts(data)) PROVE ~InFlight'
  <2>1. src_toggle_q' = src_toggle_q
    BY <1>6 DEF SrcDid, SrcStill, Frees, Rests
  <2> QED BY <1>3, <2>1 DEF InFlight
<1> QED BY <1>3, <1>5, <1>6

\* An item under way comes one edge nearer with every edge of the
\* destination's clock.
LEMMA FromInFlight ==
  ASSUME Flops, Handshake, InFlight, NEW data, SrcDid(data), DstDid
  PROVE  /\ src_data_hold_q' = src_data_hold_q /\ src_busy_q'
         /\ SyncRequest /\ Takes => ~InFlight' /\ ToFree' = 3 /\ ToTake = 1
         /\ SyncRequest /\ ~dst_valid_o => InFlight' /\ ToTake' = ToTake - 1
         /\ dst_valid_o /\ ~Takes => InFlight' /\ ToTake' = 1
         /\ DstStill => InFlight' /\ ToTake' = ToTake
<1>1. src_busy_q /\ Underway
  BY Zenon DEF Handshake, SrcIdle, Answered
<1>2. /\ src_busy_q' /\ UNCHANGED <<src_toggle_q, src_data_hold_q>>
      /\ dst_toggle_src1_q' = dst_toggle_q /\ dst_toggle_src2_q' = dst_toggle_q
  BY <1>1 DEF Flops, Underway, SyncAck, SrcStill, SrcDid, Accepts, Frees, Rests, acked
<1>3. ASSUME SyncRequest, Takes PROVE ~InFlight' /\ ToFree' = 3 /\ ToTake = 1
  <2>1. dst_toggle_q' = src_toggle_q /\ dst_toggle_q # src_toggle_q
    BY <1>1, <1>3 DEF Underway, Takes, InFlight
  <2> QED BY <1>2, <1>3, <2>1 DEF InFlight, ToFree, ToTake, Takes
<1>4. ASSUME SyncRequest, ~dst_valid_o PROVE InFlight' /\ ToTake' = ToTake - 1
  <2>1. dst_toggle_q' = dst_toggle_q /\ (Captures \/ Waits)
    <3>1. ~Takes
      BY <1>4 DEF Takes
    <3>2. CASE DstStill
      <4>1. dst_toggle_q' = dst_toggle_q /\ dst_valid_o' = dst_valid_o /\ dst_data_o' = dst_data_o
            /\ src_toggle_dst3_q' = src_toggle_dst3_q /\ src_toggle_dst3_q' = src_toggle_dst2_q
        BY <1>4, <3>2 DEF DstStill, SyncRequest
      <4> QED BY <1>4, <4>1 DEF Waits, arrived
    <3> QED BY <3>1, <3>2 DEF DstDid, Captures, Waits
  <2>2. InFlight'
    BY <1>2, <2>1 DEF InFlight
  <2>3. src_toggle_dst3_q # src_toggle_q
    BY <1>1, <1>4 DEF Underway
  <2>4. CASE src_toggle_dst2_q = src_toggle_q
    <3>1. arrived
      BY <2>3, <2>4 DEF arrived
    <3>2. dst_valid_o'
      BY <1>4, <2>1, <3>1 DEF Captures, Waits
    <3> QED BY <1>4, <2>2, <2>4, <3>2 DEF ToTake
  <2>5. CASE src_toggle_dst2_q # src_toggle_q
    <3>1. ~arrived
      BY <2>3, <2>5 DEF arrived, Flops
    <3>2. ~dst_valid_o'
      BY <1>4, <2>1, <3>1, Zenon DEF Captures, Waits
    <3> QED BY <1>2, <1>4, <2>2, <2>5, <3>2 DEF ToTake, SyncRequest
  <2> QED BY <2>4, <2>5
<1>5. ASSUME dst_valid_o, ~Takes PROVE InFlight' /\ ToTake' = 1
  <2>1. dst_valid_o' /\ dst_toggle_q' = dst_toggle_q
    BY <1>5, Zenon DEF DstDid, Captures, Waits, DstStill
  <2> QED BY <1>2, <2>1 DEF InFlight, ToTake
<1>6. ASSUME DstStill PROVE InFlight' /\ ToTake' = ToTake
  BY <1>2, <1>6 DEF DstStill, InFlight, ToTake
<1> QED BY <1>2, <1>3, <1>4, <1>5, <1>6

\* The answer to an item that was taken comes one edge nearer with every edge
\* of the source's clock, and then the source is free.
LEMMA FromTaken ==
  ASSUME Flops, Handshake, ~InFlight, src_busy_q, NEW data, SrcDid(data), DstDid
  PROVE  /\ ~InFlight'
         /\ SyncAck /\ ToFree = 1 => ~src_busy_q'
         /\ SyncAck /\ ToFree > 1 => src_busy_q' /\ ToFree' = ToFree - 1
         /\ SrcStill => src_busy_q' /\ ToFree' = ToFree
<1>1. Answered
  BY Zenon DEF Handshake, Underway
<1>2. ~InFlight' /\ dst_toggle_q' = dst_toggle_q
  BY FromEmpty, Zenon DEF Accepts
<1>3. ASSUME SyncAck, ToFree = 1 PROVE ~src_busy_q'
  <2>1. acked
    BY <1>1, <1>3 DEF Answered, acked, ToFree
  <2> QED BY <1>3, <2>1 DEF SrcDid, Accepts, Frees, Rests, SrcStill, SyncAck, acked, Answered, Flops, ToFree
<1>4. ASSUME SyncAck, ToFree > 1 PROVE src_busy_q' /\ ToFree' = ToFree - 1
  <2>1. ~acked /\ dst_toggle_src2_q # dst_toggle_q
    BY <1>1, <1>4 DEF Answered, acked, ToFree, Flops
  <2>2. src_busy_q'
    BY <2>1, Zenon DEF SrcDid, Accepts, Frees, Rests, SrcStill
  <2> QED BY <1>2, <1>4, <2>1, <2>2 DEF SyncAck, ToFree
<1>5. ASSUME SrcStill PROVE src_busy_q' /\ ToFree' = ToFree
  BY <1>2, <1>5 DEF SrcStill, ToFree
<1> QED BY <1>2, <1>3, <1>4, <1>5
=============================================================================
