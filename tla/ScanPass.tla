------------------------------- MODULE ScanPass -------------------------------
(***************************************************************************)
(* The FI Scan Controller together with what it drives: the DUT's scan     *)
(* chain, the freeze gate of the blocks off the chain (syn/fi_clk_gate.v)  *)
(* and the stream of FI_Index values that feeds its front end.             *)
(*                                                                         *)
(* One Tick is one rising edge of the functional clock.  The inputs the    *)
(* rest of the executor drives (start, scrub request, readiness) take any  *)
(* value after every edge.  The pattern stream is what fi_table_ctrl       *)
(* delivers: entry after entry until the pattern ends, nothing more until  *)
(* the next trial loads the next pattern.                                  *)
(***************************************************************************)
EXTENDS Integers, Sequences, Functions

CONSTANTS
  ScanLen,         \* cells in the DUT's scan chain
  Patterns,        \* the patterns the table may hold: sequences of FI_Index
  SCRUB_LEN, TM_LEAD, TM_TAIL_CYCLES

Cells == 0 .. ScanLen - 1
Bit   == {0, 1}        \* the data the chain shifts; control bits are BOOLEAN

ASSUME ScanLenAssumption == ScanLen \in Nat \ {0}
ASSUME PatternsAssumption == Patterns \subseteq Seq(Nat)
ASSUME ParamsAssumption ==
  /\ SCRUB_LEN \in Int
  /\ TM_LEAD \in {0, 1}
  /\ TM_TAIL_CYCLES \in 0..3

VARIABLES
  \* registers of fi_scan_ctrl
  start_d, run, scrub_q, run_cnt, run_end_q, scan_en_o, clk_gate,
  done_o, scrub_done_o, tm_lead, tm_tail_cnt, tm_q, tm_half,
  hit_step_q, hit_vld_q, hit_step_nx, hit_vld_nx, err_order_o,
  \* its inputs from the rest of the wrapper
  start, ready, scrub_req, cfg_scan_len,
  pat, ptr,        \* the pattern and the position of the stream's head in it
  \* the DUT
  chain,           \* the scan chain; cell 0 is the one next to Scan_In
  gate_q,          \* the freeze gate's synchroniser flop
  off,             \* a register off the chain that toggles on each of its edges
  \* history
  orig,            \* the chain as the last functional edge left it
  flips            \* the cells inverted since then

scanRegs == <<start_d, run, scrub_q, run_cnt, run_end_q, scan_en_o, clk_gate,
              done_o, scrub_done_o, tm_lead, tm_tail_cnt, tm_q, tm_half,
              hit_step_q, hit_vld_q, hit_step_nx, hit_vld_nx, err_order_o>>

inputs == <<start, ready, scrub_req, cfg_scan_len>>
stream == <<pat, ptr>>
dut    == <<chain, gate_q, off>>
vars   == <<scanRegs, inputs, stream, dut, orig, flips>>

entry_valid == ptr <= Len(pat)
entry_index == IF entry_valid THEN pat[ptr] ELSE 0

Scan == INSTANCE ScanCtrl WITH
          cfg_start_i    <- start,
          cfg_scan_len_i <- cfg_scan_len,
          entry_index_i  <- entry_index,
          entry_valid_i  <- entry_valid,
          entry_ready_i  <- ready /\ entry_valid,
          scrub_req_i    <- scrub_req,
          scan_out_i     <- chain[ScanLen - 1]

-----------------------------------------------------------------------------
Init ==
  /\ Scan!Init
  /\ start = FALSE /\ ready = FALSE /\ scrub_req = FALSE /\ cfg_scan_len = 0
  /\ pat = <<>> /\ ptr = 1
  /\ chain \in [Cells -> Bit] /\ gate_q = FALSE /\ off = FALSE
  /\ orig = chain /\ flips = {}

\* Scan_Len is 0 out of reset; the host writes it once, before it arms.
Inputs ==
  /\ start' \in BOOLEAN /\ ready' \in BOOLEAN /\ scrub_req' \in BOOLEAN
  /\ cfg_scan_len' \in {cfg_scan_len, ScanLen}

Stream ==
  /\ ptr' = IF Scan!entry_pop_o THEN ptr + 1 ELSE ptr
  /\ pat' = pat

\* The freeze engages on the registered gate and releases on the raw one.
freeze_Mutant == gate_q
freeze == gate_q /\ clk_gate

FreezeGate_Mutant ==
  /\ gate_q' = clk_gate
  /\ off' = IF gate_q THEN off ELSE ~off
FreezeGate ==
  /\ gate_q' = clk_gate
  /\ off' = IF freeze THEN off ELSE ~off

Shifted == [c \in Cells |-> IF c = 0 THEN Scan!scan_in_o ELSE chain[c - 1]]

\* With Scan_En low the chain takes the next functional state, whatever the
\* DUT computes; with Scan_En high it shifts.
Chain ==
  \/ /\ scan_en_o
     /\ chain' = Shifted
     /\ orig' = orig
     /\ flips' = IF Scan!hit THEN flips \union {ScanLen - 1 - run_cnt} ELSE flips
  \/ /\ ~scan_en_o
     /\ chain' \in [Cells -> Bit]
     /\ orig' = chain'
     /\ flips' = {}

Tick == Scan!Edge /\ Inputs /\ Stream /\ FreezeGate /\ Chain

\* The next trial's pattern; fi_table_ctrl loads it between two trials.
NewPattern ==
  /\ ~Scan!busy /\ ~done_o
  /\ pat' \in Patterns /\ ptr' = 1
  /\ UNCHANGED <<scanRegs, inputs, dut, orig, flips>>

\* rst_n resets the wrapper and the DUT.
Reset ==
  /\ Scan!Reset
  /\ start' = FALSE /\ ready' = FALSE /\ scrub_req' = FALSE /\ cfg_scan_len' = 0
  /\ pat' = <<>> /\ ptr' = 1
  /\ chain' \in [Cells -> Bit] /\ gate_q' = FALSE /\ off' = FALSE
  /\ orig' = chain' /\ flips' = {}

Next == Tick \/ NewPattern \/ Reset

Spec == Init /\ [][Next]_vars

-----------------------------------------------------------------------------
(* Properties. *)

TypeOK ==
  /\ Scan!RegsTypeOK
  /\ start \in BOOLEAN /\ ready \in BOOLEAN /\ scrub_req \in BOOLEAN
  /\ gate_q \in BOOLEAN /\ off \in BOOLEAN
  /\ cfg_scan_len \in {0, ScanLen}
  /\ pat \in Patterns \union {<<>>} /\ ptr \in 1 .. Len(pat) + 1
  /\ chain \in [Cells -> Bit] /\ orig \in [Cells -> Bit]
  /\ flips \subseteq Cells

\* A pattern fi_campaign can emit: strictly descending, inside the chain.
Descending(p) == \A i, j \in 1 .. Len(p) : i < j => p[i] > p[j]
Legal(p) == Descending(p) /\ \A i \in 1 .. Len(p) : p[i] \in Cells

Flipped(v, S) == [c \in Cells |-> IF c \in S THEN 1 - v[c] ELSE v[c]]

\* Blocks off the chain lose exactly the shift edges: one fewer and they
\* would run while the chain is scrambled, one more and they would resume a
\* cycle behind it (the edge account of fi_clk_gate.v).
FreezeAccount == freeze <=> scan_en_o

\* The restore invariant of fi_scan_ctrl.v: when done_o pulses, the L shifts
\* have put every cell back where it was, except the ones hit on the way.
Restored == done_o => chain = Flipped(orig, flips)

\* One pass delivers the whole pattern: the cells hit are those the pattern
\* names, back-to-back targets and the last shift included.
PatternDelivered == done_o /\ Legal(pat) => flips = Range(pat)

\* Seen from the functional edges the pass is atomic: it flips the wanted
\* cells, each pattern at most once, and nothing off the chain moves.
Flip == INSTANCE FlipSpec WITH
          Scrubbed <- {c \in Cells : SCRUB_LEN < 0 \/ c < SCRUB_LEN},
          ff       <- IF scan_en_o THEN orig ELSE chain,
          want     <- Range(pat),
          armed    <- ptr = 1 \/ ((tm_lead \/ run) /\ ~scrub_q)
AtomicInjection == Flip!Spec

-----------------------------------------------------------------------------
(* The inductive invariant behind the safety properties. *)

\* The controller's phases: idle, lead, shifting, test-mode tail.
Phases ==
  /\ scan_en_o <=> run
  /\ clk_gate <=> run \/ tm_lead
  /\ ~(run /\ tm_lead)
  /\ run => gate_q
  /\ tm_lead => ~gate_q
  /\ scrub_q => run \/ tm_lead
  /\ run \/ tm_lead => /\ cfg_scan_len = ScanLen
                       /\ run_end_q < ScanLen
                       /\ tm_tail_cnt = 0
                       /\ ~scrub_q => run_end_q = ScanLen - 1
                       /\ scrub_q => run_end_q = Scan!scrub_n - 1
  /\ run => run_cnt <= run_end_q

\* After k shifts of an injection pass the chain is rotated by k: the cells
\* that have been round carry their hits, the others are untouched.
Rotated ==
  run /\ ~scrub_q =>
    /\ \A c \in flips : c >= ScanLen - run_cnt
    /\ \A c \in Cells :
         chain[c] = IF c >= run_cnt THEN orig[c - run_cnt]
                    ELSE LET o == ScanLen - run_cnt + c
                         IN  IF o \in flips THEN 1 - orig[o] ELSE orig[o]

\* After k shifts of a scrub the first k cells hold zeros.
Zeroed == run /\ scrub_q => \A c \in Cells : c < run_cnt => chain[c] = 0

RestoreInv == TypeOK /\ Phases /\ Rotated /\ Restored /\ Zeroed

-----------------------------------------------------------------------------
(* The strengthening behind PatternDelivered and AtomicInjection. *)

\* The shift step of the i-th entry of the pattern.
StepOf(i) == ScanLen - 1 - pat[i]

\* The targets of a pass are consumed in the pattern's order: c of them are
\* behind the shift, the next two sit in the front end, the rest is still in
\* the stream.
Consumed(c) ==
  /\ flips = {pat[i] : i \in 1 .. c}
  /\ hit_vld_q <=> c + 1 <= Len(pat)
  /\ hit_vld_q => hit_step_q = StepOf(c + 1) /\ hit_step_q >= run_cnt
  /\ hit_vld_nx <=> c + 2 <= Len(pat)
  /\ hit_vld_nx => hit_step_nx = StepOf(c + 2)
  /\ ptr = IF c + 3 <= Len(pat) THEN c + 3 ELSE Len(pat) + 1
  /\ ptr # 1

\* Between injection passes the stream stands at the pattern's start or past
\* its end; a pass takes it from the one to the other.
FrontEnd ==
  Legal(pat) =>
    /\ ~((run \/ tm_lead) /\ ~scrub_q) => ptr = 1 \/ ptr = Len(pat) + 1
    /\ scrub_q => ~hit_vld_q /\ ~hit_vld_nx
    /\ tm_lead /\ ~scrub_q => /\ ptr = 2 /\ hit_vld_q /\ ~hit_vld_nx
                              /\ Len(pat) >= 1 /\ hit_step_q = StepOf(1)
    /\ run /\ ~scrub_q => \E c \in 0 .. Len(pat) : Consumed(c)

DeliveryInv == RestoreInv /\ FrontEnd /\ PatternDelivered
=============================================================================
