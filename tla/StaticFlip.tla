------------------------------- MODULE StaticFlip ------------------------------
(***************************************************************************)
(* Static mode, the manual path for bring-up: the host puts an index into  *)
(* CFG_FI_INDEX and starts a pass with FI_CMD.START.  No timeout is set,   *)
(* so nothing resets the DUT.                                              *)
(***************************************************************************)
EXTENDS Executor

CONSTANTS
  Indices,       \* what the host writes to CFG_FI_INDEX
  SPACING,       \* edges between two register writes: the clock crossing's
  MAX_PASSES     \* bound on the passes of a behaviour

ASSUME StaticAssumption ==
  Indices \subseteq Nat /\ SPACING \in Nat /\ MAX_PASSES \in Nat

VARIABLES
  quiet,         \* edges since the last register write, up to SPACING
  wanted         \* the register when each pass was armed

staticVars == <<vars, quiet, wanted>>

StaticInit ==
  /\ Init
  /\ quiet = SPACING
  /\ wanted = <<>>

MayWrite ==
  /\ quiet = SPACING
  /\ quiet' = 0
  /\ UNCHANGED <<cfg_auto, cfg_end, cfg_fi_cycle, cfg_fi_cycle_wr, cfg_to_thr,
                 cfg_tbl_len, tbl>>

SetScanLen ==
  /\ MayWrite
  /\ cfg_scan_len = 0 /\ cfg_scan_len' = FI_SCAN_LEN
  /\ UNCHANGED <<cfg_start, cfg_fi_index>>

SetIndex(i) ==
  /\ MayWrite
  /\ cfg_fi_index' = i
  /\ UNCHANGED <<cfg_start, cfg_scan_len>>

\* FI_CMD.START, a strobe of one cycle.
Start ==
  /\ MayWrite
  /\ Len(wanted) < MAX_PASSES
  /\ cfg_start' = TRUE
  /\ UNCHANGED <<cfg_fi_index, cfg_scan_len>>

NoWrite ==
  /\ quiet' = IF quiet < SPACING THEN quiet + 1 ELSE quiet
  /\ cfg_start' = FALSE
  /\ UNCHANGED <<cfg_auto, cfg_scan_len, cfg_fi_index, cfg_end, cfg_fi_cycle,
                 cfg_fi_cycle_wr, cfg_to_thr, cfg_tbl_len, tbl>>

StaticTick ==
  /\ Edge
  /\ wanted' = IF Scan!arm0 THEN Append(wanted, cfg_fi_index) ELSE wanted
  /\ NoWrite \/ SetScanLen \/ Start \/ \E i \in Indices : SetIndex(i)

StaticSpec == StaticInit /\ [][StaticTick]_staticVars

\* The clock runs.
StaticFairSpec == StaticSpec /\ WF_staticVars(StaticTick)

-----------------------------------------------------------------------------
(* Properties. *)

\* A pass flips the one cell that CFG_FI_INDEX named when it was armed (none if
\* the index is past the chain), whatever the host writes or starts during it,
\* and the order check stays silent: a one-entry pattern has no order.
OneFlipPerPass ==
  /\ \A k \in DOMAIN inj : inj[k].cells = {wanted[k]} \intersect 0 .. FI_SCAN_LEN - 1
  /\ ~err_order_o

\* A pass that is armed ends, with one injection per pass and the clock running
\* again; no start leaves the DUT frozen.
PassesEnd == clk_gate ~> ~clk_gate /\ Len(inj) = Len(wanted)
=============================================================================
