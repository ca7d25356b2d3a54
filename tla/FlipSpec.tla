------------------------------- MODULE FlipSpec -------------------------------
(***************************************************************************)
(* What the FI Scan Controller promises the rest of the system: seen from  *)
(* the DUT's functional clock edges, an injection is atomic.  Between two  *)
(* functional edges either nothing happens, or the wanted cells of the     *)
(* chain are flipped and nothing else changes (Inject), or the cells       *)
(* nearest to Scan_In are cleared ahead of a reset (Scrub).  A block off   *)
(* the chain sees the functional edges and no others.                      *)
(***************************************************************************)
EXTENDS Integers

CONSTANTS
  Cells,     \* the cells of the scan chain
  Scrubbed   \* the cells a scrub clears

VARIABLES
  ff,        \* the chain's cells, as the functional logic sees them
  off,       \* a register off the chain that toggles on each of its edges
  want,      \* the cells the loaded pattern names
  armed      \* the loaded pattern has not been injected yet

vars == <<ff, off, want, armed>>

Init ==
  /\ ff \in [Cells -> {0, 1}]
  /\ off = FALSE
  /\ want = {}
  /\ armed = TRUE

\* A functional edge: the DUT computes whatever it computes.
Step ==
  /\ ff' \in [Cells -> {0, 1}]
  /\ off' = ~off
  /\ UNCHANGED <<want, armed>>

\* A pattern is made ready for the next injection.
Load ==
  /\ want' \in SUBSET Cells
  /\ armed' = TRUE
  /\ UNCHANGED <<ff, off>>

\* The pattern is injected: once, and exactly.
Inject ==
  /\ armed
  /\ armed' = FALSE
  /\ ff' = [c \in Cells |-> IF c \in want THEN 1 - ff[c] ELSE ff[c]]
  /\ UNCHANGED <<off, want>>

Scrub ==
  /\ ff' \in [Cells -> {0, 1}]
  /\ \A c \in Scrubbed : ff'[c] = 0
  /\ UNCHANGED <<off, want, armed>>

\* The wrapper and the DUT are reset; the pattern in hand is dropped.
Reset ==
  /\ ff' \in [Cells -> {0, 1}]
  /\ off' = FALSE
  /\ want' = {}
  /\ armed' = TRUE

Next == Step \/ Load \/ Inject \/ Scrub \/ Reset

Spec == Init /\ [][Next]_vars
=============================================================================
