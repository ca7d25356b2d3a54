------------------------------ MODULE SramRestore -----------------------------
(***************************************************************************)
(* The memory restore of rtl/fi_sram_restore.vh, included in the model of  *)
(* a DUT memory macro.                                                     *)
(*                                                                         *)
(* The DUT reaches the memory on the macro's clock, the restore runs on    *)
(* the wrapper's free-running clock; Edge is one edge of the free-running  *)
(* clock, and its parameter clk says whether the macro's clock has one     *)
(* too.  A DUT access is a byte-enabled write, described by what it does:  *)
(* wenb says whether any byte is enabled, d is the word it leaves at a.    *)
(***************************************************************************)
EXTENDS Integers

CONSTANTS
  FI_KIND,         \* 0: UNDO, 1: FILL
  FI_LOG_DEPTH,    \* entries of the undo log
  FI_BANKS, FI_BANK_DEPTH,
  FI_FILL_WORD,
  Word             \* what a word of the memory can hold

VARIABLES
  fi_restore_i,                                     \* input port
  ram, fi_log_a, fi_log_d, fi_log_n, fi_full, fi_bad, fi_fill_k, fi_fill_done

Addr     == 0 .. FI_BANKS * FI_BANK_DEPTH - 1
LogSlots == 0 .. FI_LOG_DEPTH - 1

fi_done_o  == fi_restore_i /\ IF FI_KIND = 0 THEN fi_log_n = 0 ELSE fi_fill_done
fi_abort_o == fi_full
fi_bad_o   == fi_bad

\* The registers at power-on; ram holds what was loaded into it.
Init ==
  /\ fi_log_a = [i \in LogSlots |-> 0] /\ fi_log_d = [i \in LogSlots |-> FI_FILL_WORD]
  /\ fi_log_n = 0 /\ fi_full = FALSE /\ fi_bad = FALSE
  /\ fi_fill_k = 0 /\ fi_fill_done = FALSE

-----------------------------------------------------------------------------
(* The DUT's accesses. *)

DutSide ==
  /\ ~fi_restore_i
  /\ fi_fill_k' = 0 /\ fi_fill_done' = FALSE
  /\ UNCHANGED fi_bad

\* UNDO: a write that changes the word is logged with the word's old value.
Logged(clk, wenb, a, d) ==
  /\ DutSide
  /\ clk /\ wenb /\ FI_KIND = 0 /\ d # ram[a]
  /\ fi_log_n < FI_LOG_DEPTH
  /\ ram' = [ram EXCEPT ![a] = d]
  /\ fi_log_a' = [fi_log_a EXCEPT ![fi_log_n] = a]
  /\ fi_log_d' = [fi_log_d EXCEPT ![fi_log_n] = ram[a]]
  /\ fi_log_n' = fi_log_n + 1
  /\ UNCHANGED fi_full

\* UNDO with a full log: the write is dropped and the trial is to end.
Dropped_SilentMutant(clk, wenb, a, d) ==
  /\ DutSide
  /\ clk /\ wenb /\ FI_KIND = 0 /\ d # ram[a]
  /\ fi_log_n >= FI_LOG_DEPTH
  /\ UNCHANGED <<ram, fi_full, fi_log_a, fi_log_d, fi_log_n>>
Dropped_Mutant(clk, wenb, a, d) ==
  /\ DutSide
  /\ clk /\ wenb /\ FI_KIND = 0 /\ d # ram[a]
  /\ fi_log_n >= FI_LOG_DEPTH
  /\ ram' = [ram EXCEPT ![a] = d]
  /\ fi_full' = TRUE
  /\ UNCHANGED <<fi_log_a, fi_log_d, fi_log_n>>
Dropped(clk, wenb, a, d) ==
  /\ DutSide
  /\ clk /\ wenb /\ FI_KIND = 0 /\ d # ram[a]
  /\ fi_log_n >= FI_LOG_DEPTH
  /\ fi_full' = TRUE
  /\ UNCHANGED <<ram, fi_log_a, fi_log_d, fi_log_n>>

\* FILL, or nothing to undo.
Plain(clk, wenb, a, d) ==
  /\ DutSide
  /\ ~(clk /\ wenb /\ FI_KIND = 0 /\ d # ram[a])
  /\ ram' = IF clk /\ wenb THEN [ram EXCEPT ![a] = d] ELSE ram
  /\ UNCHANGED <<fi_log_a, fi_log_d, fi_log_n, fi_full>>

-----------------------------------------------------------------------------
(* The restore. *)

\* A DUT write that arrives during a restore goes nowhere, and is reported.
RestoreSide(clk, wenb) ==
  /\ fi_restore_i
  /\ fi_bad' = (fi_bad \/ (clk /\ wenb))
  /\ UNCHANGED <<fi_log_a, fi_log_d>>

\* UNDO: newest entry first.
Undo_Mutant(clk, wenb) ==
  /\ RestoreSide(clk, wenb)
  /\ FI_KIND = 0 /\ fi_log_n # 0
  /\ ram' = [ram EXCEPT ![fi_log_a[fi_log_n - 1]] = fi_log_d[fi_log_n - 1]]
  /\ UNCHANGED <<fi_log_n, fi_full, fi_fill_k, fi_fill_done>>
Undo(clk, wenb) ==
  /\ RestoreSide(clk, wenb)
  /\ FI_KIND = 0 /\ fi_log_n # 0
  /\ ram' = [ram EXCEPT ![fi_log_a[fi_log_n - 1]] = fi_log_d[fi_log_n - 1]]
  /\ fi_log_n' = fi_log_n - 1
  /\ UNCHANGED <<fi_full, fi_fill_k, fi_fill_done>>

Undone(clk, wenb) ==
  /\ RestoreSide(clk, wenb)
  /\ FI_KIND = 0 /\ fi_log_n = 0
  /\ fi_full' = FALSE
  /\ UNCHANGED <<ram, fi_log_n, fi_fill_k, fi_fill_done>>

\* FILL: one word of every bank per cycle.
Fill(clk, wenb) ==
  /\ RestoreSide(clk, wenb)
  /\ FI_KIND # 0 /\ ~fi_fill_done
  /\ ram' = [x \in Addr |-> IF x % FI_BANK_DEPTH = fi_fill_k THEN FI_FILL_WORD ELSE ram[x]]
  /\ fi_fill_done' = (fi_fill_k = FI_BANK_DEPTH - 1)
  /\ fi_fill_k' = IF fi_fill_k = FI_BANK_DEPTH - 1 THEN fi_fill_k ELSE fi_fill_k + 1
  /\ UNCHANGED <<fi_full, fi_log_n>>

Filled(clk, wenb) ==
  /\ RestoreSide(clk, wenb)
  /\ FI_KIND # 0 /\ fi_fill_done
  /\ UNCHANGED <<ram, fi_full, fi_log_n, fi_fill_k, fi_fill_done>>

Edge(clk, wenb, a, d) ==
  \/ Logged(clk, wenb, a, d) \/ Dropped(clk, wenb, a, d) \/ Plain(clk, wenb, a, d)
  \/ Undo(clk, wenb) \/ Undone(clk, wenb) \/ Fill(clk, wenb) \/ Filled(clk, wenb)
=============================================================================
