------------------------------- MODULE BoardUart --------------------------------
(***************************************************************************)
(* fpga/rtl/fi_board_uart.v: the DUT's output for the host, split by trial.*)
(*                                                                         *)
(* The state is one record u; Clocked(u, ...) is u after a clock edge.     *)
(* Bytes are numbers.  A register and its valid bit are one field, and rec *)
(* is what is still to be sent of the record's nine bytes; its cycle count *)
(* is any of COUNTS.  The FIFO is a sequence; a byte is on the line for    *)
(* LINE cycles.                                                            *)
(***************************************************************************)
EXTENDS Integers, Sequences

CONSTANTS
  DEPTH,       \* FIFO entries: 1 << FIFO_AW
  LINE,        \* cycles a byte takes on the host line: 10 * OUT_DIV
  TRIALS,      \* the numbers the trial counter goes through: 0 .. 65535
  COUNTS       \* the four bytes of a record's cycle count

ASSUME BoardUartAssumption ==
  /\ DEPTH \in Nat /\ DEPTH > 2 /\ LINE \in Nat /\ LINE > 0
  /\ TRIALS \subseteq Nat /\ (\E a, b \in TRIALS : TRIALS = a .. b)
  /\ \A t \in TRIALS : t \div 256 < 256
  /\ COUNTS \subseteq [1 .. 4 -> 0 .. 255]

C0 == 192
DB == 219
DC == 220
DD == 221
Special == {C0, DB}
Trial0 == CHOOSE a \in TRIALS : a - 1 \notin TRIALS
NextTrial(t) == IF t + 1 \in TRIALS THEN t + 1 ELSE Trial0
EscOf(b) == IF b = C0 THEN DC ELSE DD

NoByte == 256                     \* byte_v_i = 0, and a register that holds nothing
RecLen == 9

Reset(trial) ==
  [rst_q |-> FALSE, trial |-> trial, f_abort |-> FALSE, f_lost |-> FALSE,
   rec |-> <<>>, esc |-> NoByte, dbuf |-> NoByte, push |-> NoByte,
   fifo |-> <<>>, frame |-> NoByte, nb |-> 0]

-----------------------------------------------------------------------------
(* The FIFO, and the sequencer: a record, then the DUT's bytes, one push per *)
(* cycle.  full leaves room for the push in flight.                          *)

used(u) == Len(u.fifo)
full_Mutant(u) == used(u) >= DEPTH
full(u) == used(u) >= DEPTH - 2

rec_go(u)  == u.rec # <<>>
trial_start(u, dut_rst_ni) == dut_rst_ni /\ ~u.rst_q
send_esc(u) == ~full(u) /\ u.esc # NoByte
send_rec(u) == ~full(u) /\ u.esc = NoByte /\ rec_go(u)
take_d(u)   == ~full(u) /\ u.esc = NoByte /\ ~rec_go(u) /\ u.dbuf # NoByte

\* The byte the sequencer takes from the record or from dbuf, and whether it is escaped.
cur(u)     == IF rec_go(u) THEN Head(u.rec) ELSE u.dbuf
escaped(u) == cur(u) \in Special /\ Len(u.rec) # RecLen

Flags(u, abort_i) == (IF u.f_lost THEN 2 ELSE 0) + (IF u.f_abort \/ abort_i THEN 1 ELSE 0)

\* A byte that finds dbuf taken is lost.
lost(u, obs) == obs # NoByte /\ u.dbuf # NoByte /\ ~take_d(u)

\* A new trial's record, unless the one before is still being sent.
new_rec(u, dut_rst_ni) == trial_start(u, dut_rst_ni) /\ ~rec_go(u)

LostFlag(u, dut_rst_ni, obs) ==
  IF new_rec(u, dut_rst_ni) THEN FALSE
  ELSE u.f_lost \/ lost(u, obs) \/ trial_start(u, dut_rst_ni)

\* C0 54 <trial:2> <cycles:4> <flags:1>, the numbers' high bytes first.
Record(u, count, abort_i) ==
  <<C0, 84, u.trial \div 256, u.trial % 256>> \o count \o <<Flags(u, abort_i)>>

Sequencer(u, dut_rst_ni, obs, abort_i, count) ==
  LET new   == new_rec(u, dut_rst_ni)
      takes == send_rec(u) \/ take_d(u)
  IN  [u EXCEPT
         !.rst_q   = dut_rst_ni,
         !.trial   = IF trial_start(u, dut_rst_ni) THEN NextTrial(@) ELSE @,
         !.f_abort = ~new /\ (@ \/ abort_i),
         !.f_lost  = LostFlag(u, dut_rst_ni, obs),
         !.rec     = IF new THEN Record(u, count, abort_i) ELSE IF send_rec(u) THEN Tail(@) ELSE @,
         !.dbuf    = IF obs # NoByte /\ ~lost(u, obs) THEN obs ELSE IF take_d(u) THEN NoByte ELSE @,
         !.push    = IF send_esc(u) THEN u.esc ELSE IF ~takes THEN NoByte
                     ELSE IF escaped(u) THEN DB ELSE cur(u),
         !.esc     = IF full(u) THEN @ ELSE IF takes /\ escaped(u) THEN EscOf(cur(u)) ELSE NoByte]

\* The write side of the FIFO; the transmitter, which loads a byte between two frames.
Fifo(u) ==
  (IF u.nb = 0 /\ u.fifo # <<>> THEN Tail(u.fifo) ELSE u.fifo)
    \o (IF u.push # NoByte THEN <<u.push>> ELSE <<>>)

Line(u, v) ==
  IF u.nb = 0
  THEN IF u.fifo = <<>> THEN v ELSE [v EXCEPT !.frame = Head(u.fifo), !.nb = LINE]
  ELSE [v EXCEPT !.nb = @ - 1, !.frame = IF u.nb = 1 THEN NoByte ELSE @]

\* The edge on which the host has the whole byte.
Delivers(u) == u.nb = 1

Clocked(u, dut_rst_ni, obs, abort_i, count) ==
  Line(u, [Sequencer(u, dut_rst_ni, obs, abort_i, count) EXCEPT !.fifo = Fifo(u)])
=================================================================================
