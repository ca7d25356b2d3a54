----------------------------- MODULE TablePrefetch ----------------------------
(***************************************************************************)
(* The FI Table Controller between the FI Table, which the host loads, and *)
(* the FI Scan Controller, which consumes one pattern per pass.            *)
(*                                                                         *)
(* The consumer is the contract of fi_scan_ctrl: it starts a pass only     *)
(* when the controller says it is ready, popping the first entry, and may  *)
(* then pop on any edge, back to back or not, until the pass is done.  The *)
(* FI Resolver reset and a new batch may come at any time.                 *)
(***************************************************************************)
EXTENDS Integers

CONSTANTS
  TBL_WORDS, LOOKAHEAD,
  Tables      \* the table contents the host may load: functions from word
              \* numbers to entries

ASSUME GeometryAssumption ==
  /\ TBL_WORDS \in Nat \ {0}
  /\ LOOKAHEAD \in Nat /\ LOOKAHEAD >= 2

Words   == 0 .. TBL_WORDS - 1
Entries == [eop : BOOLEAN, off : Nat, idx : Nat]

ASSUME TablesAssumption == Tables \subseteq [Words -> Entries]

VARIABLES
  \* registers of fi_table_ctrl
  word_ptr, la_index, la_vld, la_cnt, fill_armed, eop_fetched, cycle_offset_q,
  resolver_rst_q, table_exhausted_o, err_malformed_o,
  \* its inputs
  resolver_rst, batch_start, cfg_tbl_len, tbl,
  pop, done,       \* what the consumer does on the coming edge
  pass             \* a pass is under way

regs == <<word_ptr, la_index, la_vld, la_cnt, fill_armed, eop_fetched, cycle_offset_q,
          resolver_rst_q, table_exhausted_o, err_malformed_o>>
vars == <<regs, resolver_rst, batch_start, cfg_tbl_len, tbl, pop, done, pass>>

Table == INSTANCE TableCtrl WITH
           batch_start_i <- batch_start,
           cfg_tbl_len_i <- cfg_tbl_len,
           done_i        <- done,
           \* the exec port of fi_table: an asynchronous read
           tbl_rdata_i   <- tbl[word_ptr % TBL_WORDS],
           entry_pop_i   <- pop

Init ==
  /\ Table!Init
  /\ resolver_rst = FALSE /\ batch_start = FALSE
  /\ cfg_tbl_len = 0 /\ tbl \in Tables
  /\ pop = FALSE /\ done = FALSE /\ pass = FALSE

\* The consumer's next move, from what it sees after the edge.
Consumer ==
  \/ pop' = FALSE /\ done' = FALSE /\ pass' = pass
  \/ ~pass /\ Table!entry_ready_o' /\ pop' = TRUE /\ done' = FALSE /\ pass' = TRUE
  \/ pass /\ pop' = TRUE /\ done' = FALSE /\ pass' = TRUE
  \/ pass /\ pop' = FALSE /\ done' = TRUE /\ pass' = FALSE

\* A reset or a new batch ends a pass.
Aborted == pop' = FALSE /\ done' = FALSE /\ pass' = FALSE

\* The host has loaded its table, and CFG_TBL_LEN, by the time it writes
\* CFG_FI_CYCLE: the batch strobe's edge is where they count from.
Host ==
  IF batch_start THEN tbl' \in Tables /\ cfg_tbl_len' \in 0 .. TBL_WORDS + 1
                 ELSE UNCHANGED <<tbl, cfg_tbl_len>>

Tick ==
  /\ Table!Edge
  /\ Host
  /\ resolver_rst' \in BOOLEAN /\ batch_start' \in BOOLEAN
  /\ IF resolver_rst' \/ batch_start' \/ resolver_rst \/ batch_start
     THEN Aborted ELSE Consumer

Next == Tick

Spec == Init /\ [][Next]_vars

-----------------------------------------------------------------------------
(* Properties. *)

\* The word of the table that slot i of the lookahead holds.
Held(i) == word_ptr - la_cnt + i

\* The lookahead is a window on the table: the valid slots are the first
\* la_cnt ones, and they hold the la_cnt words before word_ptr in table
\* order.  A push and a pop on the same edge must agree on the slot.
LookaheadIsWindow ==
  /\ la_vld = 0 .. la_cnt - 1
  /\ la_cnt <= word_ptr
  /\ \A i \in la_vld : la_index[i] = tbl[Held(i)].idx

\* Once a pass has started the stream does not run dry before the pattern
\* ends: the scan pass cannot wait, a late entry would be a missed target.
NoStarvation ==
  pass => la_cnt > 0 \/ eop_fetched \/ Table!ptr_at_end

\* The EOP entries fetched in this batch.
EopsFetched == {w \in Words : w < word_ptr /\ tbl[w].eop}

\* The offset the FI Time Controller adds to FI_Cycle is that of the EOP entry
\* fetched last, and 0 before the first one and once the table ran out without
\* one.  It is so in every state: on the edge that releases the reset too, where
\* fi_time_ctrl.v:389 reads it, eop_fetched and the lookahead having been
\* cleared all through the reset window.
OffsetIsOfEop ==
  /\ err_malformed_o \/ EopsFetched = {} => cycle_offset_q = 0
  /\ ~err_malformed_o =>
       \A w \in EopsFetched : (\A v \in EopsFetched : v <= w) => cycle_offset_q = tbl[w].off

\* The host learns that a batch is over from table_exhausted_o and goes on
\* running trials until it stops them.  Only a new batch takes the flag back;
\* until then nothing is fetched, no entry appears, and the prefetch that every
\* later reset window arms again, at the end of the table and with no EOP in
\* hand, neither flags the table as malformed nor changes the offset.
BatchStaysEnded ==
  [][table_exhausted_o /\ ~batch_start =>
       /\ table_exhausted_o'
       /\ UNCHANGED <<word_ptr, cycle_offset_q, err_malformed_o>>
       /\ la_vld' \subseteq la_vld]_vars
=============================================================================
