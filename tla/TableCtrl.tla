------------------------------ MODULE TableCtrl -------------------------------
(***************************************************************************)
(* The FI Table Controller, rtl/fi_table_ctrl.v, in the style of ScanCtrl: *)
(* ports and registers are variables, wires are operators, Edge is one     *)
(* rising edge of clk.                                                     *)
(*                                                                         *)
(* It walks the FI Table once per batch, prefetching the pattern of the    *)
(* coming trial into a small lookahead.  A table word is a record          *)
(* [eop, off, idx]: the end-of-pattern mark, the Cycle_Offset and the      *)
(* FI_Index of an FI_Entry.  The valid bits of the lookahead are the set   *)
(* of valid slots.                                                         *)
(***************************************************************************)
EXTENDS Integers

CONSTANTS
  TBL_WORDS,   \* table depth in words
  LOOKAHEAD    \* lookahead depth, at least 2

VARIABLES
  \* input ports
  resolver_rst, batch_start_i, cfg_tbl_len_i, done_i, tbl_rdata_i, entry_pop_i,
  \* registers
  word_ptr, la_index, la_vld, la_cnt, fill_armed, eop_fetched, cycle_offset_q,
  resolver_rst_q, table_exhausted_o, err_malformed_o

Slots == 0 .. LOOKAHEAD - 1

-----------------------------------------------------------------------------
(* Wires.  The definitions named ..._Mutant are wrong on purpose: each is a *)
(* slip the code avoids, and the properties must notice it.                *)

tbl_len_clip == IF cfg_tbl_len_i > TBL_WORDS THEN TBL_WORDS ELSE cfg_tbl_len_i
ptr_at_end   == word_ptr >= tbl_len_clip

do_pop      == entry_pop_i /\ 0 \in la_vld
la_has_room_Mutant == la_cnt < LOOKAHEAD /\ ~do_pop
la_has_room == la_cnt < LOOKAHEAD \/ do_pop
do_push_Mutant ==
  fill_armed /\ ~ptr_at_end /\ ~table_exhausted_o /\ la_has_room
do_push == /\ fill_armed /\ ~eop_fetched /\ ~ptr_at_end
           /\ ~table_exhausted_o /\ la_has_room

malformed_now_Mutant == fill_armed /\ ~eop_fetched /\ ptr_at_end
malformed_now == fill_armed /\ ~eop_fetched /\ ptr_at_end /\ ~table_exhausted_o

\* The shift has already moved everything down by one when a pop happens in
\* the same cycle.
ins_idx == IF do_pop THEN la_cnt - 1 ELSE la_cnt

entry_index_o == la_index[0]
entry_valid_o == 0 \in la_vld
entry_ready_o == 0 \in la_vld /\ (eop_fetched \/ la_cnt = LOOKAHEAD \/ ptr_at_end)
cycle_offset_o == cycle_offset_q

-----------------------------------------------------------------------------
Init ==
  /\ word_ptr = 0 /\ la_cnt = 0
  /\ la_index = [i \in Slots |-> 0] /\ la_vld = {}
  /\ fill_armed = FALSE /\ eop_fetched = FALSE
  /\ cycle_offset_q = 0 /\ resolver_rst_q = FALSE
  /\ table_exhausted_o = FALSE /\ err_malformed_o = FALSE

\* The lookahead after a pop, before a push.
IndexAfterPop_Mutant == la_index
IndexAfterPop ==
  IF do_pop THEN [i \in Slots |-> la_index[IF i = LOOKAHEAD - 1 THEN i ELSE i + 1]]
            ELSE la_index
IndexAfterPush ==
  IF do_push THEN [IndexAfterPop EXCEPT ![ins_idx] = tbl_rdata_i.idx] ELSE IndexAfterPop
ValidAfterPop == IF do_pop THEN {i \in Slots : i + 1 \in la_vld} ELSE la_vld

\* The batch restarts at word 0.
NewBatch ==
  /\ batch_start_i
  /\ word_ptr' = 0 /\ la_cnt' = 0 /\ la_vld' = {}
  /\ fill_armed' = FALSE /\ eop_fetched' = FALSE
  /\ cycle_offset_q' = 0
  /\ table_exhausted_o' = FALSE /\ err_malformed_o' = FALSE
  \* no valid bit is left, so the indices no longer matter
  /\ la_index' = IF resolver_rst THEN la_index ELSE IndexAfterPush

\* The FI Resolver reset drops the lookahead and keeps the place in the table
\* and the offset.
SoftReset_Mutant ==
  /\ resolver_rst /\ ~batch_start_i
  /\ la_cnt' = 0 /\ la_vld' = {}
  /\ fill_armed' = FALSE /\ eop_fetched' = FALSE
  /\ cycle_offset_q' = 0
  /\ UNCHANGED <<word_ptr, la_index, table_exhausted_o, err_malformed_o>>
SoftReset ==
  /\ resolver_rst /\ ~batch_start_i
  /\ la_cnt' = 0 /\ la_vld' = {}
  /\ fill_armed' = FALSE /\ eop_fetched' = FALSE
  /\ UNCHANGED <<word_ptr, la_index, cycle_offset_q, table_exhausted_o,
                 err_malformed_o>>

\* Normal operation: consume the head, fetch one word.
Push ==
  /\ do_push
  /\ la_index' = IndexAfterPush
  /\ la_vld' = ValidAfterPop \union {ins_idx}
  /\ la_cnt' = IF do_pop THEN la_cnt ELSE la_cnt + 1
  /\ word_ptr' = word_ptr + 1
  /\ eop_fetched' = tbl_rdata_i.eop
  /\ cycle_offset_q' = IF tbl_rdata_i.eop THEN tbl_rdata_i.off ELSE cycle_offset_q
  /\ UNCHANGED err_malformed_o

NoPush ==
  /\ ~do_push
  /\ la_index' = IndexAfterPush
  /\ la_vld' = ValidAfterPop
  /\ la_cnt' = IF do_pop THEN la_cnt - 1 ELSE la_cnt
  /\ UNCHANGED word_ptr
  \* the table ran out before an EOP: close the pattern, offset 0, and flag it
  /\ eop_fetched' = (eop_fetched \/ malformed_now)
  /\ cycle_offset_q' = IF malformed_now THEN 0 ELSE cycle_offset_q
  /\ err_malformed_o' = (err_malformed_o \/ malformed_now)

Stream ==
  /\ ~resolver_rst /\ ~batch_start_i
  /\ fill_armed' = (fill_armed \/ resolver_rst_q)
  /\ Push \/ NoPush
  /\ table_exhausted_o' = (table_exhausted_o \/ (done_i /\ ptr_at_end))

Edge ==
  /\ resolver_rst_q' = resolver_rst
  /\ NewBatch \/ SoftReset \/ Stream
=============================================================================
