-------------------------- MODULE TablePrefetchProofs -------------------------
(***************************************************************************)
(* The lookahead is right for every table, table depth and lookahead depth, *)
(* however resets, batches and passes interleave.  The argument is          *)
(* PrefetchInv: what the prefetch has taken is what lies before word_ptr,   *)
(* and a pass runs only while the prefetch is armed.                        *)
(***************************************************************************)
EXTENDS TablePrefetch, TLAPS

\* Types, and the window's bounds in the table.
PrefetchType ==
  /\ tbl \in [Words -> Entries] /\ cfg_tbl_len \in Nat
  /\ word_ptr \in 0 .. TBL_WORDS /\ la_cnt \in 0 .. LOOKAHEAD
  /\ la_index \in [Table!Slots -> Nat]
  /\ fill_armed \in BOOLEAN /\ eop_fetched \in BOOLEAN /\ resolver_rst_q \in BOOLEAN
  /\ table_exhausted_o \in BOOLEAN /\ err_malformed_o \in BOOLEAN
  /\ resolver_rst \in BOOLEAN /\ batch_start \in BOOLEAN
  /\ pop \in BOOLEAN /\ done \in BOOLEAN /\ pass \in BOOLEAN

\* Nothing is held, and no pass runs, while the prefetch is not armed; a pass has
\* ended by the edge on which a reset or a new batch takes effect.
ArmedFirst ==
  /\ pass \/ la_cnt > 0 => fill_armed
  /\ pass \/ pop \/ done => ~resolver_rst /\ ~batch_start

\* A batch is over, or malformed, only with every word of it fetched.
FlaggedAtEnd == table_exhausted_o \/ err_malformed_o => Table!ptr_at_end

PrefetchInv ==
  /\ PrefetchType /\ ArmedFirst
  /\ LookaheadIsWindow /\ NoStarvation /\ OffsetIsOfEop /\ FlaggedAtEnd

\* A lookahead has at least two slots, and word numbers do not wrap in the table.
LEMMA TableGeometry ==
  /\ TBL_WORDS \in Nat /\ TBL_WORDS > 0 /\ LOOKAHEAD \in Nat /\ LOOKAHEAD > 1
  /\ \A w \in Words : w \in Nat /\ w % TBL_WORDS = w
<1>1. TBL_WORDS \in Nat /\ TBL_WORDS > 0 /\ LOOKAHEAD \in Nat /\ LOOKAHEAD > 1
  BY GeometryAssumption
<1>2. ASSUME NEW w \in Words  PROVE w \in Nat /\ w % TBL_WORDS = w
  BY <1>1, <1>2 DEF Words
<1> QED  BY <1>1, <1>2

\* The word the prefetch reads is an entry, and it goes to a free slot: the word at
\* word_ptr behind the ones held, of which a pop takes the first.
LEMMA WordRead ==
  ASSUME PrefetchType, LookaheadIsWindow
  PROVE  /\ Table!do_push => /\ word_ptr \in Words /\ word_ptr < Table!tbl_len_clip
                             /\ tbl[word_ptr % TBL_WORDS] = tbl[word_ptr] /\ tbl[word_ptr] \in Entries
                             /\ Table!ins_idx \in Table!Slots
         /\ Table!do_pop => la_cnt > 0
         /\ Table!IndexAfterPop \in [Table!Slots -> Nat] /\ Table!IndexAfterPush \in [Table!Slots -> Nat]
<1> USE TableGeometry DEF PrefetchType
<1>1. Table!do_pop => la_cnt > 0
  BY SMT DEF Table!do_pop, LookaheadIsWindow
<1>2. ASSUME Table!do_push
      PROVE  /\ word_ptr \in Words /\ word_ptr < Table!tbl_len_clip
             /\ tbl[word_ptr % TBL_WORDS] = tbl[word_ptr] /\ tbl[word_ptr] \in Entries
             /\ Table!ins_idx \in Table!Slots
  <2>1. word_ptr \in Words /\ word_ptr < Table!tbl_len_clip
    BY <1>2, SMT DEF Table!do_push, Table!ptr_at_end, Table!tbl_len_clip, Words
  <2>2. word_ptr % TBL_WORDS = word_ptr
    BY <2>1
  <2>3. Table!ins_idx \in Table!Slots
    BY <1>1, <1>2, SMT DEF Table!do_push, Table!la_has_room, Table!ins_idx, Table!Slots
  <2> QED  BY <2>1, <2>2, <2>3
<1>3. Table!IndexAfterPop \in [Table!Slots -> Nat]
  <2>1. \A i \in Table!Slots : (IF i = LOOKAHEAD - 1 THEN i ELSE i + 1) \in Table!Slots
    BY SMT DEF Table!Slots
  <2> QED  BY <2>1 DEF Table!IndexAfterPop
<1>4. Table!IndexAfterPush \in [Table!Slots -> Nat]
  <2>1. CASE Table!do_push
    <3>1. tbl[word_ptr % TBL_WORDS].idx \in Nat
      BY <1>2, <2>1 DEF Entries
    <3> QED  BY <1>3, <2>1, <3>1 DEF Table!IndexAfterPush
  <2> QED  BY <2>1, <1>3 DEF Table!IndexAfterPush
<1> QED  BY <1>1, <1>2, <1>3, <1>4

\* A new batch and a reset of the resolver empty the lookahead.
LEMMA ResetKeepsInv ==
  ASSUME PrefetchInv, Tick, Table!NewBatch \/ Table!SoftReset
  PROVE  PrefetchInv'
<1> USE TableGeometry
<1>1. PrefetchType /\ ArmedFirst /\ ~pop /\ ~pass
  BY DEF PrefetchInv, ArmedFirst, Table!NewBatch, Table!SoftReset, PrefetchType
<1>2. /\ tbl' \in [Words -> Entries] /\ cfg_tbl_len' \in Nat
      /\ resolver_rst' \in BOOLEAN /\ batch_start' \in BOOLEAN /\ Table!Edge
      /\ ~batch_start => tbl' = tbl /\ cfg_tbl_len' = cfg_tbl_len
  BY <1>1, TablesAssumption DEF Tick, Host, PrefetchType
<1>3. ~pop' /\ ~done' /\ ~pass' /\ pop' \in BOOLEAN /\ done' \in BOOLEAN /\ pass' \in BOOLEAN
  BY DEF Tick, Aborted, Table!NewBatch, Table!SoftReset
<1>4. /\ la_cnt' = 0 /\ la_vld' = {} /\ ~fill_armed' /\ ~eop_fetched'
      /\ fill_armed' \in BOOLEAN /\ eop_fetched' \in BOOLEAN
      /\ err_malformed_o' \in BOOLEAN /\ table_exhausted_o' \in BOOLEAN
      /\ word_ptr' \in 0 .. TBL_WORDS
  <2>1. word_ptr' \in 0 .. TBL_WORDS
    <3>1. word_ptr' = 0 \/ word_ptr' = word_ptr
      BY DEF Table!NewBatch, Table!SoftReset
    <3> QED  BY <1>1, <3>1, SMT DEF PrefetchType
  <2> QED  BY <1>1, <2>1, Zenon DEF Table!NewBatch, Table!SoftReset, PrefetchType
<1>5. la_index' \in [Table!Slots -> Nat]
  <2>1. Table!IndexAfterPush \in [Table!Slots -> Nat] /\ la_index \in [Table!Slots -> Nat]
    BY WordRead DEF PrefetchInv, PrefetchType
  <2> QED  BY <2>1 DEF Table!NewBatch, Table!SoftReset
<1>6. resolver_rst_q' \in BOOLEAN
  BY <1>1, <1>2 DEF Table!Edge, PrefetchType
\* A new batch has fetched nothing; the reset forgets neither the words fetched nor
\* the offset.
<1>7. FlaggedAtEnd' /\ OffsetIsOfEop'
  <2>1. CASE Table!NewBatch
    <3>1. /\ word_ptr' = 0 /\ cycle_offset_q' = 0
          /\ ~table_exhausted_o' /\ ~err_malformed_o'
      BY <2>1 DEF Table!NewBatch
    <3>2. EopsFetched' = {}
      BY <3>1, SMT DEF EopsFetched, Words
    <3> QED  BY <3>1, <3>2 DEF FlaggedAtEnd, OffsetIsOfEop
  <2>2. CASE Table!SoftReset
    <3>1. /\ word_ptr' = word_ptr /\ cfg_tbl_len' = cfg_tbl_len /\ tbl' = tbl
          /\ cycle_offset_q' = cycle_offset_q
          /\ table_exhausted_o' = table_exhausted_o /\ err_malformed_o' = err_malformed_o
      BY <1>2, <2>2 DEF Table!SoftReset
    <3>2. FlaggedAtEnd /\ OffsetIsOfEop
      BY DEF PrefetchInv
    <3> QED  BY <3>1, <3>2 DEF FlaggedAtEnd, OffsetIsOfEop, EopsFetched,
                              Table!ptr_at_end, Table!tbl_len_clip
  <2> QED  BY <2>1, <2>2
<1>8. LookaheadIsWindow'
  BY <1>4, SMT DEF LookaheadIsWindow
<1> QED  BY <1>2, <1>3, <1>4, <1>5, <1>6, <1>7, <1>8
            DEF PrefetchInv, PrefetchType, ArmedFirst, NoStarvation

\* An edge of normal operation.
LEMMA StreamKeepsInv ==
  ASSUME PrefetchInv, Tick, Table!Stream
  PROVE  PrefetchInv'
<1> USE TableGeometry
<1>1. /\ PrefetchType /\ ArmedFirst /\ LookaheadIsWindow /\ NoStarvation
      /\ OffsetIsOfEop /\ FlaggedAtEnd /\ ~resolver_rst /\ ~batch_start
  BY DEF PrefetchInv, Table!Stream
<1>2. /\ tbl' = tbl /\ cfg_tbl_len' = cfg_tbl_len
      /\ resolver_rst' \in BOOLEAN /\ batch_start' \in BOOLEAN /\ resolver_rst_q' \in BOOLEAN
  BY <1>1 DEF Tick, Host, Table!Edge, PrefetchType
<1>3. /\ pop' \in BOOLEAN /\ done' \in BOOLEAN /\ pass' \in BOOLEAN
      /\ pass' \/ pop' \/ done' => ~resolver_rst' /\ ~batch_start'
      /\ pass' => pass \/ Table!entry_ready_o'
  BY <1>1 DEF Tick, Aborted, Consumer, PrefetchType
<1>4. /\ Table!do_push => /\ word_ptr \in Words /\ word_ptr < Table!tbl_len_clip
                          /\ tbl[word_ptr % TBL_WORDS] = tbl[word_ptr] /\ tbl[word_ptr] \in Entries
                          /\ Table!ins_idx \in Table!Slots
      /\ Table!do_pop => la_cnt > 0
      /\ Table!IndexAfterPop \in [Table!Slots -> Nat] /\ Table!IndexAfterPush \in [Table!Slots -> Nat]
  BY <1>1, WordRead
<1>5. la_index' = Table!IndexAfterPush /\ la_index' \in [Table!Slots -> Nat]
  BY <1>4 DEF Table!Stream, Table!Push, Table!NoPush
\* The edge with a word fetched, and without.
<1>6. ASSUME Table!do_push
      PROVE  /\ ~eop_fetched /\ fill_armed /\ fill_armed' = TRUE /\ err_malformed_o' = err_malformed_o
             /\ word_ptr' = word_ptr + 1 /\ la_cnt' = (IF Table!do_pop THEN la_cnt ELSE la_cnt + 1)
             /\ la_vld' = Table!ValidAfterPop \union {Table!ins_idx}
             /\ eop_fetched' = tbl[word_ptr].eop
             /\ cycle_offset_q' = IF tbl[word_ptr].eop THEN tbl[word_ptr].off ELSE cycle_offset_q
             /\ la_cnt < LOOKAHEAD \/ Table!do_pop
  <2>1. Table!Push /\ fill_armed' = (fill_armed \/ resolver_rst_q)
    BY <1>6 DEF Table!Stream, Table!NoPush
  <2>2. ~eop_fetched /\ fill_armed /\ (la_cnt < LOOKAHEAD \/ Table!do_pop)
    BY <1>6 DEF Table!do_push, Table!la_has_room
  <2>3. tbl[word_ptr % TBL_WORDS] = tbl[word_ptr]
    BY <1>4, <1>6
  <2>4. /\ la_vld' = Table!ValidAfterPop \union {Table!ins_idx}
        /\ la_cnt' = (IF Table!do_pop THEN la_cnt ELSE la_cnt + 1)
        /\ word_ptr' = word_ptr + 1 /\ err_malformed_o' = err_malformed_o
        /\ eop_fetched' = tbl[word_ptr % TBL_WORDS].eop
        /\ cycle_offset_q' = IF tbl[word_ptr % TBL_WORDS].eop THEN tbl[word_ptr % TBL_WORDS].off
                                                          ELSE cycle_offset_q
    BY <2>1 DEF Table!Push
  <2> QED  BY <2>1, <2>2, <2>3, <2>4
<1>7. ASSUME ~Table!do_push
      PROVE  /\ fill_armed' = (fill_armed \/ resolver_rst_q)
             /\ la_index' = Table!IndexAfterPop /\ la_vld' = Table!ValidAfterPop
             /\ la_cnt' = (IF Table!do_pop THEN la_cnt - 1 ELSE la_cnt) /\ word_ptr' = word_ptr
             /\ eop_fetched' = (eop_fetched \/ Table!malformed_now)
             /\ cycle_offset_q' = IF Table!malformed_now THEN 0 ELSE cycle_offset_q
             /\ err_malformed_o' = (err_malformed_o \/ Table!malformed_now)
  BY <1>5, <1>7, Zenon DEF Table!Stream, Table!Push, Table!NoPush, Table!IndexAfterPush
<1>8. Table!ValidAfterPop = IF Table!do_pop THEN 0 .. la_cnt - 2 ELSE 0 .. la_cnt - 1
  <2>1. la_vld = 0 .. la_cnt - 1 /\ la_cnt \in 0 .. LOOKAHEAD
    BY <1>1 DEF LookaheadIsWindow, PrefetchType
  <2>2. CASE Table!do_pop
    <3>1. Table!ValidAfterPop = {i \in Table!Slots : i + 1 \in 0 .. la_cnt - 1}
      BY <2>1, <2>2 DEF Table!ValidAfterPop
    <3>2. \A i : i \in {j \in Table!Slots : j + 1 \in 0 .. la_cnt - 1} <=> i \in 0 .. la_cnt - 2
      BY <2>1, SMT DEF Table!Slots
    <3> QED  BY <2>2, <3>1, <3>2, Zenon
  <2>3. CASE ~Table!do_pop
    BY <2>1, <2>3 DEF Table!ValidAfterPop
  <2> QED  BY <2>2, <2>3
<1>9. la_cnt' \in 0 .. LOOKAHEAD /\ word_ptr' \in 0 .. TBL_WORDS /\ la_cnt' <= word_ptr'
  <2>1. /\ la_cnt \in 0 .. LOOKAHEAD /\ word_ptr \in 0 .. TBL_WORDS /\ la_cnt <= word_ptr
        /\ Table!do_pop => la_cnt > 0
    BY <1>1, <1>4 DEF LookaheadIsWindow, PrefetchType
  <2>2. CASE Table!do_push
    BY <1>4, <1>6, <2>1, <2>2, SMT DEF Words
  <2>3. CASE ~Table!do_push
    BY <1>7, <2>1, <2>3, SMT
  <2> QED  BY <2>2, <2>3
<1>10. PrefetchType'
  <2>1. eop_fetched' \in BOOLEAN /\ fill_armed' \in BOOLEAN /\ err_malformed_o' \in BOOLEAN
    <3>1. CASE Table!do_push
      BY <1>1, <1>4, <1>6, <3>1 DEF PrefetchType, Entries
    <3>2. CASE ~Table!do_push
      BY <1>1, <1>7, <3>2, Zenon DEF PrefetchType, Table!malformed_now
    <3> QED  BY <3>1, <3>2
  <2>2. table_exhausted_o' \in BOOLEAN
    BY <1>1, Zenon DEF Table!Stream, PrefetchType
  <2> QED  BY <1>1, <1>2, <1>3, <1>5, <1>9, <2>1, <2>2, Zenon DEF PrefetchType
<1>11. LookaheadIsWindow'
  <2>1. /\ la_cnt \in 0 .. LOOKAHEAD /\ word_ptr \in 0 .. TBL_WORDS /\ la_cnt <= word_ptr
        /\ la_vld = 0 .. la_cnt - 1 /\ la_index \in [Table!Slots -> Nat]
        /\ Table!do_pop => la_cnt > 0
    BY <1>1, <1>4 DEF LookaheadIsWindow, PrefetchType
  <2>2. la_vld' = 0 .. la_cnt' - 1
    <3>1. CASE Table!do_push
      <4>1. /\ la_vld' = Table!ValidAfterPop \union {Table!ins_idx}
            /\ la_cnt' = IF Table!do_pop THEN la_cnt ELSE la_cnt + 1
        BY <1>6, <3>1
      <4>2. (0 .. la_cnt - 1) \union {la_cnt} = 0 .. la_cnt
        BY <2>1
      <4>3. Table!do_pop => (0 .. la_cnt - 2) \union {la_cnt - 1} = 0 .. la_cnt - 1
        BY <2>1
      <4>4. la_cnt + 1 - 1 = la_cnt
        BY <2>1
      <4>5. CASE Table!do_pop
        <5>1. la_cnt' = la_cnt /\ la_vld' = (0 .. la_cnt - 2) \union {la_cnt - 1}
          BY <1>8, <4>1, <4>5, Zenon DEF Table!ins_idx
        <5> QED  BY <4>3, <4>5, <5>1
      <4>6. CASE ~Table!do_pop
        <5>1. la_cnt' = la_cnt + 1 /\ la_vld' = (0 .. la_cnt - 1) \union {la_cnt}
          BY <1>8, <4>1, <4>6, Zenon DEF Table!ins_idx
        <5> QED  BY <4>2, <4>4, <5>1
      <4> QED  BY <4>5, <4>6
    <3>2. CASE ~Table!do_push
      <4>1. la_vld' = Table!ValidAfterPop /\ la_cnt' = IF Table!do_pop THEN la_cnt - 1 ELSE la_cnt
        BY <1>7, <3>2
      <4>2. la_cnt - 1 - 1 = la_cnt - 2
        BY <2>1
      <4> QED  BY <1>8, <4>1, <4>2, Zenon
    <3> QED  BY <3>1, <3>2
  \* What a pop leaves in a slot is the word that belongs there.
  <2>3. ASSUME NEW i \in Table!ValidAfterPop
        PROVE  /\ i \in Table!Slots
               /\ Table!IndexAfterPop[i] = tbl[IF Table!do_pop THEN word_ptr - la_cnt + (i + 1) ELSE word_ptr - la_cnt + i].idx
    <3>1. \A j \in 0 .. la_cnt - 1 : la_index[j] = tbl[word_ptr - la_cnt + j].idx
      BY <1>1 DEF LookaheadIsWindow, Held
    <3>2. CASE Table!do_pop
      <4>1. i \in Table!Slots /\ i + 1 \in 0 .. la_cnt - 1 /\ i # LOOKAHEAD - 1
        BY <1>8, <2>1, <2>3, <3>2, SMT DEF Table!Slots
      <4>2. Table!IndexAfterPop[i] = la_index[i + 1]
        BY <3>2, <4>1 DEF Table!IndexAfterPop
      <4> QED  BY <3>1, <3>2, <4>1, <4>2
    <3>3. CASE ~Table!do_pop
      <4>1. i \in Table!Slots /\ i \in 0 .. la_cnt - 1
        BY <1>8, <2>1, <2>3, <3>3, SMT DEF Table!Slots
      <4> QED  BY <3>1, <3>3, <4>1 DEF Table!IndexAfterPop
    <3> QED  BY <3>2, <3>3
  <2>4. ASSUME NEW i \in la_vld'  PROVE la_index'[i] = tbl'[word_ptr' - la_cnt' + i].idx
    <3>1. CASE Table!do_push /\ i = Table!ins_idx
      <4>1. word_ptr' - la_cnt' + i = word_ptr
        <5>1. /\ word_ptr' = word_ptr + 1 /\ la_cnt' = (IF Table!do_pop THEN la_cnt ELSE la_cnt + 1)
              /\ i = IF Table!do_pop THEN la_cnt - 1 ELSE la_cnt
          BY <1>6, <3>1, Zenon DEF Table!ins_idx
        <5> QED  BY <2>1, <5>1, SMT
      <4>2. la_index'[i] = tbl[word_ptr].idx
        BY <1>4, <1>5, <3>1 DEF Table!IndexAfterPush
      <4> QED  BY <1>2, <4>1, <4>2
    <3>2. CASE Table!do_push /\ i # Table!ins_idx
      <4>1. i \in Table!ValidAfterPop
        BY <1>6, <3>2, <2>4
      <4>2. la_index'[i] = Table!IndexAfterPop[i]
        BY <1>4, <1>5, <2>3, <3>2, <4>1 DEF Table!IndexAfterPush
      <4>3. word_ptr' - la_cnt' + i = IF Table!do_pop THEN word_ptr - la_cnt + (i + 1) ELSE word_ptr - la_cnt + i
        <5>1. word_ptr' = word_ptr + 1 /\ la_cnt' = IF Table!do_pop THEN la_cnt ELSE la_cnt + 1
          BY <1>6, <3>2, Zenon
        <5>2. i \in Int /\ word_ptr \in Int /\ la_cnt \in Int
          BY <2>1, <2>3, <4>1, SMT DEF Table!Slots
        <5> QED  BY <5>1, <5>2, SMT
      <4> QED  BY <1>2, <2>3, <4>1, <4>2, <4>3
    <3>3. CASE ~Table!do_push
      <4>1. i \in Table!ValidAfterPop
        BY <1>7, <3>3, <2>4
      <4>2. word_ptr' - la_cnt' + i = IF Table!do_pop THEN word_ptr - la_cnt + (i + 1) ELSE word_ptr - la_cnt + i
        <5>1. word_ptr' = word_ptr /\ la_cnt' = IF Table!do_pop THEN la_cnt - 1 ELSE la_cnt
          BY <1>7, <3>3, Zenon
        <5>2. i \in Int /\ word_ptr \in Int /\ la_cnt \in Int
          BY <2>1, <2>3, <4>1, SMT DEF Table!Slots
        <5> QED  BY <5>1, <5>2, SMT
      <4>3. la_index'[i] = Table!IndexAfterPop[i]
        BY <1>7, <3>3
      <4> QED  BY <1>2, <2>3, <4>1, <4>2, <4>3
    <3> QED  BY <3>1, <3>2, <3>3
  <2> QED  BY <1>9, <2>2, <2>4 DEF LookaheadIsWindow, Held
<1>12. ArmedFirst'
  <2>1. fill_armed => fill_armed'
    BY Zenon DEF Table!Stream
  <2>2. la_cnt' > 0 => fill_armed'
    <3>1. CASE Table!do_push
      BY <1>6, <3>1
    <3>2. CASE ~Table!do_push
      <4>1. la_cnt' > 0 => la_cnt > 0
        BY <1>1, <1>7, <3>2, SMT DEF PrefetchType
      <4> QED  BY <1>1, <2>1, <4>1, Zenon DEF ArmedFirst
    <3> QED  BY <3>1, <3>2
  <2>3. Table!entry_ready_o' => la_cnt' > 0
    <3>1. la_vld' = 0 .. la_cnt' - 1
      BY <1>11 DEF LookaheadIsWindow
    <3>2. Table!entry_ready_o' => 0 \in la_vld'
      BY Zenon DEF Table!entry_ready_o
    <3>3. 0 \in 0 .. la_cnt' - 1 => la_cnt' > 0
      <4>1. \A n \in 0 .. LOOKAHEAD : 0 \in 0 .. n - 1 => n > 0
        BY SMT
      <4> QED  BY <1>9, <4>1, Zenon
    <3> QED  BY <3>1, <3>2, <3>3, Zenon
  <2>4. pass' => fill_armed'
    BY <1>1, <1>3, <2>1, <2>2, <2>3, Zenon DEF ArmedFirst
  <2> QED  BY <1>3, <2>2, <2>4, Zenon DEF ArmedFirst
<1>13. Table!ptr_at_end => Table!ptr_at_end'
  <2>1. word_ptr \in Nat /\ word_ptr' \in Nat /\ word_ptr' >= word_ptr
    <3>1. word_ptr' = word_ptr + 1 \/ word_ptr' = word_ptr
      BY <1>6, <1>7, Zenon
    <3> QED  BY <1>1, <3>1, SMT DEF PrefetchType
  <2>2. Table!tbl_len_clip' = Table!tbl_len_clip /\ Table!tbl_len_clip \in Nat
    BY <1>1, <1>2 DEF Table!tbl_len_clip, PrefetchType
  <2> QED  BY <2>1, <2>2, SMT DEF Table!ptr_at_end
\* A pass that pops the last entry held fetches the next on the same edge, unless
\* the pattern or the table has ended.
<1>14. NoStarvation'
  <2>1. SUFFICES ASSUME pass'  PROVE la_cnt' > 0 \/ eop_fetched' \/ Table!ptr_at_end'
    BY DEF NoStarvation
  <2>2. CASE Table!entry_ready_o'
    <3>1. la_vld' = 0 .. la_cnt' - 1
      BY <1>11 DEF LookaheadIsWindow
    <3> QED  BY <1>9, <2>2, <3>1, SMT DEF Table!entry_ready_o
  <2>3. CASE pass
    <3>1. la_cnt \in 0 .. LOOKAHEAD /\ (Table!do_pop => la_cnt > 0) /\ fill_armed
      BY <1>1, <1>4, <2>3 DEF PrefetchType, ArmedFirst
    <3>2. CASE eop_fetched \/ Table!ptr_at_end
      BY <1>6, <1>7, <1>13, <3>2
    <3>3. CASE ~eop_fetched /\ ~Table!ptr_at_end
      <4>1. la_cnt > 0 /\ ~table_exhausted_o
        BY <1>1, <2>3, <3>3 DEF NoStarvation, FlaggedAtEnd
      <4>2. CASE Table!do_push
        BY <1>6, <3>1, <4>1, <4>2, SMT
      <4>3. CASE ~Table!do_push
        <5>1. ~Table!do_pop
          BY <3>1, <3>3, <4>1, <4>3 DEF Table!do_push, Table!la_has_room
        <5> QED  BY <1>7, <4>1, <4>3, <5>1
      <4> QED  BY <4>2, <4>3
    <3> QED  BY <3>2, <3>3
  <2> QED  BY <1>3, <2>1, <2>2, <2>3
\* The word fetched is the last of the ones before word_ptr; a malformed table has
\* no word left to fetch.
<1>15. OffsetIsOfEop'
  <2>1. CASE Table!do_push
    <3>1. /\ word_ptr \in Words /\ word_ptr' = word_ptr + 1 /\ tbl' = tbl
          /\ cycle_offset_q' = IF tbl[word_ptr].eop THEN tbl[word_ptr].off ELSE cycle_offset_q
          /\ ~err_malformed_o /\ ~err_malformed_o'
      BY <1>1, <1>2, <1>4, <1>6, <2>1 DEF FlaggedAtEnd, Table!do_push
    <3>2. \A w : w \in EopsFetched' <=> w \in EopsFetched \/ (w = word_ptr /\ tbl[word_ptr].eop)
      BY <3>1, SMT DEF EopsFetched, Words
    <3>3. \A w \in EopsFetched : w \in Nat /\ w < word_ptr /\ word_ptr \in Nat
      BY <3>1, SMT DEF EopsFetched, Words
    <3>4. CASE tbl[word_ptr].eop
      <4>1. word_ptr \in EopsFetched' /\ cycle_offset_q' = tbl[word_ptr].off
        BY <3>1, <3>2, <3>4
      <4>2. ASSUME NEW w \in EopsFetched', \A v \in EopsFetched' : v <= w
            PROVE  w = word_ptr
        <5>1. word_ptr <= w
          BY <4>1, <4>2
        <5> QED  BY <3>2, <3>3, <4>2, <5>1, SMT
      <4> QED  BY <3>1, <4>1, <4>2 DEF OffsetIsOfEop
    <3>5. CASE ~tbl[word_ptr].eop
      <4>1. EopsFetched' = EopsFetched /\ cycle_offset_q' = cycle_offset_q
        BY <3>1, <3>2, <3>5
      <4> QED  BY <1>1, <3>1, <4>1 DEF OffsetIsOfEop
    <3> QED  BY <3>4, <3>5
  <2>2. CASE ~Table!do_push
    <3>1. EopsFetched' = EopsFetched /\ tbl' = tbl
      BY <1>2, <1>7, <2>2 DEF EopsFetched
    <3> QED  BY <1>1, <1>7, <2>2, <3>1 DEF OffsetIsOfEop
  <2> QED  BY <2>1, <2>2
<1>16. FlaggedAtEnd'
  <2>1. table_exhausted_o' \/ err_malformed_o' => Table!ptr_at_end
    <3>1. table_exhausted_o' => Table!ptr_at_end
      BY <1>1 DEF Table!Stream, FlaggedAtEnd
    <3>2. err_malformed_o' => Table!ptr_at_end
      BY <1>1, <1>6, <1>7 DEF FlaggedAtEnd, Table!malformed_now
    <3> QED  BY <3>1, <3>2
  <2> QED  BY <1>13, <2>1 DEF FlaggedAtEnd
<1> QED  BY <1>10, <1>11, <1>12, <1>14, <1>15, <1>16 DEF PrefetchInv

\* The initial states have nothing fetched.
LEMMA InitPrefetchInv == Init => PrefetchInv
<1> SUFFICES ASSUME Init PROVE PrefetchInv  OBVIOUS
<1> USE TableGeometry
<1>1. tbl \in [Words -> Entries]
  BY TablesAssumption DEF Init
<1>2. la_index \in [Table!Slots -> Nat]
  BY DEF Init, Table!Init
<1>3. PrefetchType
  <2>1. word_ptr \in 0 .. TBL_WORDS /\ la_cnt \in 0 .. LOOKAHEAD /\ cfg_tbl_len \in Nat
    BY SMT DEF Init, Table!Init
  <2> QED  BY <1>1, <1>2, <2>1, Zenon DEF Init, Table!Init, PrefetchType
<1>4. LookaheadIsWindow
  BY SMT DEF Init, Table!Init, LookaheadIsWindow
<1> QED  BY <1>3, <1>4, SMT DEF Init, Table!Init, PrefetchInv, ArmedFirst, NoStarvation, OffsetIsOfEop,
                       EopsFetched, FlaggedAtEnd, Words

-----------------------------------------------------------------------------
\* Every edge keeps the invariant.
LEMMA TickKeepsInv == PrefetchInv /\ [Next]_vars => PrefetchInv'
<1> SUFFICES ASSUME PrefetchInv, [Next]_vars PROVE PrefetchInv'  OBVIOUS
<1>1. CASE Tick
  <2>1. Table!NewBatch \/ Table!SoftReset \/ Table!Stream
    BY <1>1 DEF Tick, Table!Edge
  <2> QED  BY <1>1, <2>1, ResetKeepsInv, StreamKeepsInv
<1>2. CASE UNCHANGED vars
  BY <1>2 DEF vars, regs, PrefetchInv, PrefetchType, ArmedFirst, LookaheadIsWindow, Held, NoStarvation,
              OffsetIsOfEop, EopsFetched, FlaggedAtEnd, Table!ptr_at_end, Table!tbl_len_clip
<1> QED  BY <1>1, <1>2 DEF Next

\* The inductive invariant of the prefetch.
LEMMA PrefetchInvAlways == Spec => []PrefetchInv
BY InitPrefetchInv, TickKeepsInv, PTL DEF Spec

\* fi_table_ctrl.v:190-241: for every table and lookahead depth the lookahead is a window
\* on the table, also when a push and a pop meet.
THEOREM WindowOnTable == Spec => []LookaheadIsWindow
<1>1. PrefetchInv => LookaheadIsWindow
  BY DEF PrefetchInv
<1> QED  BY <1>1, PrefetchInvAlways, PTL

\* fi_table_ctrl.v:265-269: entry_ready_o is enough for a whole pass, however long the
\* pattern and however fast it is consumed: the stream never runs dry inside it.
THEOREM NeverStarves == Spec => []NoStarvation
<1>1. PrefetchInv => NoStarvation
  BY DEF PrefetchInv
<1> QED  BY <1>1, PrefetchInvAlways, PTL

\* fi_table_ctrl.v:182-188, 219-222, 231-235: the offset handed to the FI Time Controller,
\* on the edge that releases the reset and on every other, is that of the EOP entry
\* fetched last.
THEOREM OffsetFromEop == Spec => []OffsetIsOfEop
<1>1. PrefetchInv => OffsetIsOfEop
  BY DEF PrefetchInv
<1> QED  BY <1>1, PrefetchInvAlways, PTL

\* fi_table_ctrl.v:150-156, 241: a batch that is over fetches nothing, offers nothing new
\* and flags nothing, whatever resets follow, until the next one starts.
THEOREM EndedBatchesStay == Spec => BatchStaysEnded
<1>1. ASSUME PrefetchInv, Tick, table_exhausted_o, ~batch_start
      PROVE  /\ table_exhausted_o'
             /\ UNCHANGED <<word_ptr, cycle_offset_q, err_malformed_o>>
             /\ la_vld' \subseteq la_vld
  <2>1. Table!SoftReset \/ Table!Stream
    BY <1>1 DEF Tick, Table!Edge, Table!NewBatch
  <2>2. CASE Table!SoftReset
    BY <1>1, <2>2 DEF Table!SoftReset
  <2>3. CASE Table!Stream
    <3>1. Table!NoPush /\ ~Table!malformed_now /\ table_exhausted_o'
      BY <1>1, <2>3 DEF Table!Stream, Table!Push, Table!do_push, Table!malformed_now
    <3>2. UNCHANGED <<word_ptr, cycle_offset_q, err_malformed_o>>
      <4>1. err_malformed_o \in BOOLEAN
        BY <1>1 DEF PrefetchInv, PrefetchType
      <4> QED  BY <3>1, <4>1 DEF Table!NoPush
    \* a pop moves the window of valid slots down by one
    <3>3. la_vld' \subseteq la_vld
      <4>1. la_vld = 0 .. la_cnt - 1 /\ la_cnt \in 0 .. LOOKAHEAD
        BY <1>1 DEF PrefetchInv, PrefetchType, LookaheadIsWindow
      <4>2. \A i \in Table!Slots : i + 1 \in 0 .. la_cnt - 1 => i \in 0 .. la_cnt - 1
        BY <4>1, TableGeometry, SMT DEF Table!Slots
      <4> QED  BY <3>1, <4>1, <4>2, Zenon DEF Table!NoPush, Table!ValidAfterPop
    <3> QED  BY <3>1, <3>2, <3>3
  <2> QED  BY <2>1, <2>2, <2>3
<1>2. ASSUME PrefetchInv, [Next]_vars
      PROVE  [table_exhausted_o /\ ~batch_start =>
                /\ table_exhausted_o'
                /\ UNCHANGED <<word_ptr, cycle_offset_q, err_malformed_o>>
                /\ la_vld' \subseteq la_vld]_vars
  BY <1>1, <1>2 DEF Next
<1> QED  BY <1>2, PrefetchInvAlways, PTL DEF Spec, BatchStaysEnded
=============================================================================
