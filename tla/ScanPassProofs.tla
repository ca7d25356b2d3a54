---------------------------- MODULE ScanPassProofs ----------------------------
(***************************************************************************)
(* Proofs about the scan pass for every chain length, every pattern and    *)
(* every setting of the controller's parameters: a pass restores the       *)
(* chain, a pass that was fed in time hits exactly the cells of its        *)
(* pattern, and from outside it is the atomic injection of FlipSpec.       *)
(***************************************************************************)
EXTENDS ScanPass, SequenceTheorems, TLAPS

\* The loaded pattern is a sequence of naturals, and so the head of the stream
\* is always a natural number.
LEMMA EntryIndexNat == TypeOK => pat \in Seq(Nat) /\ entry_index \in Nat
  <1> SUFFICES ASSUME TypeOK PROVE pat \in Seq(Nat) /\ entry_index \in Nat
    OBVIOUS
  <1>1. pat \in Seq(Nat)
    BY PatternsAssumption, EmptySeq DEF TypeOK
  <1>2. CASE entry_valid
    BY <1>1, <1>2 DEF entry_index, entry_valid, TypeOK
  <1>3. CASE ~entry_valid
    BY <1>1, <1>3 DEF entry_index
  <1> QED
    BY <1>2, <1>3

\* The shift step of the head entry and the scrub length are natural numbers,
\* and a scrub is never longer than the chain.
LEMMA DerivedNat ==
  TypeOK => /\ Scan!hit_step_of \in Nat
            /\ Scan!scrub_n \in Nat
            /\ Scan!scrub_n <= cfg_scan_len
  <1> SUFFICES ASSUME TypeOK
               PROVE  /\ Scan!hit_step_of \in Nat
                      /\ Scan!scrub_n \in Nat
                      /\ Scan!scrub_n <= cfg_scan_len
    OBVIOUS
  <1>1. cfg_scan_len \in Nat
    BY ScanLenAssumption DEF TypeOK
  <1>2. Scan!hit_step_of \in Nat
    BY <1>1, EntryIndexNat DEF Scan!hit_step_of, Scan!L
  <1>3. Scan!scrub_n \in Nat /\ Scan!scrub_n <= cfg_scan_len
    BY <1>1, ParamsAssumption DEF Scan!scrub_n, Scan!L
  <1> QED
    BY <1>2, <1>3

-----------------------------------------------------------------------------
(* What an edge does to the controller's registers. *)

\* The counters stay natural numbers.
LEMMA EdgeNat ==
  ASSUME TypeOK, Scan!Edge
  PROVE  /\ run_cnt' \in Nat /\ run_end_q' \in Nat /\ tm_tail_cnt' \in 0..3
         /\ hit_step_q' \in Nat /\ hit_step_nx' \in Nat
  <1> USE DerivedNat, ScanLenAssumption, ParamsAssumption DEF TypeOK, Scan!RegsTypeOK
  <1>1. CASE Scan!Shift
    BY <1>1 DEF Scan!Shift, Scan!SlideSteps
  <1>2. CASE Scan!LastShift
    BY <1>2 DEF Scan!LastShift, Scan!SlideSteps
  <1>3. CASE Scan!Lead
    BY <1>3 DEF Scan!Lead
  <1>4. CASE Scan!Tail
    BY <1>4 DEF Scan!Tail
  <1>5. CASE Scan!ArmInject
    BY <1>5 DEF Scan!ArmInject, Scan!arm0, Scan!L, Scan!run_end_calc
  <1>6. CASE Scan!ArmScrub
    BY <1>6 DEF Scan!ArmScrub, Scan!scrub_none, Scan!scrub_end_calc
  <1>7. CASE Scan!SkipScrub
    BY <1>7 DEF Scan!SkipScrub
  <1>8. CASE Scan!Idle
    BY <1>8 DEF Scan!Idle
  <1> QED
    BY <1>1, <1>2, <1>3, <1>4, <1>5, <1>6, <1>7, <1>8 DEF Scan!Edge

\* The control bits stay Boolean.
LEMMA EdgeBoolean ==
  ASSUME TypeOK, Scan!Edge
  PROVE  /\ start_d' \in BOOLEAN /\ run' \in BOOLEAN /\ scrub_q' \in BOOLEAN
         /\ scan_en_o' \in BOOLEAN /\ clk_gate' \in BOOLEAN
         /\ done_o' \in BOOLEAN /\ scrub_done_o' \in BOOLEAN
         /\ tm_lead' \in BOOLEAN /\ tm_q' \in BOOLEAN /\ tm_half' \in BOOLEAN
         /\ hit_vld_q' \in BOOLEAN /\ hit_vld_nx' \in BOOLEAN
         /\ err_order_o' \in BOOLEAN
  <1> USE DEF TypeOK, Scan!RegsTypeOK
  <1>v. entry_valid \in BOOLEAN
    BY DEF entry_valid
  <1>0. start_d' \in BOOLEAN /\ err_order_o' \in BOOLEAN /\ tm_half' \in BOOLEAN
    <2>1. Scan!Always
      BY DEF Scan!Edge
    <2>2. start_d' \in BOOLEAN
      BY <2>1 DEF Scan!Always
    <2>3. err_order_o' \in BOOLEAN
      BY <2>1, Zenon DEF Scan!Always
    <2>4. tm_half' \in BOOLEAN
      BY <2>1, Zenon DEF Scan!Always
    <2> QED
      BY <2>2, <2>3, <2>4
  <1>1. CASE Scan!Shift
    BY <1>v, <1>0, <1>1, Zenon DEF Scan!Shift, Scan!SlideValid
  <1>2. CASE Scan!LastShift
    <2>1. tm_q' \in BOOLEAN
      BY <1>2, Zenon DEF Scan!LastShift
    <2>2. scrub_done_o' \in BOOLEAN /\ done_o' \in BOOLEAN
      BY <1>2, Zenon DEF Scan!LastShift
    <2> QED
      BY <1>0, <1>2, <2>1, <2>2 DEF Scan!LastShift
  <1>3. CASE Scan!Lead
    BY <1>0, <1>3, Zenon DEF Scan!Lead
  <1>4. CASE Scan!Tail
    BY <1>0, <1>4, Zenon DEF Scan!Tail
  <1>5. CASE Scan!ArmInject
    BY <1>v, <1>0, <1>5, Zenon DEF Scan!ArmInject
  <1>6. CASE Scan!ArmScrub
    BY <1>0, <1>6, Zenon DEF Scan!ArmScrub
  <1>7. CASE Scan!SkipScrub
    BY <1>0, <1>7, Zenon DEF Scan!SkipScrub
  <1>8. CASE Scan!Idle
    BY <1>0, <1>8, Zenon DEF Scan!Idle
  <1> QED
    BY <1>1, <1>2, <1>3, <1>4, <1>5, <1>6, <1>7, <1>8, Zenon DEF Scan!Edge

\* Every register keeps its type.
LEMMA EdgeRegs == ASSUME TypeOK, Scan!Edge PROVE Scan!RegsTypeOK'
  BY EdgeNat, EdgeBoolean DEF Scan!RegsTypeOK
-----------------------------------------------------------------------------
(* What an edge does to the chain. *)

\* The bit fed into the chain is a bit.
LEMMA ScanInBit == TypeOK => Scan!scan_in_o \in Bit
  BY ScanLenAssumption DEF TypeOK, Scan!scan_in_o, Bit, Cells

\* One tick keeps every variable's type.
LEMMA TickType == ASSUME TypeOK, Phases, Tick PROVE TypeOK'
  <1> USE ScanLenAssumption
  <1>1. Scan!RegsTypeOK'
    BY EdgeRegs DEF Tick
  <1>2. /\ start' \in BOOLEAN /\ ready' \in BOOLEAN /\ scrub_req' \in BOOLEAN
        /\ cfg_scan_len' \in {0, ScanLen}
    BY DEF Tick, Inputs, TypeOK
  <1>3. gate_q' \in BOOLEAN /\ off' \in BOOLEAN
    <2>1. gate_q' \in BOOLEAN
      BY DEF Tick, FreezeGate, TypeOK, Scan!RegsTypeOK
    <2>2. off' \in BOOLEAN
      BY Zenon DEF Tick, FreezeGate, TypeOK
    <2> QED
      BY <2>1, <2>2
  <1>4. pat' \in Patterns \union {<<>>} /\ ptr' \in 1 .. Len(pat') + 1
    <2>1. pat' = pat /\ Len(pat) \in Nat
      BY EntryIndexNat, LenProperties DEF Tick, Stream
    <2>2. CASE Scan!entry_pop_o
      BY <2>1, <2>2 DEF Tick, Stream, Scan!entry_pop_o, entry_valid, TypeOK
    <2>3. CASE ~Scan!entry_pop_o
      BY <2>1, <2>3 DEF Tick, Stream, TypeOK
    <2> QED
      BY <2>2, <2>3
  <1>5. /\ chain' \in [Cells -> Bit] /\ orig' \in [Cells -> Bit]
        /\ flips' \subseteq Cells
    <2>1. CASE scan_en_o
      <3>1. chain' \in [Cells -> Bit]
        BY <2>1, ScanInBit DEF Tick, Chain, Shifted, TypeOK, Cells
      <3>2. Scan!hit => ScanLen - 1 - run_cnt \in Cells
        BY DEF Scan!hit, Phases, Cells, TypeOK, Scan!RegsTypeOK
      <3> QED
        BY <2>1, <3>1, <3>2 DEF Tick, Chain, TypeOK
    <2>2. CASE ~scan_en_o
      BY <2>2 DEF Tick, Chain
    <2> QED
      BY <2>1, <2>2
  <1> QED
    BY <1>1, <1>2, <1>3, <1>4, <1>5 DEF TypeOK

\* One tick moves the controller along its phases.
LEMMA TickPhases == ASSUME TypeOK, Phases, Tick PROVE Phases'
  <1> USE ScanLenAssumption, DerivedNat DEF TypeOK, Scan!RegsTypeOK, Phases
  <1>1. gate_q' = clk_gate /\ cfg_scan_len' \in {cfg_scan_len, ScanLen}
    BY DEF Tick, FreezeGate, Inputs
  <1>2. cfg_scan_len = ScanLen => Scan!scrub_n' = Scan!scrub_n
    BY <1>1 DEF Scan!scrub_n, Scan!L
  <1>3. CASE Scan!Shift
    BY <1>1, <1>2, <1>3 DEF Scan!Shift
  <1>4. CASE Scan!LastShift
    BY <1>1, <1>4 DEF Scan!LastShift
  <1>5. CASE Scan!Lead
    BY <1>1, <1>2, <1>5 DEF Scan!Lead
  <1>6. CASE Scan!Tail
    BY <1>1, <1>6 DEF Scan!Tail
  <1>7. CASE Scan!ArmInject
    BY <1>1, <1>7 DEF Scan!ArmInject, Scan!arm0, Scan!busy, Scan!L, Scan!run_end_calc
  <1>8. CASE Scan!ArmScrub
    BY <1>1, <1>2, <1>8 DEF Scan!ArmScrub, Scan!arm_s, Scan!busy, Scan!scrub_none,
                          Scan!scrub_end_calc
  <1>9. CASE Scan!SkipScrub
    BY <1>1, <1>9 DEF Scan!SkipScrub, Scan!arm_s, Scan!busy
  <1>10. CASE Scan!Idle
    BY <1>1, <1>10 DEF Scan!Idle, Scan!busy
  <1> QED
    BY <1>3, <1>4, <1>5, <1>6, <1>7, <1>8, <1>9, <1>10 DEF Tick, Scan!Edge
\* One shift of an injection pass rotates the chain by one cell, and records a
\* flip of the cell that comes round exactly when the armed target is hit.
LEMMA ShiftRotates ==
  ASSUME TypeOK, Phases, Rotated, Tick, run, ~scrub_q
  PROVE  LET k == run_cnt + 1 IN
         /\ \A c \in flips' : c >= ScanLen - k
         /\ \A c \in Cells :
              chain'[c] = IF c >= k THEN orig'[c - k]
                          ELSE LET o == ScanLen - k + c
                               IN  IF o \in flips' THEN 1 - orig'[o] ELSE orig'[o]
  <1> USE ScanLenAssumption DEF TypeOK, Scan!RegsTypeOK, Phases, Cells
  <1>1. /\ chain' = Shifted /\ orig' = orig
        /\ flips' = IF Scan!hit THEN flips \union {ScanLen - 1 - run_cnt} ELSE flips
    BY DEF Tick, Chain
  <1>2. run_cnt \in 0 .. ScanLen - 1
    OBVIOUS
  <1>3. /\ \A c \in flips : c >= ScanLen - run_cnt
        /\ \A c \in Cells :
             chain[c] = IF c >= run_cnt THEN orig[c - run_cnt]
                        ELSE LET o == ScanLen - run_cnt + c
                             IN  IF o \in flips THEN 1 - orig[o] ELSE orig[o]
    BY DEF Rotated
  <1>4. \A c \in flips' : c >= ScanLen - (run_cnt + 1)
    BY <1>1, <1>2, <1>3
  <1>5. ASSUME NEW c \in Cells
        PROVE  chain'[c] = IF c >= run_cnt + 1 THEN orig'[c - (run_cnt + 1)]
                           ELSE LET o == ScanLen - (run_cnt + 1) + c
                                IN  IF o \in flips' THEN 1 - orig'[o] ELSE orig'[o]
    <2>1. CASE c = 0
      <3>1. chain[ScanLen - 1] = orig[ScanLen - 1 - run_cnt]
        BY <1>2, <1>3
      <3>2. ScanLen - 1 - run_cnt \notin flips
        BY <1>2, <1>3
      <3>3. CASE Scan!hit
        <4>1. chain'[c] = 1 - chain[ScanLen - 1]
          BY <1>1, <2>1, <3>3 DEF Shifted, Scan!scan_in_o
        <4> QED
          BY <1>1, <1>2, <2>1, <3>1, <3>3, <4>1
      <3>4. CASE ~Scan!hit
        <4>1. chain'[c] = chain[ScanLen - 1]
          BY <1>1, <2>1, <3>4 DEF Shifted, Scan!scan_in_o
        <4> QED
          BY <1>1, <1>2, <2>1, <3>1, <3>2, <3>4, <4>1
      <3> QED
        BY <3>3, <3>4
    <2>2. CASE c # 0
      <3>1. c - 1 \in Cells /\ chain'[c] = chain[c - 1]
        BY <1>1, <2>2 DEF Shifted
      <3>2. CASE c >= run_cnt + 1
        BY <1>1, <1>2, <1>3, <3>1, <3>2
      <3>3. CASE c < run_cnt + 1
        <4>1. ScanLen - (run_cnt + 1) + c = ScanLen - run_cnt + (c - 1)
          BY <1>2
        <4>2. ScanLen - run_cnt + (c - 1) # ScanLen - 1 - run_cnt
          BY <1>2, <2>2
        <4>3. ScanLen - run_cnt + (c - 1) \in flips'
                <=> ScanLen - run_cnt + (c - 1) \in flips
          BY <1>1, <4>2
        <4> QED
          BY <1>1, <1>2, <1>3, <3>1, <3>3, <4>1, <4>3
      <3> QED
        BY <1>2, <3>2, <3>3
    <2> QED
      BY <2>1, <2>2
  <1> QED
    BY <1>4, <1>5
\* One shift of a scrub moves the zeros on by one cell.
LEMMA ShiftZeroes ==
  ASSUME TypeOK, Phases, Zeroed, Tick, run, scrub_q
  PROVE  \A c \in Cells : c < run_cnt + 1 => chain'[c] = 0
  <1> USE ScanLenAssumption DEF TypeOK, Scan!RegsTypeOK, Phases, Cells
  <1>1. chain' = Shifted /\ Scan!scan_in_o = 0
    BY DEF Tick, Chain, Scan!scan_in_o
  <1>2. \A c \in Cells : c < run_cnt => chain[c] = 0
    BY DEF Zeroed
  <1> QED
    BY <1>1, <1>2 DEF Shifted

\* One tick keeps the chain a rotation of what it was, and completes it.
LEMMA TickChain ==
  ASSUME RestoreInv, Tick
  PROVE  Rotated' /\ Restored' /\ Zeroed'
  <1> USE ScanLenAssumption DEF RestoreInv
  <1>1. CASE Scan!Shift
    <2>1. /\ run /\ run' = run /\ scrub_q' = scrub_q /\ run_cnt' = run_cnt + 1
          /\ done_o' = FALSE
      BY <1>1 DEF Scan!Shift
    <2>2. Rotated'
      BY <2>1, ShiftRotates DEF Rotated
    <2>3. Zeroed'
      BY <2>1, ShiftZeroes DEF Zeroed
    <2> QED
      BY <2>1, <2>2, <2>3 DEF Restored
  <1>2. CASE Scan!LastShift
    <2>1. run /\ run' = FALSE /\ run_cnt = run_end_q
      BY <1>2 DEF Scan!LastShift
    <2>2. done_o' <=> ~scrub_q
      BY <1>2, Zenon DEF Scan!LastShift
    <2>3. ASSUME ~scrub_q PROVE chain' = Flipped(orig', flips')
      <3>1. run_cnt + 1 = ScanLen
        BY <2>1, <2>3 DEF Phases, TypeOK, Scan!RegsTypeOK
      <3>2. \A c \in Cells : chain'[c] = IF c \in flips' THEN 1 - orig'[c] ELSE orig'[c]
        <4> TAKE c \in Cells
        <4>1. ~(c >= ScanLen) /\ ScanLen - ScanLen + c = c
          BY DEF Cells
        <4> QED
          BY <2>1, <2>3, <3>1, <4>1, ShiftRotates
      <3>3. chain' \in [Cells -> Bit]
        BY TickType DEF TypeOK
      <3> QED
        BY <3>2, <3>3 DEF Flipped
    <2> QED
      BY <2>1, <2>2, <2>3 DEF Rotated, Restored, Zeroed
  <1>3. CASE Scan!Lead
    <2>1. run_cnt' = 0 /\ done_o' = FALSE /\ ~scan_en_o
      BY <1>3 DEF Scan!Lead, Phases
    <2>2. orig' = chain' /\ flips' = {}
      BY <2>1 DEF Tick, Chain
    <2>3. \A c \in Cells : c >= 0 /\ c - 0 = c /\ ~(c < 0)
      BY DEF Cells
    <2> QED
      BY <2>1, <2>2, <2>3 DEF Rotated, Restored, Zeroed
  <1>4. CASE Scan!Tail \/ Scan!ArmInject \/ Scan!ArmScrub \/ Scan!SkipScrub \/ Scan!Idle
    <2>1. ~run' /\ done_o' = FALSE
      BY <1>4 DEF Scan!Tail, Scan!ArmInject, Scan!ArmScrub, Scan!SkipScrub, Scan!Idle,
                  Scan!arm0, Scan!arm_s, Scan!busy
    <2> QED
      BY <2>1 DEF Rotated, Restored, Zeroed
  <1> QED
    BY <1>1, <1>2, <1>3, <1>4 DEF Tick, Scan!Edge

-----------------------------------------------------------------------------
(* Invariance. *)

\* The invariant holds at power-on.
LEMMA InitRestoreInv == Init => RestoreInv
  <1> SUFFICES ASSUME Init PROVE RestoreInv
    OBVIOUS
  <1> USE DEF Init, Scan!Init
  <1>1. TypeOK
    <2>1. ptr \in 1 .. Len(pat) + 1
      BY EmptySeq
    <2>2. pat \in Patterns \union {<<>>}
      BY Zenon
    <2>3. Scan!RegsTypeOK
      <3>1. /\ run_cnt \in Nat /\ run_end_q \in Nat /\ tm_tail_cnt \in 0..3
            /\ hit_step_q \in Nat /\ hit_step_nx \in Nat
        OBVIOUS
      <3> QED
        BY <3>1, Zenon DEF Scan!RegsTypeOK
    <2>4. flips \subseteq Cells /\ orig \in [Cells -> Bit]
      OBVIOUS
    <2> QED
      BY <2>1, <2>2, <2>3, <2>4 DEF TypeOK
  <1>2. Phases
    BY DEF Phases
  <1> QED
    BY <1>1, <1>2 DEF RestoreInv, Rotated, Restored, Zeroed

\* A step that leaves the controller, the chain and its history alone leaves
\* what the invariant says of them alone.
LEMMA ChainFramed ==
  ASSUME RestoreInv, UNCHANGED <<run, scrub_q, run_cnt, done_o, chain, orig, flips>>
  PROVE  Rotated' /\ Restored' /\ Zeroed'
  <1>1. Rotated'
    BY DEF RestoreInv, Rotated
  <1>2. Restored'
    BY DEF RestoreInv, Restored, Flipped
  <1>3. Zeroed'
    BY DEF RestoreInv, Zeroed
  <1> QED
    BY <1>1, <1>2, <1>3

\* Loading a pattern touches neither the controller nor the chain.
LEMMA NewPatternRestoreInv == ASSUME RestoreInv, NewPattern PROVE RestoreInv'
  <1> USE DEF RestoreInv, NewPattern, scanRegs, inputs, dut
  <1>1. TypeOK'
    <2>1. pat' \in Seq(Nat)
      BY PatternsAssumption
    <2>2. Len(pat') \in Nat
      BY <2>1, LenProperties
    <2>3. ptr' \in 1 .. Len(pat') + 1
      BY <2>2
    <2> QED
      BY <2>3 DEF TypeOK, Scan!RegsTypeOK
  <1>2. Phases'
    BY DEF Phases, Scan!scrub_n, Scan!L
  <1>3. Rotated' /\ Restored' /\ Zeroed'
    BY ChainFramed
  <1> QED
    BY <1>1, <1>2, <1>3

\* A reset leaves no pass under way, whatever the chain holds.
LEMMA ResetRestoreInv == ASSUME RestoreInv, Reset PROVE RestoreInv'
  <1> USE DEF Reset, Scan!Reset
  <1>1. TypeOK'
    <2>1. ptr' \in 1 .. Len(pat') + 1
      BY EmptySeq
    <2>2. pat' \in Patterns \union {<<>>}
      BY Zenon
    <2>3. Scan!RegsTypeOK'
      <3>1. /\ run_cnt' \in Nat /\ run_end_q' \in Nat /\ tm_tail_cnt' \in 0..3
            /\ hit_step_q' \in Nat /\ hit_step_nx' \in Nat
        OBVIOUS
      <3> QED
        BY <3>1, Zenon DEF Scan!RegsTypeOK
    <2>4. flips' \subseteq Cells /\ orig' \in [Cells -> Bit]
      OBVIOUS
    <2> QED
      BY <2>1, <2>2, <2>3, <2>4 DEF TypeOK
  <1>2. Phases'
    BY DEF Phases
  <1> QED
    BY <1>1, <1>2 DEF RestoreInv, Rotated, Restored, Zeroed

\* RestoreInv is inductive.
LEMMA NextRestoreInv == RestoreInv /\ [Next]_vars => RestoreInv'
  <1> SUFFICES ASSUME RestoreInv, [Next]_vars PROVE RestoreInv'
    OBVIOUS
  <1>1. CASE Tick
    BY <1>1, TickType, TickPhases, TickChain DEF RestoreInv
  <1>2. CASE NewPattern
    BY <1>2, NewPatternRestoreInv
  <1>3. CASE Reset
    BY <1>3, ResetRestoreInv
  <1>4. CASE UNCHANGED vars
    <2> USE <1>4 DEF vars, scanRegs, inputs, stream, dut
    <2>1. TypeOK'
      BY DEF RestoreInv, TypeOK, Scan!RegsTypeOK
    <2>2. Phases'
      BY DEF RestoreInv, Phases, Scan!scrub_n, Scan!L
    <2> QED
      BY <2>1, <2>2, ChainFramed DEF RestoreInv
  <1> QED
    BY <1>1, <1>2, <1>3, <1>4 DEF Next

\* Type correctness: in particular run_cnt never names a cell outside the
\* chain, so a hit always falls on one of its cells.
THEOREM TypeCorrect == Spec => []TypeOK
  <1>1. RestoreInv => TypeOK
    BY DEF RestoreInv
  <1> QED
    BY InitRestoreInv, NextRestoreInv, <1>1, PTL DEF Spec

\* The restore invariant of fi_scan_ctrl.v: for every chain length and every
\* stream of entries, ordered or not, when done_o pulses the chain holds what
\* the last functional edge left in it, except for the cells that were hit.
THEOREM ChainRestored == Spec => []Restored
  <1>1. RestoreInv => Restored
    BY DEF RestoreInv
  <1> QED
    BY InitRestoreInv, NextRestoreInv, <1>1, PTL DEF Spec

\* The edge account of fi_clk_gate.v: a block off the chain is frozen on
\* exactly the edges on which the chain shifts.
THEOREM FreezeExact == Spec => []FreezeAccount
  <1>1. RestoreInv => FreezeAccount
    BY DEF RestoreInv, Phases, FreezeAccount, freeze, TypeOK, Scan!RegsTypeOK
  <1> QED
    BY InitRestoreInv, NextRestoreInv, <1>1, PTL DEF Spec

-----------------------------------------------------------------------------
(* The front end delivers every legal pattern. *)

\* The targets of a legal pattern are cells, and come up one after the other.
LEMMA LegalSteps ==
  ASSUME TypeOK, Legal(pat)
  PROVE  /\ Len(pat) \in Nat
         /\ \A i \in 1 .. Len(pat) : /\ pat[i] \in Cells
                                     /\ StepOf(i) \in 0 .. ScanLen - 1
                                     /\ ScanLen - 1 - StepOf(i) = pat[i]
         /\ \A i, j \in 1 .. Len(pat) : i < j => StepOf(i) < StepOf(j)
  <1> USE ScanLenAssumption
  <1>1. Len(pat) \in Nat
    BY EntryIndexNat, LenProperties
  <1>2. \A i \in 1 .. Len(pat) : pat[i] \in Cells
    BY DEF Legal
  <1>3. \A i \in 1 .. Len(pat) : /\ StepOf(i) \in 0 .. ScanLen - 1
                                 /\ ScanLen - 1 - StepOf(i) = pat[i]
    BY <1>2 DEF StepOf, Cells
  <1>4. ASSUME NEW i \in 1 .. Len(pat), NEW j \in 1 .. Len(pat), i < j
        PROVE  StepOf(i) < StepOf(j)
    <2>1. pat[i] > pat[j]
      BY <1>4 DEF Legal, Descending
    <2> QED
      BY <1>2, <2>1 DEF StepOf, Cells
  <1> QED
    BY <1>1, <1>2, <1>3, <1>4

\* A pass consumes its targets by hits alone: none is stale, none is past the
\* chain.
LEMMA AdvanceIsHit ==
  ASSUME RestoreInv, Legal(pat), run, ~scrub_q,
         NEW c \in 0 .. Len(pat), Consumed(c)
  PROVE  /\ Scan!advance <=> Scan!hit
         /\ Scan!hit <=> hit_vld_q /\ run_cnt = StepOf(c + 1)
         /\ hit_vld_q => c + 1 \in 1 .. Len(pat)
         /\ Scan!entry_pop_o <=> entry_valid /\ Scan!hit
  <1> USE ScanLenAssumption
  <1>1. hit_vld_q => c + 1 \in 1 .. Len(pat) /\ hit_step_q = StepOf(c + 1)
                       /\ hit_step_q >= run_cnt
    BY LegalSteps DEF Consumed, RestoreInv
  <1>2. run_cnt \in Nat /\ run_end_q = ScanLen - 1 /\ hit_step_q \in Nat
    BY DEF RestoreInv, TypeOK, Scan!RegsTypeOK, Phases
  <1>3. hit_vld_q => hit_step_q \in 0 .. ScanLen - 1
    BY <1>1, LegalSteps DEF RestoreInv
  <1>4. Scan!hit <=> hit_vld_q /\ run_cnt = StepOf(c + 1)
    BY <1>1 DEF Scan!hit
  <1>5. ~Scan!stale /\ ~Scan!null_e
    BY <1>1, <1>2, <1>3 DEF Scan!stale, Scan!null_e
  <1>6. Scan!advance <=> Scan!hit
    BY <1>5 DEF Scan!advance
  <1>7. ~Scan!arm0 /\ ~Scan!arm1
    BY DEF Scan!arm0, Scan!arm1, Scan!busy
  <1> QED
    BY <1>1, <1>4, <1>6, <1>7 DEF Scan!entry_pop_o

\* What the stream's head contributes when it is popped.
LEMMA HeadStep ==
  ASSUME RestoreInv, Legal(pat), run \/ tm_lead
  PROVE  entry_valid => ptr \in 1 .. Len(pat) /\ Scan!hit_step_of = StepOf(ptr)
  <1> SUFFICES ASSUME entry_valid
               PROVE  ptr \in 1 .. Len(pat) /\ Scan!hit_step_of = StepOf(ptr)
    OBVIOUS
  <1>1. ptr \in 1 .. Len(pat)
    BY LegalSteps DEF RestoreInv, TypeOK, entry_valid
  <1>2. entry_index = pat[ptr] /\ pat[ptr] \in Cells
    BY <1>1, LegalSteps DEF entry_index, RestoreInv
  <1>3. Scan!L = ScanLen
    BY DEF RestoreInv, Phases, Scan!L
  <1> QED
    BY <1>1, <1>2, <1>3, ScanLenAssumption DEF Scan!hit_step_of, StepOf, Cells

\* One shift flips the next target's cell or none.
LEMMA HitFlips ==
  ASSUME RestoreInv, Legal(pat), run, ~scrub_q, Tick,
         NEW c \in 0 .. Len(pat), Consumed(c)
  PROVE  /\ Scan!hit => flips' = {pat[i] : i \in 1 .. c + 1}
         /\ ~Scan!hit => flips' = {pat[i] : i \in 1 .. c}
  <1>1. flips = {pat[i] : i \in 1 .. c}
    BY DEF Consumed
  <1>2. flips' = IF Scan!hit THEN flips \union {ScanLen - 1 - run_cnt} ELSE flips
    BY Zenon DEF Tick, Chain, RestoreInv, Phases
  <1>3. Scan!hit => c + 1 \in 1 .. Len(pat) /\ ScanLen - 1 - run_cnt = pat[c + 1]
    BY AdvanceIsHit, LegalSteps DEF RestoreInv
  <1>4. 1 .. c + 1 = 1 .. c \union {c + 1}
    BY LegalSteps DEF RestoreInv
  <1> QED
    BY <1>1, <1>2, <1>3, <1>4

\* A shift that is not the last keeps the account: a hit consumes one target
\* and pulls one from the stream, any other shift leaves all three alone.
LEMMA ShiftConsumes ==
  ASSUME RestoreInv, Legal(pat), run, ~scrub_q, Tick, Scan!Shift,
         NEW c \in 0 .. Len(pat), Consumed(c)
  PROVE  \E e \in 0 .. Len(pat) : Consumed(e)'
  <1> USE LegalSteps DEF RestoreInv
  <1>1. /\ pat' = pat /\ run_cnt' = run_cnt + 1 /\ run_cnt \in Nat
        /\ ptr' = IF Scan!entry_pop_o THEN ptr + 1 ELSE ptr
    BY DEF Tick, Stream, Scan!Shift, TypeOK, Scan!RegsTypeOK
  <1>2. /\ hit_vld_q <=> c + 1 <= Len(pat)
        /\ hit_vld_q => hit_step_q = StepOf(c + 1) /\ hit_step_q >= run_cnt
        /\ hit_vld_nx <=> c + 2 <= Len(pat)
        /\ hit_vld_nx => hit_step_nx = StepOf(c + 2)
        /\ ptr = IF c + 3 <= Len(pat) THEN c + 3 ELSE Len(pat) + 1
        /\ ptr # 1
    BY DEF Consumed
  <1>3. CASE Scan!hit
    <2>1. c + 1 \in 1 .. Len(pat) /\ run_cnt = StepOf(c + 1) /\ Scan!advance
      BY <1>3, AdvanceIsHit
    <2>2. /\ hit_vld_q' = hit_vld_nx /\ hit_step_q' = hit_step_nx
          /\ hit_vld_nx' = entry_valid /\ hit_step_nx' = Scan!hit_step_of
      BY <2>1 DEF Scan!Shift, Scan!SlideSteps, Scan!SlideValid
    <2>3. entry_valid <=> c + 3 <= Len(pat)
      BY <1>2 DEF entry_valid
    <2>4. hit_vld_q' <=> c + 2 <= Len(pat)
      BY <1>2, <2>2
    <2>5. hit_vld_q' => hit_step_q' = StepOf(c + 2) /\ hit_step_q' >= run_cnt'
      <3> SUFFICES ASSUME hit_vld_nx
                   PROVE  StepOf(c + 2) >= run_cnt + 1
        BY <1>1, <1>2, <2>2
      <3>1. c + 2 \in 1 .. Len(pat)
        BY <1>2, <2>1
      <3>2. StepOf(c + 1) < StepOf(c + 2)
        BY <2>1, <3>1
      <3>3. StepOf(c + 1) \in Int /\ StepOf(c + 2) \in Int
        BY <2>1, <3>1
      <3> QED
        BY <1>1, <2>1, <3>2, <3>3
    <2>6. hit_vld_nx' <=> c + 3 <= Len(pat)
      BY <2>2, <2>3
    <2>7. hit_vld_nx' => hit_step_nx' = StepOf(c + 3)
      BY <1>2, <2>2, <2>3, HeadStep
    <2>8. ptr' = (IF c + 4 <= Len(pat) THEN c + 4 ELSE Len(pat) + 1) /\ ptr' # 1
      <3>1. Scan!entry_pop_o <=> entry_valid
        BY <1>3, AdvanceIsHit
      <3> QED
        BY <1>1, <1>2, <2>3, <3>1
    <2>9. flips' = {pat'[i] : i \in 1 .. c + 1}
      BY <1>1, <1>3, HitFlips
    <2>10. \A i \in {c + 1, c + 2, c + 3} : StepOf(i)' = StepOf(i)
      BY <1>1 DEF StepOf
    <2>11. Consumed(c + 1)'
      <3>1. c + 1 + 1 = c + 2 /\ c + 1 + 2 = c + 3 /\ c + 1 + 3 = c + 4
        OBVIOUS
      <3> QED
        BY <1>1, <2>4, <2>5, <2>6, <2>7, <2>8, <2>9, <2>10, <3>1 DEF Consumed
    <2> QED
      BY <2>1, <2>11
  <1>4. CASE ~Scan!hit
    <2>1. ~Scan!advance /\ ~Scan!entry_pop_o
      BY <1>4, AdvanceIsHit
    <2>2. /\ hit_vld_q' = hit_vld_q /\ hit_step_q' = hit_step_q
          /\ hit_vld_nx' = hit_vld_nx /\ hit_step_nx' = hit_step_nx
      BY <2>1 DEF Scan!Shift, Scan!SlideSteps, Scan!SlideValid
    <2>3. hit_vld_q => hit_step_q >= run_cnt + 1
      <3>1. hit_vld_q => hit_step_q # run_cnt
        BY <1>4 DEF Scan!hit
      <3>2. hit_step_q \in Nat
        BY DEF TypeOK, Scan!RegsTypeOK
      <3> QED
        BY <1>1, <1>2, <3>1, <3>2
    <2>4. flips' = {pat'[i] : i \in 1 .. c}
      BY <1>1, <1>4, HitFlips
    <2>5. \A i \in {c + 1, c + 2} : StepOf(i)' = StepOf(i)
      BY <1>1 DEF StepOf
    <2>6. Consumed(c)'
      BY <1>1, <1>2, <2>1, <2>2, <2>3, <2>4, <2>5 DEF Consumed
    <2> QED
      BY <2>6
  <1> QED
    BY <1>3, <1>4

\* The order of the integers is antisymmetric.
LEMMA Antisymmetric ==
  ASSUME NEW m \in Int, NEW n \in Int, m >= n, m <= n
  PROVE  m = n
  OBVIOUS

\* The last shift leaves nothing of the pattern behind: a target still in the
\* front end is hit by it, and is the last one.
LEMMA LastShiftDelivers ==
  ASSUME RestoreInv, Legal(pat), run, ~scrub_q, Tick, Scan!LastShift,
         NEW c \in 0 .. Len(pat), Consumed(c)
  PROVE  flips' = {pat[i] : i \in 1 .. Len(pat)} /\ ptr' = Len(pat) + 1 /\ ptr' # 1
  <1> USE LegalSteps, ScanLenAssumption DEF RestoreInv
  <1>1. /\ run_cnt = ScanLen - 1
        /\ ptr' = IF Scan!entry_pop_o THEN ptr + 1 ELSE ptr
    BY DEF Tick, Stream, Scan!LastShift, Phases
  <1>2. /\ hit_vld_q <=> c + 1 <= Len(pat)
        /\ hit_vld_q => hit_step_q = StepOf(c + 1) /\ hit_step_q >= run_cnt
        /\ ptr = IF c + 3 <= Len(pat) THEN c + 3 ELSE Len(pat) + 1
        /\ ptr # 1
    BY DEF Consumed
  <1>3. CASE hit_vld_q
    <2>1. c + 1 \in 1 .. Len(pat) /\ StepOf(c + 1) \in 0 .. ScanLen - 1
      BY <1>2, <1>3
    <2>2. StepOf(c + 1) = ScanLen - 1
      <3>1. StepOf(c + 1) >= ScanLen - 1
        BY <1>1, <1>2, <1>3
      <3>2. StepOf(c + 1) \in Int /\ StepOf(c + 1) <= ScanLen - 1
        BY <2>1
      <3>3. ScanLen - 1 \in Int
        OBVIOUS
      <3> QED
        BY <3>1, <3>2, <3>3, Antisymmetric, Zenon
    <2>3. ~(c + 2 <= Len(pat))
      <3> SUFFICES ASSUME c + 2 <= Len(pat) PROVE FALSE
        OBVIOUS
      <3>1. c + 2 \in 1 .. Len(pat)
        OBVIOUS
      <3>2. StepOf(c + 1) < StepOf(c + 2) /\ StepOf(c + 2) \in 0 .. ScanLen - 1
        BY <2>1, <3>1
      <3> QED
        BY <2>2, <3>2
    <2>4. Len(pat) = c + 1 /\ ptr = Len(pat) + 1
      BY <1>2, <2>1, <2>3
    <2>5. Scan!hit
      BY <1>1, <1>3, <2>2, AdvanceIsHit
    <2>6. ~Scan!entry_pop_o
      BY <2>4, AdvanceIsHit DEF entry_valid
    <2> QED
      BY <1>1, <1>2, <2>4, <2>5, <2>6, HitFlips
  <1>4. CASE ~hit_vld_q
    <2>1. c = Len(pat) /\ ptr = Len(pat) + 1
      BY <1>2, <1>4
    <2>2. ~Scan!hit /\ ~Scan!entry_pop_o
      BY <1>4, AdvanceIsHit
    <2> QED
      BY <1>1, <1>2, <2>1, <2>2, HitFlips
  <1> QED
    BY <1>3, <1>4

\* Outside an injection pass the stream's head moves only when one begins.
LEMMA HeadRests ==
  ASSUME RestoreInv, FrontEnd, Legal(pat), Tick, ~Scan!ArmInject,
         ~((run \/ tm_lead) /\ ~scrub_q)
  PROVE  ptr' = ptr /\ ~Scan!entry_pop_o
  <1>1. ~Scan!advance
    BY DEF Scan!advance, Scan!hit, Scan!stale, Scan!null_e, FrontEnd, RestoreInv, Phases
  <1>2. ~Scan!arm1
    BY DEF Scan!arm1
  <1>3. ~Scan!arm0
    <2>1. SUFFICES ASSUME Scan!arm0 PROVE FALSE
      OBVIOUS
    <2>2. ~run /\ ~tm_lead /\ tm_tail_cnt = 0
      BY <2>1 DEF Scan!arm0, Scan!busy
    <2>3. CASE Scan!Shift \/ Scan!LastShift \/ Scan!Lead \/ Scan!Tail
      BY <2>2, <2>3 DEF Scan!Shift, Scan!LastShift, Scan!Lead, Scan!Tail
    <2>4. CASE Scan!ArmScrub \/ Scan!SkipScrub \/ Scan!Idle
      BY <2>1, <2>4 DEF Scan!ArmScrub, Scan!SkipScrub, Scan!Idle, Scan!arm_s
    <2> QED
      BY <2>3, <2>4 DEF Tick, Scan!Edge
  <1> QED
    BY <1>1, <1>2, <1>3 DEF Scan!entry_pop_o, Tick, Stream

\* An injection pass begins with the pattern's first target in the front end.
LEMMA ArmTakesFirst ==
  ASSUME RestoreInv, FrontEnd, Legal(pat), Tick, Scan!ArmInject
  PROVE  /\ ptr = 1 /\ ptr' = 2 /\ Len(pat) >= 1 /\ ~scrub_q /\ ~run
         /\ hit_vld_q' /\ ~hit_vld_nx' /\ hit_step_q' = StepOf(1)
  <1> USE LegalSteps, ScanLenAssumption DEF RestoreInv
  <1>1. /\ Scan!arm0 /\ ~run /\ ~tm_lead /\ entry_valid /\ Scan!L # 0 /\ ~scrub_q
    BY DEF Scan!ArmInject, Scan!arm0, Scan!busy, Phases
  <1>2. ptr = 1 /\ Len(pat) >= 1
    BY <1>1 DEF FrontEnd, entry_valid
  <1>3. ptr' = 2
    BY <1>1, <1>2 DEF Tick, Stream, Scan!entry_pop_o
  <1>4. Scan!L = ScanLen
    BY <1>1 DEF Scan!L, TypeOK
  <1>5. Scan!hit_step_of = StepOf(1)
    <2>1. 1 \in 1 .. Len(pat) /\ entry_index = pat[1] /\ pat[1] \in Cells
      BY <1>1, <1>2 DEF entry_index
    <2> QED
      BY <1>4, <2>1 DEF Scan!hit_step_of, StepOf, Cells
  <1> QED
    BY <1>1, <1>2, <1>3, <1>5 DEF Scan!ArmInject

\* The lead cycle pulls the second target, if there is one.
LEMMA LeadTakesSecond ==
  ASSUME RestoreInv, FrontEnd, Legal(pat), Tick, Scan!Lead, ~scrub_q
  PROVE  Consumed(0)'
  <1> USE LegalSteps DEF RestoreInv
  <1>1. /\ tm_lead /\ ~run /\ run_cnt' = 0 /\ flips' = {} /\ pat' = pat
        /\ hit_step_q' = hit_step_q /\ hit_vld_q' = hit_vld_q
        /\ hit_step_nx' = Scan!hit_step_of /\ (hit_vld_nx' <=> entry_valid)
    BY DEF Scan!Lead, Tick, Chain, Stream, Phases
  <1>2. ptr = 2 /\ hit_vld_q /\ ~hit_vld_nx /\ Len(pat) >= 1 /\ hit_step_q = StepOf(1)
    BY <1>1 DEF FrontEnd
  <1>3. ptr' = IF entry_valid THEN 3 ELSE 2
    BY <1>1, <1>2 DEF Tick, Stream, Scan!entry_pop_o, Scan!arm1
  <1>4. entry_valid <=> 2 <= Len(pat)
    BY <1>2 DEF entry_valid
  <1>5. StepOf(1) \in 0 .. ScanLen - 1
    BY <1>2
  <1>6. StepOf(1)' = StepOf(1) /\ StepOf(2)' = StepOf(2)
    BY <1>1 DEF StepOf
  <1>7. hit_vld_nx' => hit_step_nx' = StepOf(2)
    BY <1>1, <1>2, HeadStep
  <1>8. flips' = {pat'[i] : i \in 1 .. 0}
    BY <1>1
  <1>9. /\ hit_vld_q' <=> 1 <= Len(pat')
        /\ hit_vld_q' => hit_step_q' = StepOf(1)' /\ hit_step_q' >= run_cnt'
    BY <1>1, <1>2, <1>5, <1>6
  <1>10. /\ hit_vld_nx' <=> 2 <= Len(pat')
         /\ hit_vld_nx' => hit_step_nx' = StepOf(2)'
    BY <1>1, <1>4, <1>6, <1>7
  <1>11. ptr' = (IF 3 <= Len(pat') THEN 3 ELSE Len(pat') + 1) /\ ptr' # 1
    BY <1>1, <1>2, <1>3, <1>4
  <1> QED
    BY <1>8, <1>9, <1>10, <1>11 DEF Consumed

\* One tick keeps the account of the front end, and a pass that ends has
\* delivered its pattern.
LEMMA TickDelivers == ASSUME DeliveryInv, Tick PROVE FrontEnd' /\ PatternDelivered'
  <1> SUFFICES ASSUME Legal(pat)
               PROVE  FrontEnd' /\ PatternDelivered'
    BY DEF FrontEnd, PatternDelivered, Tick, Stream, Legal, Descending
  <1> USE DEF DeliveryInv
  <1>1. pat' = pat /\ Range(pat) = {pat[i] : i \in 1 .. Len(pat)}
    <2>1. pat \in Seq(Nat)
      BY EntryIndexNat DEF RestoreInv
    <2> QED
      BY <2>1 DEF Tick, Stream, Range
  <1>2. CASE Scan!Shift
    <2>1. /\ run /\ run' = run /\ scrub_q' = scrub_q /\ tm_lead' = tm_lead
          /\ ~tm_lead /\ ~done_o'
      BY <1>2 DEF Scan!Shift, RestoreInv, Phases
    <2>2. CASE scrub_q
      <3>1. ptr' = ptr /\ ~Scan!ArmInject
        BY <1>2, <2>1, <2>2, HeadRests DEF Scan!ArmInject, Scan!arm0, Scan!busy
      <3>2. ~hit_vld_q /\ ~hit_vld_nx
        BY <2>2 DEF FrontEnd
      <3>3. ~Scan!advance
        BY <3>2 DEF Scan!advance, Scan!hit, Scan!stale, Scan!null_e
      <3>4. ~hit_vld_q' /\ ~hit_vld_nx'
        BY <1>2, <3>2, <3>3 DEF Scan!Shift, Scan!SlideValid
      <3> QED
        BY <1>1, <2>1, <2>2, <3>1, <3>4 DEF FrontEnd, PatternDelivered
    <2>3. CASE ~scrub_q
      <3>1. PICK c \in 0 .. Len(pat) : Consumed(c)
        BY <2>1, <2>3 DEF FrontEnd
      <3>2. \E e \in 0 .. Len(pat) : Consumed(e)'
        BY <1>2, <2>1, <2>3, <3>1, ShiftConsumes
      <3> QED
        BY <1>1, <2>1, <2>3, <3>2 DEF FrontEnd, PatternDelivered
    <2> QED
      BY <2>2, <2>3
  <1>3. CASE Scan!LastShift
    <2>1. /\ run /\ ~run' /\ ~scrub_q' /\ tm_lead' = tm_lead /\ ~tm_lead
          /\ (done_o' <=> ~scrub_q)
      BY <1>3, Zenon DEF Scan!LastShift, RestoreInv, Phases
    <2>2. CASE scrub_q
      <3>1. ptr' = ptr
        BY <2>1, <2>2, HeadRests DEF Scan!ArmInject, Scan!arm0, Scan!busy
      <3> QED
        BY <1>1, <2>1, <2>2, <3>1 DEF FrontEnd, PatternDelivered
    <2>3. CASE ~scrub_q
      <3>1. PICK c \in 0 .. Len(pat) : Consumed(c)
        BY <2>1, <2>3 DEF FrontEnd
      <3>2. flips' = {pat[i] : i \in 1 .. Len(pat)} /\ ptr' = Len(pat) + 1
        BY <1>3, <2>1, <2>3, <3>1, LastShiftDelivers
      <3> QED
        BY <1>1, <2>1, <3>2 DEF FrontEnd, PatternDelivered
    <2> QED
      BY <2>2, <2>3
  <1>4. CASE Scan!Lead
    <2>1. run' /\ ~tm_lead' /\ tm_lead /\ ~run /\ ~done_o' /\ scrub_q' = scrub_q
      BY <1>4 DEF Scan!Lead
    <2>2. CASE scrub_q
      <3>1. ptr' = ptr
        BY <2>1, <2>2, HeadRests DEF Scan!ArmInject, Scan!arm0, Scan!busy
      <3>2. ~hit_vld_q' /\ ~hit_vld_nx'
        BY <1>4, <2>2 DEF Scan!Lead, FrontEnd
      <3> QED
        BY <1>1, <2>1, <2>2, <3>1, <3>2 DEF FrontEnd, PatternDelivered
    <2>3. CASE ~scrub_q
      <3>1. Consumed(0)'
        BY <1>4, <2>3, LeadTakesSecond
      <3>2. 0 \in 0 .. Len(pat)
        BY LegalSteps DEF RestoreInv
      <3>3. \E c \in 0 .. Len(pat') : Consumed(c)'
        BY <1>1, <3>1, <3>2
      <3> QED
        BY <2>1, <2>3, <3>3 DEF FrontEnd, PatternDelivered
    <2> QED
      BY <2>2, <2>3
  <1>5. CASE Scan!ArmInject
    <2>1. ~run' /\ tm_lead' /\ ~scrub_q' /\ ~done_o'
      BY <1>5, ArmTakesFirst DEF Scan!ArmInject
    <2>2. StepOf(1)' = StepOf(1)
      BY <1>1 DEF StepOf
    <2> QED
      BY <1>1, <1>5, <2>1, <2>2, ArmTakesFirst DEF FrontEnd, PatternDelivered
  <1>6. CASE Scan!ArmScrub
    <2>1. /\ ~run /\ ~tm_lead /\ ~run' /\ tm_lead' /\ scrub_q' /\ ~done_o'
          /\ ~hit_vld_q' /\ ~hit_vld_nx'
      BY <1>6 DEF Scan!ArmScrub, Scan!arm_s, Scan!busy
    <2>2. ptr' = ptr
      BY <1>6, <2>1, HeadRests DEF Scan!ArmInject, Scan!ArmScrub, Scan!arm_s
    <2> QED
      BY <1>1, <2>1, <2>2 DEF FrontEnd, PatternDelivered
  <1>7. CASE Scan!Tail \/ Scan!SkipScrub \/ Scan!Idle
    <2>1. /\ ~run /\ ~tm_lead /\ ~run' /\ ~tm_lead' /\ scrub_q' = scrub_q /\ ~done_o'
      BY <1>7 DEF Scan!Tail, Scan!SkipScrub, Scan!Idle, Scan!arm_s, Scan!busy
    <2>2. ~scrub_q
      BY <2>1 DEF RestoreInv, Phases
    <2>3. ~Scan!ArmInject
      BY <2>1 DEF Scan!ArmInject
    <2>4. ptr' = ptr
      BY <2>1, <2>3, HeadRests
    <2> QED
      BY <1>1, <2>1, <2>2, <2>4 DEF FrontEnd, PatternDelivered
  <1> QED
    BY <1>2, <1>3, <1>4, <1>5, <1>6, <1>7 DEF Tick, Scan!Edge

\* DeliveryInv is inductive.
LEMMA NextDeliveryInv == DeliveryInv /\ [Next]_vars => DeliveryInv'
  <1> SUFFICES ASSUME DeliveryInv, [Next]_vars PROVE FrontEnd' /\ PatternDelivered'
    BY NextRestoreInv DEF DeliveryInv
  <1>1. CASE Tick
    BY <1>1, TickDelivers
  <1>2. CASE NewPattern
    <2>1. /\ ~run' /\ ~tm_lead' /\ ~scrub_q' /\ ~done_o' /\ ptr' = 1
      BY <1>2 DEF NewPattern, scanRegs, Scan!busy, DeliveryInv, RestoreInv, Phases
    <2> QED
      BY <2>1 DEF FrontEnd, PatternDelivered
  <1>3. CASE Reset
    <2>1. /\ ~run' /\ ~tm_lead' /\ ~scrub_q' /\ ~done_o' /\ ptr' = 1
      BY <1>3 DEF Reset, Scan!Reset
    <2> QED
      BY <2>1 DEF FrontEnd, PatternDelivered
  <1>4. CASE UNCHANGED vars
    <2> USE <1>4 DEF vars, scanRegs, inputs, stream, dut
    <2>1. FrontEnd'
      BY DEF DeliveryInv, FrontEnd, Legal, Descending, Consumed, StepOf
    <2>2. PatternDelivered'
      BY DEF DeliveryInv, PatternDelivered, Legal, Descending, Range
    <2> QED
      BY <2>1, <2>2
  <1> QED
    BY <1>1, <1>2, <1>3, <1>4 DEF Next

\* At power-on nothing is loaded and nothing was hit.
LEMMA InitDeliveryInv == Init => DeliveryInv
  <1> SUFFICES ASSUME Init PROVE FrontEnd /\ PatternDelivered
    BY InitRestoreInv DEF DeliveryInv
  <1> QED
    BY DEF Init, Scan!Init, FrontEnd, PatternDelivered

\* One pass delivers the whole of a legal pattern, for every chain length and
\* every pattern: when done_o pulses, the cells flipped are exactly the cells
\* the pattern names.
THEOREM PassDelivers == Spec => []PatternDelivered
  <1>1. DeliveryInv => PatternDelivered
    BY DEF DeliveryInv
  <1> QED
    BY InitDeliveryInv, NextDeliveryInv, <1>1, PTL DEF Spec
-----------------------------------------------------------------------------
(* The refinement: the pass is the atomic injection of FlipSpec.           *)

\* What the refinement rests on besides DeliveryInv: every pattern the table
\* can hold is one fi_campaign can emit.
AllLegal == \A p \in Patterns : Legal(p)

\* The loaded pattern, the empty one included, is legal and names chain cells.
LEMMA LoadedIsLegal ==
  ASSUME AllLegal, NEW p \in Patterns \union {<<>>}
  PROVE  Legal(p) /\ Range(p) \subseteq Cells
  <1>1. Legal(p)
    <2>1. CASE p \in Patterns
      BY <2>1 DEF AllLegal
    <2>2. CASE p = <<>>
      BY <2>2 DEF Legal, Descending
    <2> QED
      BY <2>1, <2>2
  <1>2. p \in Seq(Nat)
    BY PatternsAssumption, EmptySeq
  <1> QED
    BY <1>1, <1>2 DEF Range, Legal

\* The initial states are FlipSpec's.
LEMMA RefinesInit == Init => Flip!Init
  <1> SUFFICES ASSUME Init PROVE Flip!Init
    OBVIOUS
  <1>1. Range(pat) = {}
    BY DEF Init, Range
  <1> QED
    BY <1>1 DEF Init, Scan!Init, Flip!Init, Bit

\* With Scan_En low an edge is a functional edge: the pattern stays as armed
\* as it was, even as a pass begins.
LEMMA FunctionalEdge ==
  ASSUME DeliveryInv, Legal(pat), Tick, ~scan_en_o
  PROVE  Flip!Step
  <1> USE DEF DeliveryInv, RestoreInv
  <1>1. ~run /\ ~freeze /\ pat' = pat /\ orig' = chain' /\ chain' \in [Cells -> Bit]
    BY DEF Phases, freeze, Tick, Stream, Chain
  <1>2. off' = ~off
    BY <1>1 DEF Tick, FreezeGate
  <1>3. (ptr = 1 \/ ((tm_lead \/ run) /\ ~scrub_q))
          <=> (ptr' = 1 \/ ((tm_lead' \/ run') /\ ~scrub_q'))
    <2>1. CASE Scan!Lead
      <3>1. tm_lead /\ run' /\ scrub_q' = scrub_q /\ ~Scan!ArmInject
        BY <2>1 DEF Scan!Lead, Scan!ArmInject, Scan!arm0, Scan!busy
      <3>2. CASE scrub_q
        BY <3>1, <3>2, HeadRests
      <3>3. CASE ~scrub_q
        BY <3>1, <3>3
      <3> QED
        BY <3>2, <3>3
    <2>2. CASE Scan!ArmInject
      BY <2>2, ArmTakesFirst DEF Scan!ArmInject
    <2>3. CASE Scan!ArmScrub
      <3>1. ~tm_lead /\ scrub_q' /\ ~Scan!ArmInject
        BY <2>3 DEF Scan!ArmScrub, Scan!arm_s, Scan!busy, Scan!ArmInject
      <3> QED
        BY <1>1, <3>1, HeadRests
    <2>4. CASE Scan!Tail \/ Scan!SkipScrub \/ Scan!Idle
      <3>1. ~tm_lead /\ ~tm_lead' /\ ~run'
        BY <1>1, <2>4 DEF Scan!Tail, Scan!SkipScrub, Scan!Idle, Scan!arm_s, Scan!busy
      <3>2. ~Scan!ArmInject
        BY <3>1 DEF Scan!ArmInject
      <3> QED
        BY <1>1, <3>1, <3>2, HeadRests
    <2>5. ~Scan!Shift /\ ~Scan!LastShift
      BY <1>1 DEF Scan!Shift, Scan!LastShift
    <2> QED
      BY <2>1, <2>2, <2>3, <2>4, <2>5 DEF Tick, Scan!Edge
  <1> QED
    BY <1>1, <1>2, <1>3 DEF Flip!Step, Bit

\* A shift that is not the last cannot be seen from the functional edges.
LEMMA ShiftStutters ==
  ASSUME DeliveryInv, Legal(pat), Tick, scan_en_o, Scan!Shift
  PROVE  UNCHANGED Flip!vars
  <1> USE DEF DeliveryInv, RestoreInv
  <1>1. /\ run /\ run' = run /\ scan_en_o' = scan_en_o /\ scrub_q' = scrub_q
        /\ ~tm_lead /\ pat' = pat /\ orig' = orig /\ off' = off
    BY DEF Phases, freeze, Tick, Stream, Chain, FreezeGate, Scan!Shift, TypeOK, Scan!RegsTypeOK
  <1>2. scrub_q => ptr' = ptr
    BY <1>1, HeadRests DEF Scan!ArmInject, Scan!arm0, Scan!busy
  <1>3. (ptr = 1 \/ ((tm_lead \/ run) /\ ~scrub_q))
          <=> (ptr' = 1 \/ ((tm_lead' \/ run') /\ ~scrub_q'))
    BY <1>1, <1>2
  <1> QED
    BY <1>1, <1>3 DEF Flip!vars

\* The last shift of an injection pass is the injection.
LEMMA LastShiftInjects ==
  ASSUME DeliveryInv, Legal(pat), Tick, scan_en_o, Scan!LastShift, ~scrub_q
  PROVE  Flip!Inject
  <1> USE DEF DeliveryInv, RestoreInv
  <1>1. /\ run /\ ~run' /\ ~scan_en_o' /\ ~tm_lead' /\ pat' = pat /\ orig' = orig
        /\ off' = off /\ done_o'
    <2>1. run /\ ~run' /\ ~scan_en_o' /\ ~tm_lead' /\ done_o'
      BY DEF Phases, Scan!LastShift
    <2>2. pat' = pat /\ orig' = orig
      BY DEF Tick, Stream, Chain
    <2>3. freeze
      BY DEF Phases, freeze
    <2> QED
      BY <2>1, <2>2, <2>3 DEF Tick, FreezeGate
  <1>2. PICK c \in 0 .. Len(pat) : Consumed(c)
    BY <1>1 DEF FrontEnd
  <1>3. ptr' # 1
    BY <1>1, <1>2, LastShiftDelivers
  <1>4. chain' = Flipped(orig', flips')
    BY <1>1, TickChain DEF Restored
  <1>5. flips' = Range(pat)
    BY <1>1, TickDelivers DEF PatternDelivered, Legal, Descending
  <1>6. chain' = [x \in Cells |-> IF x \in Range(pat) THEN 1 - orig[x] ELSE orig[x]]
    BY <1>1, <1>4, <1>5 DEF Flipped
  <1> QED
    BY <1>1, <1>3, <1>6 DEF Flip!Inject

\* The last shift of a scrub has cleared the cells the scrub is for.
LEMMA LastShiftScrubs ==
  ASSUME DeliveryInv, Legal(pat), Tick, scan_en_o, Scan!LastShift, scrub_q
  PROVE  Flip!Scrub
  <1> USE ScanLenAssumption, ParamsAssumption DEF DeliveryInv, RestoreInv
  <1>1. /\ run /\ ~run' /\ ~scan_en_o' /\ ~tm_lead' /\ ~scrub_q' /\ pat' = pat
        /\ ptr' = ptr /\ off' = off /\ run_cnt = run_end_q
    <2>1. run /\ ~run' /\ ~scan_en_o' /\ ~tm_lead' /\ ~scrub_q' /\ run_cnt = run_end_q
      BY DEF Phases, Scan!LastShift
    <2>2. pat' = pat /\ ptr' = ptr
      BY <2>1, HeadRests DEF Tick, Stream, Scan!ArmInject, Scan!arm0, Scan!busy
    <2>3. freeze
      BY DEF Phases, freeze
    <2> QED
      BY <2>1, <2>2, <2>3 DEF Tick, FreezeGate
  <1>2. chain' \in [Cells -> Bit]
    BY TickType DEF TypeOK
  <1>3. run_cnt + 1 = Scan!scrub_n
    <2>1. run_end_q = Scan!scrub_n - 1 /\ run_cnt \in Nat /\ Scan!scrub_n \in Nat
      BY <1>1, DerivedNat DEF Phases, TypeOK, Scan!RegsTypeOK
    <2> QED
      BY <1>1, <2>1
  <1>4. ASSUME NEW x \in Cells, SCRUB_LEN < 0 \/ x < SCRUB_LEN
        PROVE  chain'[x] = 0
    <2>1. x < run_cnt + 1
      BY <1>1, <1>3, <1>4 DEF Scan!scrub_n, Scan!L, Phases, Cells
    <2> QED
      BY <1>1, <2>1, ShiftZeroes
  <1> QED
    BY <1>1, <1>2, <1>4 DEF Flip!Scrub, Bit

\* Every step is a step of the abstract specification, or invisible to it.
LEMMA RefinesStep ==
  ASSUME AllLegal, DeliveryInv, DeliveryInv', [Next]_vars
  PROVE  [Flip!Next]_(Flip!vars)
  <1>1. Legal(pat) /\ Range(pat') \subseteq Cells
    <2>1. pat \in Patterns \union {<<>>} /\ pat' \in Patterns \union {<<>>}
      BY DEF DeliveryInv, RestoreInv, TypeOK
    <2> QED
      BY <2>1, LoadedIsLegal
  <1>2. CASE Tick
    <2>1. CASE ~scan_en_o
      BY <1>1, <1>2, <2>1, FunctionalEdge DEF Flip!Next
    <2>2. CASE scan_en_o
      <3>1. Scan!Shift \/ Scan!LastShift
        <4>1. run
          BY <2>2 DEF DeliveryInv, RestoreInv, Phases
        <4> QED
          BY <1>2, <4>1 DEF Tick, Scan!Edge, Scan!Lead, Scan!Tail, Scan!ArmInject, Scan!ArmScrub,
                            Scan!SkipScrub, Scan!Idle, Scan!arm0, Scan!arm_s, Scan!busy
      <3>2. CASE Scan!Shift
        BY <1>1, <1>2, <2>2, <3>2, ShiftStutters
      <3>3. CASE Scan!LastShift
        BY <1>1, <1>2, <2>2, <3>3, LastShiftInjects, LastShiftScrubs DEF Flip!Next
      <3> QED
        BY <3>1, <3>2, <3>3
    <2> QED
      BY <2>1, <2>2
  <1>3. CASE NewPattern
    <2>1. Range(pat') \in SUBSET Cells /\ ptr' = 1 /\ UNCHANGED <<scan_en_o, orig, chain, off>>
      BY <1>1, <1>3 DEF NewPattern, scanRegs, dut
    <2> QED
      BY <2>1 DEF Flip!Load, Flip!Next
  <1>4. CASE Reset
    <2>1. /\ chain' \in [Cells -> Bit] /\ ~scan_en_o' /\ off' = FALSE /\ ptr' = 1
          /\ Range(pat') = {}
      BY <1>4 DEF Reset, Scan!Reset, Range
    <2> QED
      BY <2>1 DEF Flip!Reset, Flip!Next, Bit
  <1>5. CASE UNCHANGED vars
    BY <1>5 DEF vars, scanRegs, inputs, stream, dut, Flip!vars
  <1> QED
    BY <1>2, <1>3, <1>4, <1>5 DEF Next

\* Seen from the DUT's functional clock an injection is atomic, for every
\* chain length, every table of legal patterns and every setting of the
\* controller's parameters.
THEOREM InjectionIsAtomic == ASSUME AllLegal PROVE Spec => AtomicInjection
  <1>1. DeliveryInv /\ DeliveryInv' /\ [Next]_vars => [Flip!Next]_(Flip!vars)
    BY RefinesStep
  <1> QED
    BY InitDeliveryInv, NextDeliveryInv, RefinesInit, <1>1, PTL
       DEF Spec, AtomicInjection, Flip!Spec
=============================================================================
