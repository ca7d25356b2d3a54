---------------------------- MODULE MemTrialsProofs ---------------------------
(***************************************************************************)
(* A memory that says it is restored is restored: for every memory size,   *)
(* banking, log depth and word, and for every sequence of DUT writes and   *)
(* restore requests.  The argument is RestoreInv: undoing what is left of  *)
(* the log leads back to the power-on content.                             *)
(***************************************************************************)
EXTENDS MemTrials, TLAPS

\* The geometry of the memory and the log.
LEMMA Geometry ==
  /\ FI_BANK_DEPTH \in Nat /\ FI_BANK_DEPTH > 0 /\ FI_LOG_DEPTH \in Nat
  /\ 0 \in Mem!Addr
  /\ \A x \in Mem!Addr : x \in Nat /\ x % FI_BANK_DEPTH \in 0 .. FI_BANK_DEPTH - 1
<1>1. FI_BANKS * FI_BANK_DEPTH \in Nat /\ FI_BANKS * FI_BANK_DEPTH > 0
  BY MemAssumption, SMT
<1> QED  BY <1>1, MemAssumption, SMT DEF Mem!Addr

\* Every memory starts with words at its addresses.
LEMMA PowerOnIsContent == PowerOn \subseteq [Mem!Addr -> Word]
BY MemAssumption DEF PowerOn

\* The initial states satisfy the inductive invariant: the log is empty and
\* the memory as it was loaded.
LEMMA InitRestoreInv == Init => RestoreInv
<1> SUFFICES ASSUME Init PROVE RestoreInv  OBVIOUS
<1>1. MemTypeOK
  <2>1. ram \in [Mem!Addr -> Word] /\ power_on \in PowerOn
    BY PowerOnIsContent, Zenon DEF Init
  <2>2. fi_log_a \in [Mem!LogSlots -> Mem!Addr] /\ fi_log_d \in [Mem!LogSlots -> Word]
    BY Geometry, MemAssumption, SMT DEF Init, Mem!Init
  <2>3. fi_log_n \in 0 .. FI_LOG_DEPTH /\ fi_fill_k \in 0 .. FI_BANK_DEPTH - 1
    BY Geometry, SMT DEF Init, Mem!Init
  <2> QED  BY <2>1, <2>2, <2>3, Zenon DEF Init, Mem!Init, MemTypeOK
<1>2. LogLeadsBack
  BY DEF Init, Mem!Init, LogLeadsBack
<1>3. FillSweep
  BY DEF Init, FillSweep
<1> QED  BY <1>1, <1>2, <1>3 DEF RestoreInv

\* A DUT access keeps the invariant: a logged write leaves the word's oldest
\* entry alone, or becomes it; a dropped write changes nothing.
LEMMA AccessKeepsInv ==
  ASSUME RestoreInv,
         NEW clk \in BOOLEAN, NEW wenb \in BOOLEAN,
         NEW a \in Mem!Addr, NEW d \in Word,
         fi_restore_i' \in BOOLEAN, power_on' = power_on,
         Mem!Logged(clk, wenb, a, d) \/ Mem!Dropped(clk, wenb, a, d)
           \/ Mem!Plain(clk, wenb, a, d)
  PROVE  RestoreInv'
<1> USE Geometry
<1>1. MemTypeOK /\ fi_restore_i' \in BOOLEAN /\ power_on' = power_on
  BY Zenon DEF RestoreInv
<1>2. fi_fill_k' = 0 /\ fi_fill_done' = FALSE /\ fi_bad' = fi_bad
  BY Zenon DEF Mem!Logged, Mem!Dropped, Mem!Plain, Mem!DutSide
<1>3. FillSweep'
  <2>1. \A x \in Mem!Addr : ~(x % FI_BANK_DEPTH < 0)
    BY SMT
  <2> QED  BY <2>1, <1>2 DEF FillSweep
<1>4. CASE Mem!Logged(clk, wenb, a, d)
  <2>1. /\ fi_log_n \in 0 .. FI_LOG_DEPTH - 1 /\ FI_KIND = 0
        /\ ram \in [Mem!Addr -> Word]
        /\ fi_log_a \in [Mem!LogSlots -> Mem!Addr] /\ fi_log_d \in [Mem!LogSlots -> Word]
        /\ ram' = [ram EXCEPT ![a] = d]
        /\ fi_log_a' = [fi_log_a EXCEPT ![fi_log_n] = a]
        /\ fi_log_d' = [fi_log_d EXCEPT ![fi_log_n] = ram[a]]
        /\ fi_log_n' = fi_log_n + 1 /\ fi_full' = fi_full
    BY <1>1, <1>4, SMT DEF Mem!Logged, MemTypeOK
  <2>2. MemTypeOK'
    <3>1. ram' \in [Mem!Addr -> Word] /\ fi_log_a' \in [Mem!LogSlots -> Mem!Addr]
      BY <2>1
    <3>2. fi_log_d' \in [Mem!LogSlots -> Word] /\ fi_log_n' \in 0 .. FI_LOG_DEPTH
      <4>1. ram[a] \in Word
        BY <2>1
      <4>2. fi_log_d' \in [Mem!LogSlots -> Word]
        BY <2>1, <4>1
      <4>3. fi_log_n' \in 0 .. FI_LOG_DEPTH
        BY <2>1
      <4> QED  BY <4>2, <4>3
    <3>3. fi_fill_k' \in 0 .. FI_BANK_DEPTH - 1
      BY <1>2
    <3> QED  BY <1>1, <1>2, <2>1, <3>1, <3>2, <3>3, Zenon DEF MemTypeOK
  <2>3. LogLeadsBack
    BY <2>1 DEF RestoreInv
  <2>4. \A i \in 0 .. fi_log_n - 1 : fi_log_a'[i] = fi_log_a[i] /\ fi_log_d'[i] = fi_log_d[i]
    <3>1. TAKE i \in 0 .. fi_log_n - 1
    <3>2. i \in Mem!LogSlots /\ i # fi_log_n
      BY <2>1, SMT DEF Mem!LogSlots
    <3> QED  BY <2>1, <3>2
  <2>5. fi_log_a'[fi_log_n] = a /\ fi_log_d'[fi_log_n] = ram[a]
    BY <2>1 DEF Mem!LogSlots
  <2>6. ASSUME NEW x \in Mem!Addr,
               \A i \in 0 .. fi_log_n' - 1 : fi_log_a'[i] # x
        PROVE  ram'[x] = power_on'[x]
    <3>1. x # a
      BY <2>1, <2>5, <2>6
    <3>2. \A i \in 0 .. fi_log_n - 1 : fi_log_a[i] # x
      BY <2>1, <2>4, <2>6
    <3> QED  BY <1>1, <2>1, <2>3, <3>1, <3>2 DEF LogLeadsBack
  <2>7. ASSUME NEW i \in 0 .. fi_log_n' - 1,
               \A j \in 0 .. i - 1 : fi_log_a'[j] # fi_log_a'[i]
        PROVE  fi_log_d'[i] = power_on'[fi_log_a'[i]]
    <3>1. CASE i \in 0 .. fi_log_n - 1
      <4>1. \A j \in 0 .. i - 1 : fi_log_a[j] # fi_log_a[i]
        BY <2>1, <2>4, <2>7, <3>1
      <4> QED  BY <1>1, <2>3, <2>4, <3>1, <4>1 DEF LogLeadsBack
    <3>2. CASE i = fi_log_n
      <4>1. \A j \in 0 .. fi_log_n - 1 : fi_log_a[j] # a
        BY <2>1, <2>4, <2>5, <2>7, <3>2
      <4> QED  BY <1>1, <2>3, <2>5, <3>2, <4>1 DEF LogLeadsBack
    <3> QED  BY <2>1, <2>7, <3>1, <3>2
  <2>8. LogLeadsBack'
    BY <2>6, <2>7 DEF LogLeadsBack
  <2> QED  BY <1>3, <2>2, <2>8 DEF RestoreInv
<1>5. CASE Mem!Dropped(clk, wenb, a, d)
  <2>1. /\ ram' = ram /\ fi_log_a' = fi_log_a /\ fi_log_d' = fi_log_d
        /\ fi_log_n' = fi_log_n /\ fi_full' = TRUE
    BY <1>5, Zenon DEF Mem!Dropped
  <2>2. MemTypeOK'
    <3>1. fi_fill_k' \in 0 .. FI_BANK_DEPTH - 1
      BY <1>2
    <3> QED  BY <1>1, <1>2, <2>1, <3>1, Zenon DEF MemTypeOK
  <2>3. LogLeadsBack => LogLeadsBack'
    BY <1>1, <2>1 DEF LogLeadsBack
  <2> QED  BY <1>3, <2>2, <2>3 DEF RestoreInv
<1>6. CASE Mem!Plain(clk, wenb, a, d)
  <2>1. /\ fi_log_a' = fi_log_a /\ fi_log_d' = fi_log_d
        /\ fi_log_n' = fi_log_n /\ fi_full' = fi_full
        /\ ram' = IF clk /\ wenb THEN [ram EXCEPT ![a] = d] ELSE ram
    BY <1>6, Zenon DEF Mem!Plain
  <2>2. MemTypeOK'
    <3>1. ram \in [Mem!Addr -> Word] /\ (ram' = ram \/ ram' = [ram EXCEPT ![a] = d])
      BY <1>1, <2>1, Zenon DEF MemTypeOK
    <3>2. ram' \in [Mem!Addr -> Word] /\ fi_fill_k' \in 0 .. FI_BANK_DEPTH - 1
      BY <1>2, <3>1
    <3> QED  BY <1>1, <1>2, <2>1, <3>2, Zenon DEF MemTypeOK
  <2>3. FI_KIND = 0 => ram' = ram
    BY <1>1, <1>6, <2>1 DEF Mem!Plain, MemTypeOK
  <2>4. FI_KIND = 0 /\ LogLeadsBack => LogLeadsBack'
    BY <1>1, <2>1, <2>3 DEF LogLeadsBack
  <2> QED  BY <1>3, <2>2, <2>4 DEF RestoreInv
<1> QED  BY <1>4, <1>5, <1>6

\* A restore step keeps the invariant: undoing the newest entry uncovers the
\* older ones, and the fill sweeps one more row.
LEMMA RestoreKeepsInv ==
  ASSUME RestoreInv,
         NEW clk \in BOOLEAN, NEW wenb \in BOOLEAN,
         NEW a \in Mem!Addr, NEW d \in Word,
         fi_restore_i' \in BOOLEAN, power_on' = power_on,
         Mem!Undo(clk, wenb) \/ Mem!Undone(clk, wenb)
           \/ Mem!Fill(clk, wenb) \/ Mem!Filled(clk, wenb)
  PROVE  RestoreInv'
<1> USE Geometry
<1>1. MemTypeOK /\ fi_restore_i' \in BOOLEAN /\ power_on' = power_on
  BY Zenon DEF RestoreInv
<1>2. /\ fi_restore_i /\ fi_log_a' = fi_log_a /\ fi_log_d' = fi_log_d
      /\ fi_bad' \in BOOLEAN
  BY <1>1, Zenon DEF Mem!Undo, Mem!Undone, Mem!Fill, Mem!Filled, Mem!RestoreSide, MemTypeOK
<1>3. CASE Mem!Undo(clk, wenb)
  <2>1. /\ FI_KIND = 0 /\ fi_log_n \in 1 .. FI_LOG_DEPTH
        /\ ram \in [Mem!Addr -> Word]
        /\ fi_log_a \in [Mem!LogSlots -> Mem!Addr] /\ fi_log_d \in [Mem!LogSlots -> Word]
        /\ ram' = [ram EXCEPT ![fi_log_a[fi_log_n - 1]] = fi_log_d[fi_log_n - 1]]
        /\ fi_log_n' = fi_log_n - 1 /\ fi_full' = fi_full
        /\ fi_fill_k' = fi_fill_k /\ fi_fill_done' = fi_fill_done
    BY <1>1, <1>3, SMT DEF Mem!Undo, MemTypeOK
  <2>2. fi_log_a[fi_log_n - 1] \in Mem!Addr /\ fi_log_d[fi_log_n - 1] \in Word
    BY <2>1 DEF Mem!LogSlots
  <2>3. MemTypeOK'
    BY <1>1, <1>2, <2>1, <2>2 DEF MemTypeOK
  <2>4. LogLeadsBack
    BY <2>1 DEF RestoreInv
  <2>5. ASSUME NEW x \in Mem!Addr,
               \A i \in 0 .. fi_log_n' - 1 : fi_log_a'[i] # x
        PROVE  ram'[x] = power_on'[x]
    <3>1. \A i \in 0 .. fi_log_n - 2 : fi_log_a[i] # x
      BY <1>2, <2>1, <2>5
    <3>2. CASE x = fi_log_a[fi_log_n - 1]
      <4>1. fi_log_d[fi_log_n - 1] = power_on[x]
        BY <2>1, <2>4, <3>1, <3>2 DEF LogLeadsBack
      <4> QED  BY <1>1, <2>1, <2>2, <3>2, <4>1
    <3>3. CASE x # fi_log_a[fi_log_n - 1]
      <4>1. \A i \in 0 .. fi_log_n - 1 : fi_log_a[i] # x
        BY <2>1, <3>1, <3>3
      <4> QED  BY <1>1, <2>1, <2>2, <2>4, <3>3, <4>1 DEF LogLeadsBack
    <3> QED  BY <3>2, <3>3
  <2>6. \A i \in 0 .. fi_log_n' - 1 :
          (\A j \in 0 .. i - 1 : fi_log_a'[j] # fi_log_a'[i])
            => fi_log_d'[i] = power_on'[fi_log_a'[i]]
    BY <1>1, <1>2, <2>1, <2>4 DEF LogLeadsBack
  <2>7. LogLeadsBack'
    BY <2>5, <2>6 DEF LogLeadsBack
  <2> QED  BY <2>1, <2>3, <2>7 DEF RestoreInv
<1>4. CASE Mem!Undone(clk, wenb)
  <2>1. /\ FI_KIND = 0 /\ ram' = ram /\ fi_log_n' = fi_log_n /\ fi_full' = FALSE
        /\ fi_fill_k' = fi_fill_k /\ fi_fill_done' = fi_fill_done
    BY <1>4, Zenon DEF Mem!Undone
  <2>2. MemTypeOK'
    BY <1>1, <1>2, <2>1 DEF MemTypeOK
  <2>3. LogLeadsBack => LogLeadsBack'
    BY <1>1, <1>2, <2>1 DEF LogLeadsBack
  <2> QED  BY <2>1, <2>2, <2>3 DEF RestoreInv
<1>5. CASE Mem!Fill(clk, wenb)
  <2>1. /\ FI_KIND # 0 /\ fi_log_n' = fi_log_n /\ fi_full' = fi_full
        /\ ~fi_fill_done
        /\ ram' = [x \in Mem!Addr |-> IF x % FI_BANK_DEPTH = fi_fill_k
                                      THEN FI_FILL_WORD ELSE ram[x]]
        /\ fi_fill_done' = (fi_fill_k = FI_BANK_DEPTH - 1)
        /\ fi_fill_k' = IF fi_fill_k = FI_BANK_DEPTH - 1 THEN fi_fill_k ELSE fi_fill_k + 1
    BY <1>5, Zenon DEF Mem!Fill
  <2>2. fi_fill_done' \in BOOLEAN /\ (fi_fill_done' <=> fi_fill_k = FI_BANK_DEPTH - 1)
    BY <2>1, Zenon
  <2>3. fi_fill_k \in 0 .. FI_BANK_DEPTH - 1 /\ ram \in [Mem!Addr -> Word]
    BY <1>1 DEF MemTypeOK
  <2>4. fi_fill_k' \in 0 .. FI_BANK_DEPTH - 1
    BY <2>1, <2>3, SMT
  <2>5. ram' \in [Mem!Addr -> Word]
    BY <2>1, <2>3, MemAssumption, SMT
  <2>6. MemTypeOK'
    BY <1>1, <1>2, <2>1, <2>2, <2>4, <2>5, Zenon DEF MemTypeOK
  <2>7. \A x \in Mem!Addr : x % FI_BANK_DEPTH < fi_fill_k => ram[x] = FI_FILL_WORD
    BY <1>2, <2>1 DEF RestoreInv, FillSweep
  <2>8. ASSUME NEW x \in Mem!Addr,
               fi_fill_done' \/ x % FI_BANK_DEPTH < fi_fill_k'
        PROVE  ram'[x] = FI_FILL_WORD
    <3>1. x % FI_BANK_DEPTH \in 0 .. FI_BANK_DEPTH - 1
      BY Zenon
    <3>2. x % FI_BANK_DEPTH < fi_fill_k \/ x % FI_BANK_DEPTH = fi_fill_k
      BY <2>1, <2>2, <2>3, <2>8, <3>1, SMT
    <3> QED  BY <2>1, <2>7, <3>2
  <2>9. FillSweep'
    BY <2>8 DEF FillSweep
  <2> QED  BY <2>1, <2>6, <2>9 DEF RestoreInv
<1>6. CASE Mem!Filled(clk, wenb)
  <2>1. /\ FI_KIND # 0 /\ fi_log_n' = fi_log_n /\ fi_full' = fi_full /\ ram' = ram
        /\ fi_fill_k' = fi_fill_k /\ fi_fill_done' = fi_fill_done
    BY <1>6, Zenon DEF Mem!Filled
  <2>2. MemTypeOK'
    BY <1>1, <1>2, <2>1 DEF MemTypeOK
  <2>3. FillSweep'
    BY <1>2, <2>1 DEF RestoreInv, FillSweep
  <2> QED  BY <2>1, <2>2, <2>3 DEF RestoreInv
<1> QED  BY <1>3, <1>4, <1>5, <1>6

\* Every edge of a memory keeps the invariant, whoever drives its ports.
LEMMA EdgeKeepsInv ==
  ASSUME RestoreInv,
         NEW clk \in BOOLEAN, NEW wenb \in BOOLEAN, NEW a \in Mem!Addr, NEW d \in Word,
         Mem!Edge(clk, wenb, a, d), fi_restore_i' \in BOOLEAN, power_on' = power_on
  PROVE  RestoreInv'
<1>1. CASE Mem!Logged(clk, wenb, a, d) \/ Mem!Dropped(clk, wenb, a, d) \/ Mem!Plain(clk, wenb, a, d)
  BY <1>1, AccessKeepsInv, Zenon
<1>2. CASE Mem!Undo(clk, wenb) \/ Mem!Undone(clk, wenb) \/ Mem!Fill(clk, wenb) \/ Mem!Filled(clk, wenb)
  BY <1>2, RestoreKeepsInv, Zenon
<1> QED  BY <1>1, <1>2, Zenon DEF Mem!Edge

\* RestoreInv is inductive.
LEMMA NextRestoreInv == RestoreInv /\ [Next]_vars => RestoreInv'
<1> SUFFICES ASSUME RestoreInv, [Next]_vars PROVE RestoreInv'  OBVIOUS
<1>1. CASE Next
  <2>1. PICK clk \in BOOLEAN, wenb \in BOOLEAN, a \in Mem!Addr, d \in Word, req \in BOOLEAN :
          Tick(clk, wenb, a, d, req)
    BY <1>1, Zenon DEF Next
  <2>2. Mem!Edge(clk, wenb, a, d) /\ fi_restore_i' \in BOOLEAN /\ power_on' = power_on
    BY <2>1, Zenon DEF Tick
  <2> QED  BY <2>2, EdgeKeepsInv, Zenon
<1>2. CASE UNCHANGED vars
  BY <1>2 DEF vars, regs, RestoreInv, MemTypeOK, LogLeadsBack, FillSweep, Mem!Addr,
              Mem!LogSlots, PowerOn
<1> QED  BY <1>1, <1>2

\* The invariant gives the promise: an empty log, or a finished sweep, leaves
\* only power-on content.
LEMMA RestoreInvImplies == RestoreInv => DoneMeansRestored
<1> SUFFICES ASSUME RestoreInv, Mem!fi_done_o PROVE ram = power_on
  BY DEF DoneMeansRestored
<1>1. ram \in [Mem!Addr -> Word] /\ power_on \in [Mem!Addr -> Word]
  BY PowerOnIsContent DEF RestoreInv, MemTypeOK
<1>2. ASSUME NEW x \in Mem!Addr PROVE ram[x] = power_on[x]
  <2>1. CASE FI_KIND = 0
    BY <2>1 DEF RestoreInv, LogLeadsBack, Mem!fi_done_o
  <2>2. CASE FI_KIND # 0
    BY <2>2 DEF RestoreInv, FillSweep, Mem!fi_done_o, MemTypeOK, PowerOn
  <2> QED  BY <2>1, <2>2
<1> QED  BY <1>1, <1>2

\* Type correctness of the memory restore.
THEOREM MemTypeCorrect == Spec => []TypeOK
<1>1. Init => lost \in BOOLEAN
  BY DEF Init
<1>2. RestoreInv => MemTypeOK
  BY DEF RestoreInv
<1>3. lost \in BOOLEAN /\ [Next]_vars => (lost \in BOOLEAN)'
  BY Zenon DEF Next, Tick, vars
<1>4. MemTypeOK /\ lost \in BOOLEAN => TypeOK
  BY DEF TypeOK
<1> QED  BY <1>1, <1>2, <1>3, <1>4, InitRestoreInv, NextRestoreInv, PTL DEF Spec

\* fi_done_o can be trusted: whenever a memory reports that it is restored,
\* all of it is at its power-on content.
THEOREM RestoreIsComplete == Spec => []DoneMeansRestored
BY InitRestoreInv, NextRestoreInv, RestoreInvImplies, PTL DEF Spec

-----------------------------------------------------------------------------
(* A lost write is reported. *)

\* A write that finds its word, or room in the log, takes effect; one that
\* finds neither raises fi_full.
LEMMA WriteTakenOrReported ==
  ASSUME MemTypeOK,
         NEW clk \in BOOLEAN, NEW wenb \in BOOLEAN,
         NEW a \in Mem!Addr, NEW d \in Word,
         Mem!Edge(clk, wenb, a, d), ~fi_restore_i, clk, wenb, ram'[a] # d
  PROVE  fi_full'
<1>1. ram \in [Mem!Addr -> Word]
  BY DEF MemTypeOK
<1>2. ~Mem!Logged(clk, wenb, a, d) /\ ~Mem!Plain(clk, wenb, a, d)
  BY <1>1 DEF Mem!Logged, Mem!Plain
<1>3. ~Mem!Undo(clk, wenb) /\ ~Mem!Undone(clk, wenb) /\ ~Mem!Fill(clk, wenb)
        /\ ~Mem!Filled(clk, wenb)
  BY Zenon DEF Mem!Undo, Mem!Undone, Mem!Fill, Mem!Filled, Mem!RestoreSide
<1>4. Mem!Dropped(clk, wenb, a, d)
  BY <1>2, <1>3, Zenon DEF Mem!Edge
<1> QED  BY <1>4, Zenon DEF Mem!Dropped

\* Once raised, fi_full falls in one step only: the one that finds the restore
\* done.
LEMMA FullUntilRestored ==
  ASSUME NEW clk \in BOOLEAN, NEW wenb \in BOOLEAN,
         NEW a \in Mem!Addr, NEW d \in Word,
         Mem!Edge(clk, wenb, a, d), fi_full, ~Mem!fi_done_o
  PROVE  fi_full'
<1>1. ~Mem!Undone(clk, wenb)
  BY DEF Mem!Undone, Mem!RestoreSide, Mem!fi_done_o
<1>2. CASE Mem!Logged(clk, wenb, a, d) \/ Mem!Dropped(clk, wenb, a, d)
             \/ Mem!Plain(clk, wenb, a, d)
  BY <1>2, Zenon DEF Mem!Logged, Mem!Dropped, Mem!Plain
<1>3. CASE Mem!Undo(clk, wenb) \/ Mem!Fill(clk, wenb) \/ Mem!Filled(clk, wenb)
  BY <1>3, Zenon DEF Mem!Undo, Mem!Fill, Mem!Filled
<1> QED  BY <1>1, <1>2, <1>3, Zenon DEF Mem!Edge

\* Together they make LossIsReported inductive, given the types.
LEMMA LossInductive == RestoreInv /\ LossIsReported /\ [Next]_vars => LossIsReported'
<1> SUFFICES ASSUME RestoreInv, LossIsReported, [Next]_vars, lost' PROVE fi_full'
  BY DEF LossIsReported
<1>1. CASE Next
  <2>1. PICK clk \in BOOLEAN, wenb \in BOOLEAN, a \in Mem!Addr, d \in Word, req \in BOOLEAN :
          Tick(clk, wenb, a, d, req)
    BY <1>1, Zenon DEF Next
  <2>2. Mem!Edge(clk, wenb, a, d) /\ ~Mem!fi_done_o
          /\ (lost \/ (~fi_restore_i /\ clk /\ wenb /\ ram'[a] # d))
    BY <2>1, Zenon DEF Tick
  <2>3. CASE lost
    BY <2>2, <2>3, FullUntilRestored, Zenon DEF LossIsReported
  <2>4. CASE ~fi_restore_i /\ clk /\ wenb /\ ram'[a] # d
    BY <2>2, <2>4, WriteTakenOrReported, Zenon DEF RestoreInv
  <2> QED  BY <2>2, <2>3, <2>4, Zenon
<1>2. CASE UNCHANGED vars
  BY <1>2 DEF vars, regs, LossIsReported
<1> QED  BY <1>1, <1>2

\* Whatever the DUT writes, a write the log had no room for leaves fi_full
\* raised until a restore has brought the memory back.
THEOREM LossReported == Spec => []LossIsReported
<1>1. Init => LossIsReported
  BY DEF Init, LossIsReported
<1> QED  BY <1>1, InitRestoreInv, NextRestoreInv, LossInductive, PTL DEF Spec
=============================================================================
