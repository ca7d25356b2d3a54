------------------------------- MODULE MemTrials ------------------------------
(***************************************************************************)
(* One DUT memory with its restore, between a DUT that writes what it      *)
(* likes whenever its clock runs and a wrapper that asks for a restore at  *)
(* any time.  A wrapper reset may withdraw the request half way, so it may *)
(* fall at any time too.  The DUT may even write during a restore.         *)
(***************************************************************************)
EXTENDS Integers

CONSTANTS FI_KIND, FI_LOG_DEPTH, FI_BANKS, FI_BANK_DEPTH, FI_FILL_WORD, Word

ASSUME MemAssumption ==
  /\ FI_KIND \in {0, 1}
  /\ FI_LOG_DEPTH \in Nat
  /\ FI_BANKS \in Nat \ {0} /\ FI_BANK_DEPTH \in Nat \ {0}
  /\ FI_FILL_WORD \in Word

VARIABLES
  fi_restore_i,
  ram, fi_log_a, fi_log_d, fi_log_n, fi_full, fi_bad, fi_fill_k, fi_fill_done,
  power_on,    \* the content the memory was loaded with
  lost         \* a DUT write has been dropped since the last restore

Mem == INSTANCE SramRestore

regs == <<fi_log_a, fi_log_d, fi_log_n, fi_full, fi_bad, fi_fill_k, fi_fill_done>>
vars == <<fi_restore_i, ram, regs, power_on, lost>>

\* A FILL memory starts with one word everywhere, an UNDO memory with any
\* content (a program).
PowerOn ==
  IF FI_KIND = 0 THEN [Mem!Addr -> Word] ELSE {[x \in Mem!Addr |-> FI_FILL_WORD]}

Init ==
  /\ Mem!Init
  /\ fi_restore_i = FALSE
  /\ power_on \in PowerOn /\ ram = power_on
  /\ lost = FALSE

\* One edge of the free-running clock.
Tick(clk, wenb, a, d, req) ==
  /\ Mem!Edge(clk, wenb, a, d)
  /\ fi_restore_i' = req
  /\ lost' = IF Mem!fi_done_o THEN FALSE
             ELSE lost \/ (~fi_restore_i /\ clk /\ wenb /\ ram'[a] # d)
  /\ UNCHANGED power_on

Next ==
  \E clk \in BOOLEAN, wenb \in BOOLEAN, a \in Mem!Addr, d \in Word, req \in BOOLEAN :
    Tick(clk, wenb, a, d, req)

Spec == Init /\ [][Next]_vars

\* The free-running clock never stops, whatever the DUT's clock does: while
\* the request is held, its edges keep coming.
Held == Next /\ fi_restore_i'
FairSpec == Spec /\ WF_vars(Held)

-----------------------------------------------------------------------------
(* Properties. *)

MemTypeOK ==
  /\ fi_restore_i \in BOOLEAN
  /\ ram \in [Mem!Addr -> Word] /\ power_on \in PowerOn
  /\ fi_log_a \in [Mem!LogSlots -> Mem!Addr] /\ fi_log_d \in [Mem!LogSlots -> Word]
  /\ fi_log_n \in 0 .. FI_LOG_DEPTH
  /\ fi_full \in BOOLEAN /\ fi_bad \in BOOLEAN
  /\ fi_fill_k \in 0 .. FI_BANK_DEPTH - 1 /\ fi_fill_done \in BOOLEAN

TypeOK == MemTypeOK /\ lost \in BOOLEAN

\* fi_done_o is the promise the next trial starts from: whenever a memory
\* says it is done, every word is back at its power-on content, whatever the
\* DUT wrote, however often a restore was cut short.
DoneMeansRestored == Mem!fi_done_o => ram = power_on

\* A write the log had no room for is never lost in silence: the memory asks
\* to end the trial until a restore has completed.
LossIsReported == lost => fi_full

\* A restore that is not cut short ends.
RestoreEnds == fi_restore_i ~> (Mem!fi_done_o \/ ~fi_restore_i)

-----------------------------------------------------------------------------
(* The inductive invariant behind DoneMeansRestored. *)

\* Undoing the log, newest first, leads back to the power-on content: a word
\* without an entry still has it, and a word's oldest entry holds it.
LogLeadsBack ==
  /\ \A x \in Mem!Addr :
       (\A i \in 0 .. fi_log_n - 1 : fi_log_a[i] # x) => ram[x] = power_on[x]
  /\ \A i \in 0 .. fi_log_n - 1 :
       (\A j \in 0 .. i - 1 : fi_log_a[j] # fi_log_a[i])
         => fi_log_d[i] = power_on[fi_log_a[i]]

\* The rows the fill has passed hold the fill word.
FillSweep ==
  fi_restore_i =>
    \A x \in Mem!Addr :
      fi_fill_done \/ x % FI_BANK_DEPTH < fi_fill_k => ram[x] = FI_FILL_WORD

RestoreInv ==
  /\ MemTypeOK
  /\ FI_KIND = 0 => LogLeadsBack
  /\ FI_KIND # 0 => FillSweep
=============================================================================
