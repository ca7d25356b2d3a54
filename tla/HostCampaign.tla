----------------------------- MODULE HostCampaign -----------------------------
(***************************************************************************)
(* What the host computes before it touches the hardware: fi_campaign of   *)
(* host/inject_and_run_dmi.tcl and fi_entry, fi_pattern of                 *)
(* host/tapename.tcl.  A campaign is a sequence of trials [cyc, idx]: an   *)
(* absolute cycle and the set of FI_Index values to flip together.         *)
(***************************************************************************)
EXTENDS Integers, Sequences, SequencesExt, FiniteSets

CONSTANTS
  FI_W_IDX,      \* width of the FI_Index field
  FI_SCAN_LEN,   \* length of the chain
  TBL_WORDS      \* depth of the FI Table

max_off == 2 ^ (31 - FI_W_IDX) - 1
max_idx == 2 ^ FI_W_IDX - 1

\* lsort -integer -index 0: by cycle, trials of one cycle in the order given.
norm_Mutant(trials) == trials
norm(trials) ==
  LET before(i, j) == trials[i].cyc < trials[j].cyc \/ (trials[i].cyc = trials[j].cyc /\ i < j)
      order == SetToSortSeq(DOMAIN trials, before)
  IN  [k \in DOMAIN trials |-> trials[order[k]]]

nentry(trials) == FoldLeft(LAMBDA n, t : n + Cardinality(t.idx), 0, trials)
gap(trials, k) == trials[k + 1].cyc - trials[k].cyc

\* The campaigns fi_campaign does not refuse.
Accepts(trials, to_thr) ==
  /\ trials # <<>>
  /\ \A k \in DOMAIN trials :
       /\ trials[k].cyc > 0
       /\ trials[k].idx # {} /\ trials[k].idx \subseteq 0 .. max_idx
  /\ nentry(trials) <= TBL_WORDS
  /\ \A k \in 1 .. Len(trials) - 1 : gap(norm(trials), k) <= max_off
  /\ norm(trials)[Len(trials)].cyc < to_thr

\* One FI_Entry is {EOP, Cycle_Offset, FI_Index}; only a pattern's last entry
\* carries the offset, and the indices descend.
fi_entry(eop, off, fi_index) == [eop |-> eop, off |-> off, idx |-> fi_index]
fi_pattern(off, indexlist) ==
  LET sorted == SetToSortSeq(indexlist, LAMBDA a, b : a > b)
      n == Len(sorted)
  IN  [k \in 1 .. n |-> fi_entry(k = n, IF k = n THEN off ELSE 0, sorted[k])]

\* The entries of the whole campaign: a trial's offset is the gap to the next.
entries(trials) ==
  LET s == norm(trials)
      pattern(k) == fi_pattern(IF k < Len(s) THEN gap(s, k) ELSE 0, s[k].idx)
  IN  FlattenSeq([k \in DOMAIN s |-> pattern(k)])

base(trials) == norm(trials)[1].cyc

-----------------------------------------------------------------------------
(* What the user asked for, in the terms of what the hardware does: the     *)
(* trials in cycle order, each flipping the cells it names that exist.      *)

Wanted(trials) ==
  LET earlier(i) == {j \in DOMAIN trials :
                       \/ trials[j].cyc < trials[i].cyc
                       \/ trials[j].cyc = trials[i].cyc /\ j < i}
      nth(k) == CHOOSE i \in DOMAIN trials : Cardinality(earlier(i)) = k - 1
  IN  [k \in DOMAIN trials |-> [cycle |-> trials[nth(k)].cyc,
                                cells |-> trials[nth(k)].idx \intersect 0 .. FI_SCAN_LEN - 1]]
=============================================================================
