------------------------------- MODULE MCBatchRun -----------------------------
(* Model-checking instances of BatchRun. *)
EXTENDS BatchRun, FiniteSets

Trial(cyc, idx) == [cyc |-> cyc, idx |-> idx]

\* One bit and several, both ends of a three-cell chain, an index past it,
\* a pattern longer than the lookahead; early in the trial, and
\* so late that the trial ends while the pass is being armed.
Trials ==
  {Trial(cyc, idx) : cyc \in {2, TO_THR - 2}, idx \in {{2}, {3, 1}, {2, 1, 0}}}

\* Each of them alone, and pairs in either order, on one cycle or two.
MixedCampaigns ==
  {<<t>> : t \in Trials} \union
  {<<Trial(2, {0}), Trial(4, {2, 1, 0})>>, <<Trial(6, {3, 1}), Trial(2, {2})>>,
   <<Trial(3, {1}), Trial(3, {2})>>, <<Trial(6, {1, 0}), Trial(6, {0})>>}

\* Campaigns whose patterns fit the lookahead.
ShortCampaigns ==
  {<<Trial(3, {0}), Trial(4, {2, 1})>>, <<Trial(3, {1}), Trial(3, {2}), Trial(5, {0})>>}

=============================================================================
