---------------------------- MODULE MCTablePrefetch ---------------------------
(* Model-checking instance of TablePrefetch. *)
EXTENDS TablePrefetch

\* Every placement of the EOP marks.  Index and offset are tags that tell the
\* words apart, so a word delivered twice, late or not at all shows.
TaggedTables ==
  {[w \in Words |-> [eop |-> e[w], off |-> w + 1, idx |-> w]] :
     e \in [Words -> BOOLEAN]}
=============================================================================
