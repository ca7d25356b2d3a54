------------------------------ MODULE MCScanPass ------------------------------
(* Model-checking instances of ScanPass. *)
EXTENDS ScanPass

\* Every strictly descending pattern inside a chain of ScanLen cells.
LegalPatterns ==
  {p \in UNION {[1 .. n -> Cells] : n \in 0 .. ScanLen} : Legal(p)}

=============================================================================
