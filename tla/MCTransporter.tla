----------------------------- MODULE MCTransporter -----------------------------
(* Hosts for Transporter. *)
EXTENDS Transporter

W(a, d) == [op |-> 2, addr |-> a, data |-> d]
R(a)    == [op |-> 1, addr |-> a, data |-> 0]

\* Into FI mode and out of it, the table loaded through its auto-incrementing
\* pointer, and a register read back.
LoadHost == {W("FI_MODE", 1), W("FI_MODE", 0), W("TBL_CTRL", 1), W("TBL_WDATA", 1), R("TBL_CTRL")}
\* Into FI mode, and reads of the table.
ReadHost == {W("FI_MODE", 1), W("TBL_RCMD", 0)}
=============================================================================
