-------------------------------- MODULE FpgaPrep --------------------------------
(***************************************************************************)
(* The preparation of an FPGA build: the netlist converted (CeFlow), or a  *)
(* memory's program image made (MkRom).  The two tools share nothing.      *)
(***************************************************************************)
EXTENDS CeFlow, MkRom

PrepInit ==
  \/ Init /\ RomStart("idle")
  \/ /\ RomStart("read")
     /\ design = None /\ stage = "idle"
     /\ ctx = None /\ traced = None /\ edits = NoEdits /\ out = None
     /\ gated = None /\ ce = None

PrepNext ==
  \/ Next /\ UNCHANGED romvars
  \/ RomNext /\ UNCHANGED vars

Spec == PrepInit /\ [][PrepNext]_<<vars, romvars>>
=================================================================================
