---------------------------------- MODULE Cells ---------------------------------
(***************************************************************************)
(* fpga/tools/cells.py: the library as the netlist tools see it.  A cell   *)
(* is <<base, drive>>, so that the name patterns are sets of base names.   *)
(***************************************************************************)
EXTENDS Integers, Sequences

base(cell) == cell[1]

ICG           == {"ICGP"}
ICG_NEG       == {"ICGN"}
ICG_CLOCK     == "CP"
ICG_ENABLES   == <<"E", "TE">>
FLOP_CLOCKS   == <<"CP", "CPN">>
Q             == "Q"
LATCH         == {"LAT", "LATN"}
LATCH_LOW     == {"LATN"}
LATCH_ENABLES == <<"EN", "E">>
LATCH_D       == "D"
BUF           == [ins |-> {"I"}, outs |-> {"Z"}]
INV           == [ins |-> {"I"}, outs |-> {"ZN"}]
MACRO         == {"sram_a", "sram_b"}
MACRO_CLOCK   == "clk"

\* Two-input cells that can gate a clock: their pins, and their function.
Inputs == {0, 1} \X {0, 1}
GATE2 ==
  [AND2  |-> [pins |-> <<"A1", "A2">>, fn |-> [ab \in Inputs |-> ab[1] * ab[2]]],
   ANDN2 |-> [pins |-> <<"A1", "B1">>, fn |-> [ab \in Inputs |-> ab[1] * (1 - ab[2])]],
   NAND2 |-> [pins |-> <<"A1", "A2">>, fn |-> [ab \in Inputs |-> 1 - ab[1] * ab[2]]],
   NOR2  |-> [pins |-> <<"A1", "A2">>, fn |-> [ab \in Inputs |-> (1 - ab[1]) * (1 - ab[2])]],
   OR2   |-> [pins |-> <<"A1", "A2">>, fn |-> [ab \in Inputs |-> 1 - (1 - ab[1]) * (1 - ab[2])]]]
=================================================================================
