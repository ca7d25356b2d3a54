-------------------------------- MODULE MCFpgaPrep -------------------------------
(* Small netlists for FpgaPrep: up to two clock gates in series, of each kind the *)
(* tool converts, in one module or across the hierarchy, with registers and     *)
(* memories on every clock.                                                     *)
EXTENDS FpgaPrep

-----------------------------------------------------------------------------
(* The library: models with a header of names, or with a header of declarations. *)

Old(ins, outs) ==
  [header |-> <<>>, body |-> <<[dir |-> "input", names |-> ins], [dir |-> "output", names |-> outs]>>]
Ansi(ins, outs) ==
  LET names == ins \o outs
  IN  [header |-> [i \in DOMAIN names |->
                     [dir |-> IF i = 1 THEN "input" ELSE IF i = Len(ins) + 1 THEN "output" ELSE "", name |-> names[i]]],
       body |-> <<>>]

Sram == Ansi(<<"clk", "d">>, <<"q">>)
Library ==
  <<"ICGP", "X2">> :> Old({"CP", "E", "TE"}, {"Q"}) @@
  <<"LATN", "X1">> :> Ansi(<<"EN", "D">>, <<"Q">>) @@
  <<"LAT", "X1">>  :> Ansi(<<"E", "D">>, <<"Q">>) @@
  <<"AND2", "X1">> :> Old({"A1", "A2"}, {"Z"}) @@
  <<"ANDN2", "X1">> :> Old({"A1", "B1"}, {"Z"}) @@
  <<"NAND2", "X1">> :> Old({"A1", "A2"}, {"ZN"}) @@
  <<"OR2", "X1">>  :> Old({"A1", "A2"}, {"Z"}) @@
  <<"NOR2", "X1">> :> Old({"A1", "A2"}, {"ZN"}) @@
  <<"BUFF", "X4">> :> Ansi(<<"I">>, <<"Z">>) @@
  <<"INV", "X1">>  :> Ansi(<<"I">>, <<"ZN">>) @@
  <<"DFF", "X1">>  :> Ansi(<<"D", "CP">>, <<"Q">>) @@
  <<"DFFN", "X1">> :> Ansi(<<"D", "CPN">>, <<"Q">>) @@
  <<"sram_a">>     :> Sram

\* The models of the FPGA build: _FICE flops, and memories with the restore wires.
FiPins == [fi_ce_i |-> "input", fi_restore_i |-> "input", fi_done_o |-> "output",
           fi_abort_o |-> "output", fi_bad_o |-> "output"]
Fpga ==
  LET dirs == [c \in DOMAIN Library |-> CellDirs(Library[c])]
  IN  <<"DFF", "X1", "FICE">>  :> ([FICE |-> "input"] @@ dirs[<<"DFF", "X1">>]) @@
      <<"DFFN", "X1", "FICE">> :> ([FICE |-> "input"] @@ dirs[<<"DFFN", "X1">>]) @@
      <<"sram_a">> :> (FiPins @@ dirs[<<"sram_a">>]) @@
      <<"ram">>    :> (FiPins @@ [clk |-> "input", d |-> "input", q |-> "output"]) @@ dirs

-----------------------------------------------------------------------------
(* Statements. *)

Decl(kind, names) == [k |-> "decl", kind |-> kind, names |-> names, range |-> <<>>]
Bus(kind, names, a, b) == [k |-> "decl", kind |-> kind, names |-> names, range |-> <<a, b>>]
Assign(l, r) == [k |-> "assign", lhs |-> l, rhs |-> r]
Inst(cell, name, conns) == [k |-> "inst", cell |-> cell, name |-> name, conns |-> conns]
Cat(parts) == [k |-> "cat", parts |-> parts]
BitOf(n, i) == [k |-> "bit", n |-> n, i |-> i]
Num(size, val) == [k |-> "const", size |-> size, val |-> val]
Flop(name, clk, d, q) == Inst(<<"DFF", "X1">>, name, [CP |-> clk, D |-> d, Q |-> q])
Mod(name, ports, stmts) == [name |-> <<name>>, ports |-> ports, stmts |-> stmts]

\* A gate of each kind: clock ci in, clock co out, enable e; u names its parts.
Stage(kind, ci, co, e, u) ==
  LET l == net("l" \o u)
      n == net("n" \o u)
      latn == Inst(<<"LATN", "X1">>, "lat" \o u, [EN |-> ci, D |-> e, Q |-> l])
  IN  CASE kind = "wire" -> <<Assign(co, ci)>>
        [] kind = "buf"  -> <<Inst(<<"BUFF", "X4">>, "b" \o u, [I |-> ci, Z |-> co])>>
        [] kind = "inv"  -> <<Inst(<<"INV", "X1">>, "i" \o u, [I |-> ci, ZN |-> co])>>
        [] kind = "icg"  -> <<Inst(<<"ICGP", "X2">>, "g" \o u, [CP |-> ci, E |-> e, TE |-> net("te"), Q |-> co])>>
        [] kind = "and"  -> <<latn, Inst(<<"AND2", "X1">>, "g" \o u, [A1 |-> ci, A2 |-> l, Z |-> co])>>
        [] kind = "dna"  -> <<latn, Inst(<<"AND2", "X1">>, "g" \o u, [A2 |-> ci, A1 |-> l, Z |-> co])>>
        [] kind = "andn" -> <<latn, Inst(<<"ANDN2", "X1">>, "g" \o u, [A1 |-> ci, B1 |-> l, Z |-> co])>>
        [] kind = "nand" -> <<latn, Inst(<<"NAND2", "X1">>, "g" \o u, [A1 |-> ci, A2 |-> l, ZN |-> co])>>
        [] kind = "or"   -> <<latn, Inst(<<"OR2", "X1">>, "g" \o u, [A1 |-> ci, A2 |-> l, Z |-> co])>>
        [] kind = "nor"  -> <<latn, Inst(<<"NOR2", "X1">>, "g" \o u, [A1 |-> ci, A2 |-> l, ZN |-> co])>>
        [] kind = "lat"  ->    \* a latch that is open while its enable is high, on the inverted clock
             <<Inst(<<"INV", "X1">>, "i" \o u, [I |-> ci, ZN |-> n]),
               Inst(<<"LAT", "X1">>, "lat" \o u, [E |-> n, D |-> e, Q |-> l]),
               Inst(<<"AND2", "X1">>, "g" \o u, [A1 |-> ci, A2 |-> l, Z |-> co])>>
        [] kind = "late" ->    \* a latch that is open while the clock is high: no clock gate
             <<Inst(<<"LAT", "X1">>, "lat" \o u, [E |-> ci, D |-> e, Q |-> l]),
               Inst(<<"AND2", "X1">>, "g" \o u, [A1 |-> ci, A2 |-> l, Z |-> co])>>

-----------------------------------------------------------------------------
(* Designs.  f0 is on the root clock and enables the second gate; f1 is behind *)
(* the first gate, f2 and a memory behind the second.                          *)

TopPorts == <<"clk", "e", "d", "o">>
TopDecls == <<Decl("input", {"clk", "e", "d"}), Decl("output", {"o"}), Decl("supply0", {"te"})>>
Opts == [mem_cell |-> {<<"sram_a">>}, drop |-> {}, observe |-> {[net |-> BitOf("q", 0), port |-> "obs"]}]

Design(mods, opts) ==
  [text |-> mods, top |-> <<"top">>, opts |-> opts, clk |-> <<"clk">>, ins |-> {<<"e">>, <<"d">>}]

Top(stmts) == Mod("top", TopPorts, TopDecls \o stmts)

\* All in one module; the root clock through r.
OneModule(r, k1, k2) ==
  Design(<<Top(<<Bus("wire", {"q"}, 2, 0)>>
     \o Stage(r, net("clk"), net("ck"), net("e"), "0")
     \o Stage(k1, net("ck"), net("c1"), net("e"), "1")
     \o Stage(k2, net("c1"), net("c2"), BitOf("q", 0), "2")
     \o <<Flop("f0", net("ck"), net("d"), BitOf("q", 0)), Flop("f1", net("c1"), net("d"), BitOf("q", 1)),
          Flop("f2", net("c2"), BitOf("q", 1), BitOf("q", 2)),
          Inst(<<"sram_a">>, "m0", [clk |-> net("c2"), d |-> net("d"), q |-> net("o")])>>)>>, Opts)

\* The first gate in a module of its own, with two outputs for its clock, one unused
\* but in one design of Others; the second
\* behind two levels of ports; one range of a bus ascending, the other descending.
Unused == [k |-> "none"]
Hierarchy(r, k1, k2, cx) ==
  Design(<<
    Mod("gen", <<"ci", "co", "cx", "e", "te">>,
        <<Decl("input", {"ci", "e", "te"}), Decl("output", {"co", "cx"}), Assign(net("cx"), net("co"))>>
        \o Stage(k1, net("ci"), net("co"), net("e"), "1")),
    Mod("leaf", <<"c", "te", "x", "y">>,
        <<Decl("input", {"c", "te"}), Bus("input", {"x"}, 0, 2), Bus("output", {"y"}, 1, 0)>>
        \o Stage(k2, net("c"), net("c2"), BitOf("x", 0), "2")
        \o <<Flop("f2", net("c2"), BitOf("x", 1), BitOf("y", 0)),
             Inst(<<"sram_a">>, "m0", [clk |-> net("c2"), d |-> BitOf("x", 2), q |-> BitOf("y", 1)])>>),
    Mod("mid", <<"c", "te", "x", "y">>,
        <<Decl("input", {"c", "te"}), Bus("input", {"x"}, 2, 0), Bus("output", {"y"}, 1, 0),
          Inst(<<"leaf">>, "u3", [c |-> net("c"), te |-> net("te"), x |-> net("x"), y |-> net("y")])>>),
    Top(<<Bus("wire", {"q"}, 3, 0), Bus("wire", {"h"}, 1, 0)>>
        \o Stage(r, net("clk"), net("ck"), net("e"), "0")
        \o <<Assign(net("h"), Cat(<<BitOf("q", 0), BitOf("q", 1)>>)),
             Inst(<<"gen">>, "u1", [ci |-> net("ck"), co |-> net("c1"), cx |-> cx, e |-> net("e"), te |-> net("te")]),
             Flop("f0", net("ck"), net("d"), BitOf("q", 0)), Flop("f1", net("c1"), net("d"), BitOf("q", 1)),
             Inst(<<"mid">>, "u2", [c |-> net("c1"), te |-> net("te"), x |-> Cat(<<net("h"), Num(1, 1)>>),
                                    y |-> [k |-> "slice", n |-> "q", a |-> 3, b |-> 2]]),
             Inst(<<"sram_a">>, "m1", [clk |-> net("ck"), d |-> net("d"), q |-> net("o")])>>)>>, Opts)

\* A memory that is a black box of the netlist, which the FPGA build supplies.
RamMod == Mod("ram", <<"clk", "d", "q">>, <<Decl("input", {"clk", "d"}), Decl("output", {"q"})>>)
BlackBoxed(stmts, opts) ==
  Design(<<RamMod, Top(<<Bus("wire", {"q"}, 1, 0)>> \o Stage("icg", net("clk"), net("c1"), net("e"), "1") \o
     <<Flop("f1", net("c1"), net("d"), BitOf("q", 0)),
       Inst(<<"ram">>, "m0", [clk |-> net("c1"), d |-> BitOf("q", 0), q |-> net("o")])>> \o stmts)>>, opts)
RamOpts == [Opts EXCEPT !.mem_cell = {<<"ram">>}, !.drop = {<<"ram">>}]

\* Netlists and options the tool refuses.
Refused(stmts) == BlackBoxed(stmts, RamOpts)
Observing(n, port) == [RamOpts EXCEPT !.observe = {[net |-> net(n), port |-> port]}]
\* A gated clock through an inout port, and a gate whose latch is in another module.
Inside(dirs, stmts, conns) ==
  LET d == Refused(<<Inst(<<"sub">>, "u1", conns), Inst(<<"LATN", "X1">>, "lat", [EN |-> net("clk"), D |-> net("e"), Q |-> net("l")])>>)
  IN  [d EXCEPT !.text = <<Mod("sub", <<"a", "b">>, dirs \o stmts)>> \o @]

Bad ==
  [statement |-> Refused(<<[k |-> "other"]>>),
   width     |-> Refused(<<Assign(net("q"), net("d"))>>),
   portwidth |-> Inside(<<Bus("input", {"a"}, 1, 0)>>, <<Assign(net("x"), net("b"))>>, [a |-> net("d"), b |-> net("d")]),
   model     |-> Refused(<<Inst(<<"XOR2", "X1">>, "x1", [A |-> net("d"), Z |-> net("z")])>>),
   drivers   |-> Refused(<<Flop("f2", net("clk"), net("d"), BitOf("q", 0))>>),
   inout     |-> Inside(<<Decl("inout", {"a"})>>, <<Flop("f3", net("a"), net("a"), net("z"))>>, [a |-> net("c1")]),
   latch     |-> Inside(<<Decl("input", {"a", "b"})>>,
                        <<Inst(<<"AND2", "X1">>, "g2", [A1 |-> net("a"), A2 |-> net("b"), Z |-> net("c2")]),
                          Flop("f3", net("c2"), net("a"), net("z"))>>, [a |-> net("clk"), b |-> net("l")]),
   load      |-> Refused(<<Inst(<<"LAT", "X1">>, "lat", [E |-> net("c1"), D |-> net("e"), Q |-> net("l")]),
                           Flop("f3", net("clk"), net("l"), net("z"))>>),
   unlisted  |-> BlackBoxed(<<>>, Opts),
   nonet     |-> BlackBoxed(<<>>, Observing("zz", "obs")),
   port      |-> BlackBoxed(<<>>, Observing("q", "e")),
   loop      |-> BlackBoxed(<<Inst(<<"BUFF", "X4">>, "b1", [I |-> net("z1"), Z |-> net("z2")]),
                              Inst(<<"INV", "X1">>, "i1", [I |-> net("z2"), ZN |-> net("z1")]),
                              Flop("f3", net("z1"), net("d"), net("z"))>>, Observing("zz", "obs"))]

Gates1 == {"buf", "icg", "and", "andn", "lat", "nand"}
Gates2 == {"buf", "icg", "and", "andn"}
Good ==
  {OneModule(r, k1, k2) : r \in {"wire", "inv"}, k1 \in Gates1, k2 \in Gates2} \union
  {Hierarchy(r, k1, k2, Unused) : r \in {"wire", "inv"}, k1 \in {"icg", "andn", "nand"}, k2 \in {"icg", "dna"}}
Others ==
  {OneModule("wire", "or", "buf"), OneModule("inv", "nor", "icg"),
   Hierarchy("wire", "and", "icg", net("c3")),
   OneModule("buf", "late", "wire"), OneModule("wire", "lat", "lat"), BlackBoxed(<<>>, RamOpts)}
\* A gate the tool accepts although its output inverts the clock.
Inverting == {OneModule("wire", "nand", "wire")}

All == Good \union Others \union {Bad[n] : n \in DOMAIN Bad}
================================================================================
