--------------------------------- MODULE NetSim ---------------------------------
(***************************************************************************)
(* What a netlist does: the library's cells, simulated by half periods of  *)
(* the clock.  The cells' models are not part of the repository's tools;   *)
(* fpga/README.md, cells.py and clocktrace.py say what each one computes.  *)
(*                                                                         *)
(* A machine M is a flattened netlist reduced to what a simulation needs:  *)
(* the cells with the nets on their pins, the driver of every net, and the *)
(* enable equations the conversion added.  S = [M, in, q] is a machine     *)
(* with its inputs and the contents q of its registers, latches and clock  *)
(* gates, by leaf number.                                                  *)
(***************************************************************************)
EXTENDS FpgaCe

\* The enable equations of a written netlist, by net: a product of sums of nets.  Of two
\* equations for one net, one copies the net onto itself (CeFlow, EnablesWired).
Logic(F) ==
  LET paths == Paths(F.mods, F.top, <<>>)
      netOf(p, e) == Rep(F, Key(p, ExprBits(e, F.mods[paths[p]].width)[1]))
      eqs == UNION {{<<Rep(F, Key(p, <<e[1]>>)),
                       [i \in DOMAIN e[2] |-> [inv |-> e[2][i].inv, or |-> {netOf(p, x) : x \in e[2][i].or}]]>> :
                      e \in F.mods[paths[p]].logic} : p \in DOMAIN paths}
  IN  [r \in {x[1] : x \in eqs} |-> (CHOOSE x \in eqs : x[1] = r /\ \A i \in DOMAIN x[2] : r \notin x[2][i].or)[2]]

Machine(F) ==
  LET T == Trace(F)
      fi_mem(li) == "fi_ce_i" \in DOMAIN F.leaves[li].inst.conns   \* a memory of the FPGA build
      cell(li) == [role |-> IF fi_mem(li) THEN "macro" ELSE T.role[li],
                   base |-> base(F.leaves[li].inst.cell),
                   clk  |-> IF fi_mem(li) THEN {MACRO_CLOCK} ELSE SinkPins(T, li),
                   pin  |-> [p \in DOMAIN F.leaves[li].inst.conns |-> pin_net(T, li, p)]]
  IN  [cell |-> [li \in DOMAIN F.leaves |-> cell(li)], driver |-> T.driver, logic |-> Logic(F)]

IsReg(M, li) == M.cell[li].role \in {"flop", "macro", "blackbox"}
Stores(M) == {li \in DOMAIN M.cell : IsReg(M, li) \/ M.cell[li].role \in {"latch", "icg"}}
ClockPin(M, li) == CHOOSE p \in M.cell[li].clk : TRUE

RECURSIVE Val(_, _)
PinVal(S, li, pin) == Val(S, S.M.cell[li].pin[pin])

IcgEnable(S, li) == IF \E p \in ToSet(ICG_ENABLES) : PinVal(S, li, p) = 1 THEN 1 ELSE 0
LatchOpen(S, li) ==
  PinVal(S, li, ClockPin(S.M, li)) = IF S.M.cell[li].base \in LATCH_LOW THEN 0 ELSE 1
Gate2Val(S, li) ==
  LET g == GATE2[S.M.cell[li].base] IN g.fn[<<PinVal(S, li, g.pins[1]), PinVal(S, li, g.pins[2])>>]

LeafVal(S, li) ==
  LET ro == S.M.cell[li].role
  IN  CASE ro = "buf"   -> PinVal(S, li, "I")
        [] ro = "inv"   -> 1 - PinVal(S, li, "I")
        [] ro = "gate2" -> Gate2Val(S, li)
        [] ro = "icg"   -> PinVal(S, li, ICG_CLOCK) * S.q[li]
        [] ro = "latch" -> IF LatchOpen(S, li) THEN PinVal(S, li, LATCH_D) ELSE S.q[li]
        [] IsReg(S.M, li) -> S.q[li]
        [] OTHER -> 0

FactorVal(S, f) ==
  LET v == IF \E r \in f.or : Val(S, r) = 1 THEN 1 ELSE 0 IN IF f.inv THEN 1 - v ELSE v

Val(S, r) ==
  IF r \in DOMAIN S.M.logic
  THEN IF \A i \in DOMAIN S.M.logic[r] : FactorVal(S, S.M.logic[r][i]) = 1 THEN 1 ELSE 0
  ELSE LET drv == Get(S.M.driver, r, [k |-> "undriven"])
       IN  CASE drv.k = "port"  -> S.in[drv.bit]
             [] drv.k = "const" -> IF drv.bit = One THEN 1 ELSE 0
             [] drv.k = "leaf"  -> LeafVal(S, drv.leaf)
             [] OTHER -> 0

\* The active edge of a register's clock pin, and its clock enable.
Clocked(S, S1, li) ==
  LET p == ClockPin(S.M, li)
  IN  /\ PinVal(S, li, p) # PinVal(S1, li, p)
      /\ PinVal(S1, li, p) = IF p = "CPN" THEN 0 ELSE 1

Enabled(S, li) ==
  \A p \in {"FICE", "fi_ce_i"} \intersect DOMAIN S.M.cell[li].pin : PinVal(S, li, p) = 1

DataPin(M, li) == IF M.cell[li].role = "flop" THEN "D" ELSE "d"

\* The registers after the edge from S to S1, and the latches once it is over.
AfterEdge(S, S1) ==
  [li \in DOMAIN S.q |->
     IF IsReg(S.M, li) /\ Clocked(S, S1, li) /\ Enabled(S, li) THEN PinVal(S, li, DataPin(S.M, li)) ELSE S.q[li]]

Settled(S) ==
  [li \in DOMAIN S.q |->
     CASE S.M.cell[li].role = "latch" /\ LatchOpen(S, li) -> PinVal(S, li, LATCH_D)
       [] S.M.cell[li].role = "icg" /\ PinVal(S, li, ICG_CLOCK) = 0 -> IcgEnable(S, li)
       [] OTHER -> S.q[li]]

\* A half period: the clock toggles, then the other inputs change.
Toggled(S, clk) == [S EXCEPT !.in[clk] = 1 - @]
HalfPeriod(S, clk, data) ==
  LET S1 == Toggled(S, clk)
      S2 == [S1 EXCEPT !.q = AfterEdge(S, S1), !.in = data @@ @]
  IN  [S2 EXCEPT !.q = Settled(S2)]
=================================================================================
