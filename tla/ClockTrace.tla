------------------------------- MODULE ClockTrace -------------------------------
(***************************************************************************)
(* fpga/tools/clocktrace.py: every register's clock traced back to a port, *)
(* with the gates on the way.                                              *)
(*                                                                         *)
(* F is a flattened netlist (Vnet!Flat).  A traced clock is [root, inv,    *)
(* gates]; one that cannot be traced has the root <<"?">> and a reason.     *)
(***************************************************************************)
EXTENDS Vnet, Cells

PinsWith(dirs, d) == {p \in DOMAIN dirs : dirs[p] = d}

\* The first of names the cell has, the last one if it has none.
first_pin(names, dirs) ==
  LET has == {i \in DOMAIN names : names[i] \in DOMAIN dirs}
  IN  names[IF has = {} THEN Len(names) ELSE CHOOSE i \in has : \A j \in has : i <= j]

\* The first test that holds decides.
role(cell, dirs) ==
  LET ins   == PinsWith(dirs, "input")
      outs  == PinsWith(dirs, "output")
      b     == base(cell)
      tests == << <<"icg",   b \in ICG>>,
                  <<"icg_n", b \in ICG_NEG>>,
                  <<"flop",  ToSet(FLOP_CLOCKS) \intersect ins # {} /\ Q \in outs>>,
                  <<"latch", b \in LATCH /\ Q \in outs>>,
                  <<"buf",   ins = BUF.ins /\ outs = BUF.outs>>,
                  <<"inv",   ins = INV.ins /\ outs = INV.outs>>,
                  <<"gate2", b \in DOMAIN GATE2>>,
                  <<"macro", b \in MACRO>>,
                  <<"comb",  TRUE>> >>
  IN  tests[SelectInSeq(tests, LAMBDA t : t[2])][1]

RoleOf(F, li) ==
  LET cell == F.leaves[li].inst.cell
  IN  IF cell \in BlackBox(F.mods) THEN "blackbox" ELSE role(cell, F.models[cell])

-----------------------------------------------------------------------------
(* Trace.__init__: the driver of each net.  A leaf's output comes before a  *)
(* port, a port before a constant; two outputs on a net raise.             *)

Outputs(F) == {p \in F.pins : p.dir = "output"}
TwoDrivers(F) == \E p, q \in Outputs(F) : p # q /\ p.net = q.net

PortNets(F) ==
  LET top == F.mods[F.top]
  IN  UNION {{<<Rep(F, Key(<<>>, PortBits(top, p)[i])), PortBits(top, p)[i]>> :
                i \in DOMAIN PortBits(top, p)} : p \in PinsWith(top.dirs, "input")}

Drivers(F) ==
  LET leaf  == [r \in {p.net : p \in Outputs(F)} |->
                  LET p == CHOOSE p \in Outputs(F) : p.net = r IN [k |-> "leaf", leaf |-> p.leaf, pin |-> p.pin[1]]]
      port  == [r \in {x[1] : x \in PortNets(F)} |->
                  [k |-> "port", bit |-> (CHOOSE x \in PortNets(F) : x[1] = r)[2]]]
      const == [r \in {Rep(F, k) : k \in DOMAIN F.const} |->
                  [k |-> "const", bit |-> F.const[CHOOSE k \in DOMAIN F.const : Rep(F, k) = r]]]
  IN  leaf @@ port @@ const

Trace(F) == [F |-> F, driver |-> Drivers(F), role |-> [li \in DOMAIN F.leaves |-> RoleOf(F, li)]]

NoNet == <<<<"none">>, <<>>>>

\* The net on a one-bit pin.
pin_net(T, li, pin) ==
  LET leaf == T.F.leaves[li]
      e    == Get(leaf.inst.conns, pin, [k |-> "none"])
      bits == ExprBits(e, T.F.mods[leaf.owner].width)
  IN  IF Len(bits) = 1 THEN Rep(T.F, Key(leaf.path, bits[1])) ELSE NoNet

-----------------------------------------------------------------------------
(* clock_of, with its memo: every call returns the clock and the memo.     *)

Unknown(why) == [root |-> <<"?">>, why |-> why]
Known(c) == c.root # <<"?">>
Clock(root, inv, gates) == [root |-> root, inv |-> inv, gates |-> gates]
Gate(kind, li, lat, inv_x, in_pin) ==
  [kind |-> kind, leaf |-> li, lat |-> lat, inv_x |-> inv_x, in_pin |-> in_pin]

\* What a two-input gate with clock pin number ck does to a clock: it must be
\* static while the clock is low and follow the latch while it is high.
GateFn(cell, ck, c, x) == GATE2[base(cell)].fn[IF ck = 1 THEN <<c, x>> ELSE <<x, c>>]
Passes(cell, ck, low) ==
  /\ GateFn(cell, ck, 0, 0) = low /\ GateFn(cell, ck, 0, 1) = low
  /\ GateFn(cell, ck, 1, 0) # GateFn(cell, ck, 1, 1)

LatchOf(T, net) ==
  IF net \in DOMAIN T.driver /\ T.driver[net].k = "leaf" /\ T.role[T.driver[net].leaf] = "latch"
  THEN {T.driver[net].leaf} ELSE {}

\* The latch must be transparent while the gate's clock input is low.
OpenWhileLow_Mutant(T, lat, lup, up) == TRUE
OpenWhileLow(T, lat, lup, up) ==
  (lup.inv = up.inv) = (base(T.F.leaves[lat].inst.cell) \in LATCH_LOW)

\* The gate with its clock and its latch known.
GateResult(T, li, cell, ck, lat, up, lup) ==
  LET gate(inv_x) == Gate("latch", li, lat, inv_x, GATE2[base(cell)].pins[ck])
  IN  CASE ~OpenWhileLow(T, lat, lup, up) -> Unknown("latch open while the clock is high")
        [] OpenWhileLow(T, lat, lup, up) /\ Passes(cell, ck, 0) ->
             Clock(up.root, up.inv, Append(up.gates, gate(GateFn(cell, ck, 1, 1) = 0)))
        [] OpenWhileLow(T, lat, lup, up) /\ Passes(cell, ck, 1) ->
             Clock(up.root, ~up.inv, Append(up.gates, gate(GateFn(cell, ck, 1, 0) = 0)))
        [] OTHER -> Unknown("not an AND-type gate")

RECURSIVE clock_of(_, _, _)
RECURSIVE Gate2(_, _, _, _)

\* The gate's clock traced, then its latch's; a clock that does not fit means that the
\* gate may be the other way round.
WithLatch(T, li, ck, lat, up, lup) ==
  IF lup.clk.root # up.clk.root THEN Gate2(T, li, ck + 1, lup.memo)
  ELSE [clk |-> GateResult(T, li, T.F.leaves[li].inst.cell, ck, lat, up.clk, lup.clk), memo |-> lup.memo]

WithClock(T, li, ck, lat, up) ==
  LET en == first_pin(LATCH_ENABLES, T.F.models[T.F.leaves[lat].inst.cell])
  IN  IF ~Known(up.clk) THEN Gate2(T, li, ck + 1, up.memo)
      ELSE WithLatch(T, li, ck, lat, up, clock_of(T, pin_net(T, lat, en), up.memo))

\* The two orientations of the gate, tried in turn from the ck-th pin on.
Gate2(T, li, ck, memo) ==
  LET pins == GATE2[base(T.F.leaves[li].inst.cell)].pins
      lats == LatchOf(T, pin_net(T, li, pins[3 - ck]))
  IN  IF ck > 2 THEN [clk |-> Unknown("2-input cell without a gating latch"), memo |-> memo]
      ELSE IF lats = {} THEN Gate2(T, li, ck + 1, memo)
      ELSE WithClock(T, li, ck, CHOOSE l \in lats : TRUE, clock_of(T, pin_net(T, li, pins[ck]), memo))

Memoized(r, res) == [clk |-> res.clk, memo |-> r :> res.clk @@ res.memo]

\* A net met again on its own path is answered with the placeholder "loop".
clock_of(T, r, memo) ==
  LET m0  == r :> Unknown("loop") @@ memo
      drv == Get(T.driver, r, [k |-> "undriven"])
      ro  == T.role[drv.leaf]
      Up(pin, F(_)) ==
        LET up == clock_of(T, pin_net(T, drv.leaf, pin), m0)
        IN  [up EXCEPT !.clk = IF Known(@) THEN F(@) ELSE @]
      res ==
        CASE drv.k = "undriven" -> [clk |-> Unknown("undriven"), memo |-> m0]
          [] drv.k = "port"  -> [clk |-> Clock(drv.bit, FALSE, <<>>), memo |-> m0]
          [] drv.k = "const" -> [clk |-> Unknown("constant"), memo |-> m0]
          [] drv.k = "leaf" /\ ro = "buf" -> Up("I", LAMBDA c : c)
          [] drv.k = "leaf" /\ ro = "inv" -> Up("I", LAMBDA c : [c EXCEPT !.inv = ~@])
          [] drv.k = "leaf" /\ ro = "icg" ->
               Up(ICG_CLOCK, LAMBDA c : [c EXCEPT !.gates = Append(@, Gate("icg", drv.leaf, 0, FALSE, ICG_CLOCK))])
          [] drv.k = "leaf" /\ ro = "gate2" -> Gate2(T, drv.leaf, 1, m0)
          [] OTHER -> [clk |-> Unknown("driven by another cell"), memo |-> m0]
  IN  IF r \in DOMAIN memo THEN [clk |-> memo[r], memo |-> memo]
      ELSE Memoized(r, res)

-----------------------------------------------------------------------------
(* sinks: every clock pin of a register, latch, memory or black box. *)

IsClockName(pin) == pin \in {"clk", "clk_i", "clock"}

SinkPins(T, li) ==
  LET inst == T.F.leaves[li].inst
      d    == Get(T.F.models, inst.cell, <<>>)
  IN  CASE T.role[li] = "flop"  -> {first_pin(FLOP_CLOCKS, d)}
        [] T.role[li] = "latch" -> {first_pin(LATCH_ENABLES, d)}
        [] T.role[li] = "macro" -> {MACRO_CLOCK}
        [] T.role[li] = "blackbox" ->
             {p \in DOMAIN inst.conns : IsClockName(p) /\ Get(T.F.mods[inst.cell].dirs, p, "") = "input"}
        [] OTHER -> {}

sinks(T) ==
  FlattenSeq([li \in DOMAIN T.F.leaves |->
     Listed({[leaf |-> li, pin |-> p, role |-> T.role[li]] : p \in SinkPins(T, li)})])
=================================================================================
