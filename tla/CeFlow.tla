--------------------------------- MODULE CeFlow ---------------------------------
(***************************************************************************)
(* A run of fi_fpga_ce.py, stage by stage, and then the netlist it read    *)
(* and the netlist it wrote side by side on the same clock and inputs.     *)
(***************************************************************************)
EXTENDS NetSim, NetRef

CONSTANTS
  Designs,       \* the designs, a set of [text, top, opts, clk, ins]: see MCFpgaPrep
  Models,        \* the models of the library's cells and memories, by cell
  FpgaModels     \* the pins of the models the FPGA build supplies, by cell

VARIABLES
  design,        \* the design converted
  stage,         \* where the tool is
  ctx,           \* what it knows of the netlist: its trace, then its context
  traced,        \* the clock of every register that is traced to a port
  edits,         \* the edits so far
  out,           \* the netlist it wrote, flattened by the FPGA build
  gated, ce      \* the two machines: [M, in, q]

tool == <<ctx, traced, edits, out>>
bench == <<gated, ce>>
vars == <<design, stage, tool, bench>>

None == <<>>
Init ==
  /\ design \in Designs
  /\ stage = "read"
  /\ ctx = None /\ traced = None /\ edits = NoEdits /\ out = None
  /\ gated = None /\ ce = None

Advance(from, to) == stage = from /\ stage' = to /\ UNCHANGED design
Exit(from) == Advance(from, "exit") /\ UNCHANGED <<tool, bench>>
Plan(S) == edits' = Merge({edits} \union S) /\ UNCHANGED <<ctx, traced, out, bench>>

Netlist == Flat(Parse(design.text), design.top, [c \in DOMAIN Models |-> CellDirs(Models[c])])

Read ==
  /\ Advance("read", "trace")
  /\ \E F \in {Netlist} : ~F.bad /\ ~TwoDrivers(F) /\ ctx' = Trace(F)
  /\ UNCHANGED <<traced, edits, out, bench>>

ReadFails == stage = "read" /\ (\E F \in {Netlist} : F.bad \/ TwoDrivers(F)) /\ Exit("read")

TraceClocks ==
  /\ Advance("trace", "nets")
  /\ \E memo \in {TraceAll(ctx)} :
       /\ ctx' = Context(ctx, memo)
       /\ traced' = TracedSinks(ctx, memo)
  /\ UNCHANGED <<edits, out, bench>>

NetsStop == EntersUnseen(ctx) \/ LatchElsewhere(ctx)
EditNets ==
  /\ Advance("nets", "children")
  /\ ~NetsStop
  /\ Plan({NetEdits(ctx, pr[1], pr[2]) : pr \in LocalNets(ctx)})
NetsFail == stage = "nets" /\ NetsStop /\ Exit("nets")

EditChildren ==
  /\ Advance("children", "sinks")
  /\ Plan({ChildEdits(ctx, p) : p \in DOMAIN ctx.paths})

SinksStop == \E s \in ToSet(sinks(ctx.T)) : SinkStops(ctx, design.opts, s)
EditSinks ==
  /\ Advance("sinks", "mems")
  /\ ~SinksStop
  /\ Plan({SinkEdits(ctx, design.opts, s) : s \in ToSet(sinks(ctx.T))})
SinksFail == stage = "sinks" /\ SinksStop /\ Exit("sinks")

EditMems ==
  /\ Advance("mems", "observe")
  /\ Plan({MemEdits(ctx, design.opts, k) : k \in DOMAIN Mems(ctx, design.opts)})

ObserveStop == \E o \in design.opts.observe : ObserveStops(ctx, o)
Observe ==
  /\ Advance("observe", "write")
  /\ ~ObserveStop
  /\ Plan({ObserveEdits(ctx, o) : o \in design.opts.observe})
ObserveFails == stage = "observe" /\ ObserveStop /\ Exit("observe")

\* The netlist is written, and the FPGA build reads it with its own models.
WriteOut ==
  /\ Advance("write", "written")
  /\ out' = Flat(Write(edits, ctx.T.F.mods, design.opts.drop), design.top, FpgaModels)
  /\ UNCHANGED <<ctx, traced, edits, bench>>

\* Both netlists on the bench, the registers at 0.
OnBench(F) ==
  LET M == Machine(F)
      S == [M |-> M, in |-> design.clk :> 0 @@ [i \in design.ins |-> 0], q |-> [li \in Stores(M) |-> 0]]
  IN  [S EXCEPT !.q = Settled(S)]

Start ==
  /\ Advance("written", "sim")
  /\ gated' = OnBench(ctx.T.F) /\ ce' = OnBench(out)
  /\ ctx' = None /\ edits' = NoEdits /\ out' = None /\ UNCHANGED traced

Tick(data) ==
  /\ gated' = HalfPeriod(gated, design.clk, data)
  /\ ce' = HalfPeriod(ce, design.clk, data)
  /\ UNCHANGED <<design, stage, tool>>

Sim == stage = "sim" /\ \E data \in [design.ins -> {0, 1}] : Tick(data)

Next ==
  \/ Read \/ ReadFails \/ TraceClocks \/ EditNets \/ NetsFail \/ EditChildren \/ EditSinks \/ SinksFail
  \/ EditMems \/ Observe \/ ObserveFails \/ WriteOut \/ Start
  \/ Sim


-----------------------------------------------------------------------------
(* Properties. *)

\* vnet.py joins exactly the bits the netlist connects, across the hierarchy, whatever
\* the direction of a bus's range; and a net tied to a constant is represented by it
\* (key, find, union, _walk, expr_bits).
FlatIsConnectivity ==
  stage = "trace" =>
    LET F     == ctx.F
        paths == Paths(F.mods, F.top, <<>>)
        wires == UNION {WiresAt(F.mods, paths[p], p) : p \in DOMAIN paths}
    IN  \A k \in DOMAIN F.rep :
          /\ {x \in DOMAIN F.rep : F.rep[x] = F.rep[k]} = Reach({k}, wires) \intersect DOMAIN F.rep
          /\ \A c \in {Key(<<>>, Zero), Key(<<>>, One)} : c \in Reach({k}, wires) => F.rep[k] = c

\* What a gate lets through, from the contents of its latch.
Open(S, g) ==
  IF g.kind = "icg" THEN S.q[g.leaf] = 1
  ELSE Val(S, S.M.cell[g.lat].pin[Q]) = IF g.inv_x THEN 0 ELSE 1

\* clocktrace.py's answer is what the gated netlist does: when the root toggles, the
\* clock pin of a register toggles, in the traced polarity, exactly if every gate on the
\* way is open (clock_of, _gate2).
ClocksAsTraced ==
  stage = "sim" =>
    LET S1 == Toggled(gated, design.clk)
    IN  \A li \in DOMAIN traced :
          LET v(S) == PinVal(S, li, ClockPin(gated.M, li))
              edge == \A i \in DOMAIN traced[li].gates : Open(gated, traced[li].gates[i])
          IN  /\ traced[li].root = design.clk
              /\ (v(gated) # v(S1)) <=> edge
              /\ edge => v(S1) = IF traced[li].inv THEN 1 - S1.in[design.clk] ELSE S1.in[design.clk]

\* A gate whose output inverts its clock: see the finding on fi_fpga_ce.py:172.
InvertingGate == \E li \in DOMAIN gated.M.cell : gated.M.cell[li].base = "NAND2"

\* The converted netlist, whose clocks are never gated, computes what the gated one does:
\* every flop and memory has the same contents after every edge.
SameContents ==
  stage = "sim" => \A li \in DOMAIN gated.q : IsReg(gated.M, li) => gated.q[li] = ce.q[li]
ConversionExact == stage = "sim" /\ ~InvertingGate => SameContents

\* Every enable of the written netlist has one driver: the enable nets of flops and
\* memories have an equation or are the constant 1, no net has two equations, and none
\* is driven by a cell or an input as well (canon, new_ports, new_assigns, the dead gate
\* outputs).  The exception is the code's: a module hands each of its outputs that carry
\* a gated clock an enable, and where its parent uses two of them both drive one net.
EnablesWired ==
  stage = "written" =>
    LET T     == Trace(out)
        paths == Paths(out.mods, out.top, <<>>)
        eqs   == UNION {{[at |-> p, lhs |-> e[1], rhs |-> e[2]] : e \in out.mods[paths[p]].logic} :
                        p \in DOMAIN paths}
        netOf(x) == Rep(out, Key(x.at, <<x.lhs>>))
        twoOutputs(x, y) ==
          /\ x.at = y.at /\ x.at # <<>> /\ x.lhs # y.lhs
          /\ \A z \in {x, y} : Get(out.mods[paths[z.at]].dirs, z.lhs, "") = "output"
        ces   == {p.net : p \in {q \in out.pins : q.pin[1] \in {"FICE", "fi_ce_i"}}}
    IN  /\ ~out.bad /\ ~TwoDrivers(out)
        /\ \A x, y \in eqs : netOf(x) = netOf(y) => x = y \/ twoOutputs(x, y)
        /\ {netOf(x) : x \in eqs} \intersect DOMAIN T.driver = {}
        /\ ces \subseteq {netOf(x) : x \in eqs} \union {Key(<<>>, One)}

\* Every memory listed has its four restore wires at ports of the top that the glue
\* connects, and no two memories share an output (fi_fpga_ce.py, --mem-cell, --glue).
RestoreWired ==
  stage = "written" =>
    LET mems == Mems(ctx, design.opts)
        glue == Glue(Len(mems))
        at(li, pin) == {p.net : p \in {q \in out.pins : q.leaf = li /\ q.pin = <<pin>>}}
        port(n) == Rep(out, Key(<<>>, <<n>>))
        top == out.mods[out.top]
    IN  /\ \A k \in DOMAIN mems :
             /\ at(mems[k], "fi_restore_i") = {port("fi_mem_restore_i")}
             /\ \A s \in DOMAIN glue.out :
                  \E n \in glue.out[s] : at(mems[k], "fi_" \o s \o "_o") = {port(n)}
        /\ \A s \in DOMAIN glue.out : \A n \in glue.out[s] :
             /\ Get(top.dirs, n, "") = "output" /\ n \in glue.ports
             /\ Cardinality({k \in DOMAIN mems : at(mems[k], "fi_" \o s \o "_o") = {port(n)}}) = 1

\* "Nothing else changes": two nets that carry no gated clock are one net after the
\* conversion exactly if they were before, and the leaves keep their places and names.
NothingElseChanges ==
  stage = "written" =>
    LET F == ctx.T.F
        rest == {k \in DOMAIN F.rep : F.rep[k] \notin DOMAIN ctx.gn}
    IN  /\ \A x, y \in rest : (F.rep[x] = F.rep[y]) <=> (Rep(out, x) = Rep(out, y))
        /\ [li \in DOMAIN F.leaves |-> <<F.leaves[li].path, F.leaves[li].inst.name>>] =
           [li \in DOMAIN out.leaves |-> <<out.leaves[li].path, out.leaves[li].inst.name>>]
=================================================================================
