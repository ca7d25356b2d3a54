--------------------------------- MODULE FpgaCe ---------------------------------
(***************************************************************************)
(* fpga/tools/fi_fpga_ce.py: clock gates turned into clock enables.        *)
(*                                                                         *)
(* C is the tool's context: [T, gn, gates, paths], the trace, the gated    *)
(* nets with their clocks, the gates, and the module at every path.  The   *)
(* edits are kept as sets of tuples that start with the module they        *)
(* change: the design is uniquified, so a module has one path.  An enable  *)
(* expression is a sequence of factors [inv, or], or a set of nets.        *)
(***************************************************************************)
EXTENDS ClockTrace

fien(n) == n \o "__fien"
net(n) == [k |-> "net", n |-> n]

\* sorted(S)[0]: which of the names is first does not matter.
First(S) == CHOOSE n \in S : TRUE

-----------------------------------------------------------------------------
(* The gated clock nets, the gates, and the names they have. *)

\* clock_of for every sink, one after the other, into one memo.
TraceAll(T) ==
  LET Visit(memo, s) ==
        LET r == pin_net(T, s.leaf, s.pin) IN IF r = NoNet THEN memo ELSE clock_of(T, r, memo).memo
  IN  FoldLeft(Visit, <<>>, sinks(T))

\* What the memo says of the registers and memories whose clock is traced to a port.
TracedSinks(T, memo) ==
  LET known == {s \in ToSet(sinks(T)) :
                  /\ s.role # "latch" /\ pin_net(T, s.leaf, s.pin) \in DOMAIN memo
                  /\ Known(memo[pin_net(T, s.leaf, s.pin)])}
  IN  [li \in {s.leaf : s \in known} |->
         LET s == CHOOSE s \in known : s.leaf = li IN memo[pin_net(T, s.leaf, s.pin)]]

RECURSIVE Paths(_, _, _)
Paths(mods, mname, path) ==
  (path :> mname) @@
  FoldLeft(LAMBDA acc, inst : IF IsChild(mods, inst)
                              THEN Paths(mods, inst.cell, Append(path, inst.name)) @@ acc ELSE acc,
           <<>>, mods[mname].insts)

Context(T, memo) ==
  LET gn == [r \in {x \in DOMAIN memo : Known(memo[x]) /\ memo[x].gates # <<>>} |-> memo[r]]
      all == UNION {ToSet(gn[r].gates) : r \in DOMAIN gn}
  IN  [T |-> T, gn |-> gn, gates |-> [li \in {g.leaf : g \in all} |-> CHOOSE g \in all : g.leaf = li],
       paths |-> Paths(T.F.mods, T.F.top, <<>>)]

ModAt(C, path) == C.T.F.mods[C.paths[path]]

\* The scalar names in an expression; buses carry no clock.
RECURSIVE Idents(_)
Idents(e) ==
  CASE e.k = "net" -> {e.n}
    [] e.k = "cat" -> UNION {Idents(e.parts[i]) : i \in DOMAIN e.parts}
    [] OTHER -> {}

Names(mod) ==
  (ToSet(mod.ports) \union DOMAIN mod.dirs
   \union UNION {UNION {Idents(i.conns[p]) : p \in DOMAIN i.conns} : i \in ToSet(mod.insts)}
   \union UNION {Idents(a[1]) \union Idents(a[2]) : a \in ToSet(mod.assigns)})
  \ DOMAIN mod.width

Local(C, path, r) ==
  {n \in Names(ModAt(C, path)) :
     Key(path, <<n>>) \in DOMAIN C.T.F.rep /\ Rep(C.T.F, Key(path, <<n>>)) = r}

LocalNets(C) == {pr \in (DOMAIN C.paths) \X (DOMAIN C.gn) : Local(C, pr[1], pr[2]) # {}}

\* Where the driver of a gated net sits, seen from path.
relation(C, path, r) ==
  LET pd == C.T.F.leaves[C.T.driver[r].leaf].path
  IN  IF pd = path THEN "local" ELSE IF IsStrictPrefix(path, pd) THEN "child" ELSE "parent"

NamesWith(C, path, r, d) == {n \in Local(C, path, r) : Get(ModAt(C, path).dirs, n, "") = d}

\* The name whose companion carries the enable inside the module.
canon(C, path, r) ==
  LET ins  == NamesWith(C, path, r, "input")
      outs == NamesWith(C, path, r, "output")
  IN  IF relation(C, path, r) = "parent" THEN First(ins)
      ELSE IF outs # {} THEN First(outs) ELSE First(Local(C, path, r))

\* A gated clock that enters a module without an input port stops the tool.
EntersUnseen(C) ==
  \E pr \in LocalNets(C) :
    relation(C, pr[1], pr[2]) = "parent" /\ NamesWith(C, pr[1], pr[2], "input") = {}

-----------------------------------------------------------------------------
(* The edits. *)

NoEdits == [ports |-> {}, wires |-> {}, assigns |-> {}, logic |-> {}, cells |-> {}, add |-> {}, repl |-> {}]
EditKinds == DOMAIN NoEdits
Merge(S) == [k \in EditKinds |-> UNION {e[k] : e \in S}]

\* The condition under which a gate passes an edge.
EnableOf(C, li) ==
  LET g == C.gates[li]
      conns(l) == C.T.F.leaves[l].inst.conns
  IN  IF g.kind = "icg" THEN [inv |-> FALSE, or |-> {conns(li)[p] : p \in ToSet(ICG_ENABLES)}]
      ELSE [inv |-> g.inv_x, or |-> {conns(g.lat)[LATCH_D]}]

Factor(n) == [inv |-> FALSE, or |-> {net(n)}]

\* The enable of the clock a gate is fed with.
Upstream_Mutant(C, path, r_in) == <<>>
Upstream(C, path, r_in) ==
  IF r_in \in DOMAIN C.gn THEN <<Factor(fien(canon(C, path, r_in)))>> ELSE <<>>

\* The gate's own output is left on a net of nothing.
DeadOutput(m, inst, pin, dn) == {<<m, inst.name, pin, net(dn)>>}

\* A gate stops gating: its output net follows its input clock, and its enable,
\* times the enable of that clock, travels next to it.
GateEdits(C, path, r, li) ==
  LET m    == C.paths[path]
      inst == C.T.F.leaves[li].inst
      g    == C.gates[li]
      pin  == C.T.driver[r].pin
      r_in == pin_net(C.T, li, g.in_pin)
      dn   == "fi_ce_dead_" \o ToString(li)
  IN  [NoEdits EXCEPT
         !.logic   = {<<m, fien(canon(C, path, r)), Append(Upstream(C, path, r_in), EnableOf(C, li))>>},
         !.wires   = {<<m, dn>>},
         !.repl    = DeadOutput(m, inst, pin, dn),
         !.assigns = {<<m, inst.conns[pin], inst.conns[g.in_pin]>>}]

\* A buffer or an inverter passes the enable on.
BufEdits(C, path, r, li) ==
  LET r_in == pin_net(C.T, li, "I")
  IN  [NoEdits EXCEPT !.logic = {<<C.paths[path], fien(canon(C, path, r)),
                                   <<Factor(fien(canon(C, path, r_in)))>> >>}]

DriverEdits(C, path, r) ==
  LET li == C.T.driver[r].leaf
  IN  IF relation(C, path, r) # "local" THEN NoEdits
      ELSE IF li \in DOMAIN C.gates THEN GateEdits(C, path, r, li) ELSE BufEdits(C, path, r, li)

\* The tool stops at a gate whose latch is in another module.
LatchElsewhere(C) ==
  \E li \in DOMAIN C.gates :
    C.gates[li].kind = "latch" /\ C.T.F.leaves[C.gates[li].lat].path # C.T.F.leaves[li].path

\* Companion ports for the names that are ports, one of them the source.
NetEdits_Mutant(C, path, r) ==
  LET m   == C.paths[path]
      c   == canon(C, path, r)
      io  == {"input", "output"}
      own == [NoEdits EXCEPT
                !.ports = UNION {{<<m, d, fien(n)>> : n \in NamesWith(C, path, r, d)} : d \in io},
                !.logic = {<<m, fien(n), <<Factor(fien(c))>> >> : n \in NamesWith(C, path, r, "output")},
                !.wires = IF c \in DOMAIN ModAt(C, path).dirs THEN {} ELSE {<<m, fien(c)>>}]
  IN  Merge({own, DriverEdits(C, path, r)})
NetEdits(C, path, r) ==
  LET m   == C.paths[path]
      c   == canon(C, path, r)
      io  == {"input", "output"}
      own == [NoEdits EXCEPT
                !.ports = UNION {{<<m, d, fien(n)>> : n \in NamesWith(C, path, r, d)} : d \in io},
                !.logic = {<<m, fien(n), <<Factor(fien(c))>> >> : n \in NamesWith(C, path, r, "output") \ {c}},
                !.wires = IF c \in DOMAIN ModAt(C, path).dirs THEN {} ELSE {<<m, fien(c)>>}]
  IN  Merge({own, DriverEdits(C, path, r)})

\* A child's clock pins get their companions.
ChildEdits(C, path) ==
  LET mod == ModAt(C, path)
      nets(inst, pin) ==
        LET bits == ExprBits(inst.conns[pin], mod.width)
        IN  IF Len(bits) = 1 THEN {Rep(C.T.F, Key(path, bits[1]))} \intersect DOMAIN C.gn ELSE {}
  IN  [NoEdits EXCEPT
         !.add = UNION {UNION {{<<C.paths[path], i.name, fien(pin), net(fien(canon(C, path, r)))>> :
                                  r \in nets(i, pin)} : pin \in DOMAIN i.conns} :
                        i \in {j \in ToSet(mod.insts) : IsChild(C.T.F.mods, j)}}]

\* Flops become _FICE flops; memories get fi_ce_i, gated or not.
IsMemory(C, opts, s) ==
  s.role = "macro" \/ (s.role = "blackbox" /\ C.T.F.leaves[s.leaf].inst.cell \in opts.mem_cell)

SinkEdits(C, opts, s) ==
  LET leaf == C.T.F.leaves[s.leaf]
      inst == leaf.inst
      r    == pin_net(C.T, s.leaf, s.pin)
      ce   == net(fien(canon(C, leaf.path, r)))
      always == [k |-> "const", size |-> 1, val |-> 1]
  IN  IF IsMemory(C, opts, s)
      THEN [NoEdits EXCEPT !.add = {<<leaf.owner, inst.name, "fi_ce_i", IF r \in DOMAIN C.gn THEN ce ELSE always>>}]
      ELSE IF r \in DOMAIN C.gn /\ s.role = "flop"
      THEN [NoEdits EXCEPT !.cells = {<<leaf.owner, inst.name, Append(inst.cell, "FICE")>>},
                           !.add   = {<<leaf.owner, inst.name, "FICE", ce>>}]
      ELSE NoEdits

\* The tool stops at a latch on a gated clock that drives more than gates, and
\* at a black box on a gated clock that is not a listed memory.
SinkStops(C, opts, s) ==
  /\ pin_net(C.T, s.leaf, s.pin) \in DOMAIN C.gn
  /\ ~IsMemory(C, opts, s)
  /\ \/ s.role = "blackbox"
     \/ /\ s.role = "latch"
        /\ \E p \in C.T.F.pins :
             p.dir = "input" /\ p.net = pin_net(C.T, s.leaf, Q) /\ p.leaf \notin DOMAIN C.gates

-----------------------------------------------------------------------------
(* The memories' restore wires, brought up to the top. *)

Mems(C, opts) ==
  SelectSeq([li \in DOMAIN C.T.F.leaves |-> li], LAMBDA li : C.T.F.leaves[li].inst.cell \in opts.mem_cell)

MemOut(k, s) == "fi_mem" \o ToString(k) \o "_" \o s \o "_o"
Sig(k) ==
  [fi_restore_i |-> "fi_mem_restore_i", fi_done_o |-> MemOut(k, "done"),
   fi_abort_o |-> MemOut(k, "abort"), fi_bad_o |-> MemOut(k, "bad")]
SigDir(pin) == IF pin = "fi_restore_i" THEN "input" ELSE "output"

Upward_Mutant(path) == {SubSeq(path, 1, d) : d \in 1 .. Len(path)}
Upward(path) == {SubSeq(path, 1, d) : d \in 0 .. Len(path)}

\* Every module from the memory's owner up to the top passes the wires on.
MemEdits(C, opts, k) ==
  LET leaf == C.T.F.leaves[Mems(C, opts)[k]]
      up   == Upward(leaf.path)
      sig  == Sig(k)
  IN  [NoEdits EXCEPT
         !.ports = {<<C.paths[p], SigDir(pin), sig[pin]>> : p \in up, pin \in DOMAIN sig},
         !.add   = {<<leaf.owner, leaf.inst.name, pin, net(sig[pin])>> : pin \in DOMAIN sig} \union
                   {<<C.paths[Front(p)], Last(p), sig[pin], net(sig[pin])>> : p \in up \ {<<>>}, pin \in DOMAIN sig}]

\* --observe: a net of the top, out as a port.
ObserveEdits(C, o) ==
  [NoEdits EXCEPT !.ports = {<<C.T.F.top, "output", o.port>>}, !.assigns = {<<C.T.F.top, net(o.port), o.net>>}]
ObserveStops(C, o) ==
  LET top == C.T.F.mods[C.T.F.top]
      used == Names(top) \union DOMAIN top.width \union {i.name : i \in ToSet(top.insts)}
  IN  o.net.n \notin used \/ o.port \in ToSet(top.ports) \union DOMAIN top.dirs

-----------------------------------------------------------------------------
(* Writing the netlist. *)

Pick3(S, m, i) == {e \in S : e[1] = m /\ e[2] = i}

Edited(S, m, i) ==
  [p \in {e[3] : e \in Pick3(S, m, i)} |-> (CHOOSE e \in Pick3(S, m, i) : e[3] = p)[4]]

\* An instance keeps the connections that are not replaced.
Conns_Mutant(E, m, inst) == Edited(E.add, m, inst.name) @@ Edited(E.repl, m, inst.name)
Conns(E, m, inst) == Edited(E.add, m, inst.name) @@ Edited(E.repl, m, inst.name) @@ inst.conns

WriteInst(E, m, inst) ==
  LET cells == Pick3(E.cells, m, inst.name)
  IN  [inst EXCEPT !.cell = IF cells = {} THEN @ ELSE (CHOOSE e \in cells : TRUE)[3],
                   !.conns = IF Pick3(E.add \union E.repl, m, inst.name) = {} THEN @ ELSE Conns(E, m, inst)]

WriteModule(E, mod, m) ==
  LET ports == {<<e[2], e[3]>> : e \in {x \in E.ports : x[1] = m}}
      Of(S) == {<<e[2], e[3]>> : e \in {x \in S : x[1] = m}}
  IN  [mod EXCEPT
         !.ports   = @ \o Listed({p[2] : p \in ports} \ ToSet(@)),
         !.dirs    = @ @@ [n \in {p[2] : p \in ports} |-> (CHOOSE p \in ports : p[2] = n)[1]],
         !.insts   = [i \in DOMAIN @ |-> WriteInst(E, m, @[i])],
         !.assigns = @ \o Listed(Of(E.assigns)),
         !.logic   = Of(E.logic)]

Write(E, mods, drop) == [m \in DOMAIN mods \ drop |-> WriteModule(E, mods[m], m)]

\* --glue: the ports of the top the wrapper's side connects, and the ports it combines
\* into the one memory the wrapper sees: done of all of them, abort or bad of any.
Glue(n) ==
  LET outs(s) == {MemOut(k, s) : k \in 1 .. n}
      all == outs("done") \union outs("abort") \union outs("bad")
  IN  [out   |-> [done |-> outs("done"), abort |-> outs("abort"), bad |-> outs("bad")],
       ports |-> IF n = 0 THEN {} ELSE {"fi_mem_restore_i"} \union all]
=================================================================================
