---------------------------------- MODULE Vnet ----------------------------------
(***************************************************************************)
(* fpga/tools/vnet.py: a structural netlist read into modules and          *)
(* connected bit by bit across the hierarchy.                              *)
(*                                                                         *)
(* The text is abstracted to its statements: a module is a name, its port  *)
(* list and a sequence of records [k |-> "decl" | "assign" | "inst" |      *)
(* ...].  Names are strings; a cell or module name is a tuple, <<base,     *)
(* drive>> or <<name>>; an expression is a record tagged "net", "bit",     *)
(* "slice", "const", "cat" or "none" (an unconnected pin).  A bit is <<n>>, *)
(* <<n, k>>, or one of the constants Zero and One.                         *)
(***************************************************************************)
EXTENDS Integers, Sequences, SequencesExt, FiniteSets, TLC

Zero == <<"0">>
One  == <<"1">>
Bit(v) == IF v = 1 THEN One ELSE Zero

\* A set in some order: dictionaries are walked in an order nothing depends on.
Listed(S) == FoldSet(LAMBDA x, acc : Append(acc, x), <<>>, S)

Get(f, x, default) == IF x \in DOMAIN f THEN f[x] ELSE default

-----------------------------------------------------------------------------
(* parse: the statements of a module, in order. *)

NewModule(ports) ==
  [ports |-> ports, dirs |-> <<>>, width |-> <<>>, insts |-> <<>>, assigns |-> <<>>,
   supply |-> <<>>, logic |-> {}, bad |-> FALSE]

Declare(mod, s) ==
  [mod EXCEPT
     !.width  = IF s.range = <<>> THEN @ ELSE [n \in s.names |-> s.range] @@ @,
     !.dirs   = IF s.kind \in {"input", "output", "inout"} THEN [n \in s.names |-> s.kind] @@ @ ELSE @,
     !.supply = CASE s.kind = "supply0" -> [n \in s.names |-> Zero] @@ @
                  [] s.kind = "supply1" -> [n \in s.names |-> One] @@ @
                  [] OTHER -> @]

\* A statement that is none of the three raises.
ReadStatement(mod, s) ==
  CASE s.k = "decl"   -> Declare(mod, s)
    [] s.k = "assign" -> [mod EXCEPT !.assigns = Append(@, <<s.lhs, s.rhs>>)]
    [] s.k = "inst"   -> [mod EXCEPT !.insts = Append(@, [cell |-> s.cell, name |-> s.name, conns |-> s.conns])]
    [] OTHER          -> [mod EXCEPT !.bad = TRUE]

\* A later module of the same name replaces an earlier one.
Parse(text) ==
  LET Read(mods, m) == m.name :> FoldLeft(ReadStatement, NewModule(m.ports), m.stmts) @@ mods
  IN  FoldLeft(Read, <<>>, text)

-----------------------------------------------------------------------------
(* Expressions, as bits from the most significant down. *)

Indices_Mutant(a, b) ==
  LET hi == IF a >= b THEN a ELSE b
      lo == a + b - hi
  IN  [i \in 1 .. hi - lo + 1 |-> hi - i + 1]
Indices(a, b) ==
  IF a >= b THEN [i \in 1 .. a - b + 1 |-> a - i + 1] ELSE [i \in 1 .. b - a + 1 |-> a + i - 1]

BusBits(n, a, b) == [i \in DOMAIN Indices(a, b) |-> <<n, Indices(a, b)[i]>>]

NetBits(n, width) == IF n \in DOMAIN width THEN BusBits(n, width[n][1], width[n][2]) ELSE <<<<n>>>>

RECURSIVE ExprBits(_, _)
ExprBits(e, width) ==
  CASE e.k = "none"  -> <<>>
    [] e.k = "cat"   -> FlattenSeq([i \in DOMAIN e.parts |-> ExprBits(e.parts[i], width)])
    [] e.k = "const" -> [i \in 1 .. e.size |-> Bit((e.val \div 2^(e.size - i)) % 2)]
    [] e.k = "slice" -> BusBits(e.n, e.a, e.b)
    [] e.k = "bit"   -> <<<<e.n, e.i>>>>
    [] e.k = "net"   -> NetBits(e.n, width)

PortBits(mod, port) == NetBits(port, mod.width)

\* read_cell_dirs: the pin directions of the library's and the memories' models,
\* from the header (a bare name continues the direction before it) and then from
\* the declarations of the body.
CellDirs(model) ==
  LET Header(st, t) ==
        LET cur == IF t.dir = "" THEN st.cur ELSE t.dir
        IN  [cur |-> cur, d |-> IF cur = "" THEN st.d ELSE t.name :> cur @@ st.d]
      Body(d, b) == [n \in b.names |-> b.dir] @@ d
  IN  FoldLeft(Body, FoldLeft(Header, [cur |-> "", d |-> <<>>], model.header).d, model.body)

-----------------------------------------------------------------------------
(* The connected sets: union-find over nets <<path, bit>>, the top's path  *)
(* being <<>>.  A constant is the same net wherever it is written.         *)

IsConst(bit) == bit \in {Zero, One}
Key(path, bit) == IF IsConst(bit) THEN <<<<"const">>, bit>> ELSE <<path, bit>>

\* key(): a net is entered, alone in its set, when it is first named.
Enter(uf, k) ==
  [parent |-> IF k \in DOMAIN uf.parent THEN uf.parent ELSE k :> k @@ uf.parent,
   const  |-> IF IsConst(k[2]) THEN k :> k[2] @@ uf.const ELSE uf.const]

RECURSIVE Halve(_, _)
Halve(parent, p) ==
  IF parent[p] = p THEN [at |-> p, parent |-> parent]
  ELSE LET q == parent[parent[p]] IN Halve([parent EXCEPT ![p] = q], q)

\* find(): the representative, and the paths shortened on the way to it.
Find(parent, k) ==
  LET h == Halve(parent, parent[k])
  IN  [at |-> h.at, parent |-> [h.parent EXCEPT ![k] = h.at]]

\* union(): a constant stays the representative of what it is joined to.
Union(uf, a, b) ==
  LET fa == Find(uf.parent, a)
      fb == Find(fa.parent, b)
      swap == IsConst(fa.at[2])
      ra == IF swap THEN fb.at ELSE fa.at
      rb == IF swap THEN fa.at ELSE fb.at
  IN  IF ra = rb THEN [uf EXCEPT !.parent = fb.parent]
      ELSE [parent |-> [fb.parent EXCEPT ![ra] = rb],
            const  |-> IF ra \in DOMAIN uf.const THEN rb :> uf.const[ra] @@ uf.const ELSE uf.const]

Join(uf, pair) == Union(Enter(Enter(uf, pair[1]), pair[2]), pair[1], pair[2])

\* The bits of two expressions, joined one to one.
Connect(uf, pa, as, pb, bs) ==
  FoldLeft(Join, uf, [i \in DOMAIN Zip(as, bs) |-> <<Key(pa, as[i]), Key(pb, bs[i])>>])

-----------------------------------------------------------------------------
(* Flat: the walk over the hierarchy, and the leaves' pins on each net. *)

\* Modules without a body: the design's black boxes.
BlackBox(mods) == {m \in DOMAIN mods : mods[m].insts = <<>> /\ mods[m].assigns = <<>>}
IsChild(mods, inst) == inst.cell \in DOMAIN mods /\ inst.cell \notin BlackBox(mods)

WalkSupply(f, mod, path) ==
  LET Tie(uf, n) == Join(uf, <<Key(path, <<n>>), Key(path, mod.supply[n])>>)
  IN  [f EXCEPT !.uf = FoldLeft(Tie, @, Listed(DOMAIN mod.supply))]

WalkAssigns(f, mod, path) ==
  LET One2(g, as) ==
        LET lb == ExprBits(as[1], mod.width)
            rb == ExprBits(as[2], mod.width)
        IN  IF Len(lb) # Len(rb) THEN [g EXCEPT !.bad = TRUE]
            ELSE [g EXCEPT !.uf = Connect(@, path, lb, path, rb)]
  IN  FoldLeft(One2, f, mod.assigns)

WalkPorts(f, mods, mod, path, inst) ==
  LET Port(g, pin) ==
        LET pb == ExprBits(inst.conns[pin], mod.width)
            cb == PortBits(mods[inst.cell], pin)
        IN  IF pb # <<>> /\ Len(pb) # Len(cb) THEN [g EXCEPT !.bad = TRUE]
            ELSE [g EXCEPT !.uf = Connect(@, path, pb, Append(path, inst.name), cb)]
  IN  FoldLeft(Port, f, Listed(DOMAIN inst.conns))

RECURSIVE Walk(_, _, _, _)
Walk(f, mods, mname, path) ==
  LET mod == mods[mname]
      Visit(g, inst) ==
        IF IsChild(mods, inst)
        THEN Walk(WalkPorts(g, mods, mod, path, inst), mods, inst.cell, Append(path, inst.name))
        ELSE [g EXCEPT !.leaves = Append(@, [path |-> path, inst |-> inst, owner |-> mname])]
  IN  FoldLeft(Visit, WalkAssigns(WalkSupply(f, mod, path), mod, path), mod.insts)

\* The pins of a bus of a black box are numbered as it declares them.
PinBits(mods, cell, pin, n) ==
  IF cell \in BlackBox(mods) /\ pin \in DOMAIN mods[cell].width THEN PortBits(mods[cell], pin)
  ELSE IF n = 1 THEN <<<<pin>>>> ELSE BusBits(pin, n - 1, 0)

LeafDirs(mods, models, cell) == IF cell \in BlackBox(mods) THEN mods[cell].dirs ELSE models[cell]

\* Every pin bit of every leaf: its key, its name and its direction; "?" is a pin the
\* model lacks.
Pins(mods, models, leaves) ==
  UNION {UNION {LET leaf == leaves[li]
                    bits == ExprBits(leaf.inst.conns[pin], mods[leaf.owner].width)
                    pb == PinBits(mods, leaf.inst.cell, pin, Len(bits))
                    dir == Get(LeafDirs(mods, models, leaf.inst.cell), pin, "?")
                IN  {[key |-> Key(leaf.path, bits[i]), leaf |-> li, pin |-> pb[i], dir |-> dir] :
                       i \in DOMAIN Zip(bits, pb)} :
                pin \in DOMAIN leaves[li].inst.conns} :
         li \in DOMAIN leaves}

\* Naming a pin's net enters it, if nothing else has.
EnterAll(uf, K) ==
  [parent |-> uf.parent @@ [k \in K |-> k],
   const  |-> uf.const @@ [k \in {x \in K : IsConst(x[2])} |-> k[2]]]

\* rep is find() once everything is connected.
Resolved(f, uf, pins) ==
  LET rep == [k \in DOMAIN uf.parent |-> Find(uf.parent, k).at]
  IN  f @@ [rep |-> rep, const |-> uf.const,
            pins |-> {[net |-> rep[p.key], leaf |-> p.leaf, pin |-> p.pin, dir |-> p.dir] : p \in pins}]

WithPins(f, uf, pins) == Resolved(f, EnterAll(uf, {p.key : p \in pins}), pins)

\* A leaf without a model raises.
Leaves(mods, top, models, w) ==
  LET bad == w.bad \/ \E li \in DOMAIN w.leaves :
                          w.leaves[li].inst.cell \notin BlackBox(mods) \union DOMAIN models
  IN  WithPins([mods |-> mods, top |-> top, models |-> models, leaves |-> w.leaves, bad |-> bad],
               w.uf, IF bad THEN {} ELSE Pins(mods, models, w.leaves))

Flat(mods, top, models) ==
  LET start == [uf |-> [parent |-> <<>>, const |-> <<>>], leaves |-> <<>>,
                bad |-> \E m \in DOMAIN mods : mods[m].bad]
  IN  Leaves(mods, top, models, Walk(start, mods, top, <<>>))

Rep(F, k) == Get(F.rep, k, k)
=================================================================================
