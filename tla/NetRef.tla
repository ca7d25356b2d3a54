--------------------------------- MODULE NetRef ---------------------------------
(***************************************************************************)
(* A reference definition of connectivity, to hold vnet.py's union-find    *)
(* against: two bits are one net when a chain of assignments, port         *)
(* connections and supplies leads from one to the other, bit of weight w   *)
(* to bit of weight w.                                                     *)
(***************************************************************************)
EXTENDS Vnet

\* Bit w of the bus n[a:b], weight 0 being bit b.
BusBit(n, a, b, w) == <<n, IF a >= b THEN b + w ELSE b - w>>
BusSize(a, b) == IF a >= b THEN a - b + 1 ELSE b - a + 1

RECURSIVE Size(_, _)
Size(e, width) ==
  CASE e.k = "none"  -> 0
    [] e.k = "const" -> e.size
    [] e.k = "bit"   -> 1
    [] e.k = "slice" -> BusSize(e.a, e.b)
    [] e.k = "net"   -> IF e.n \in DOMAIN width THEN BusSize(width[e.n][1], width[e.n][2]) ELSE 1
    [] e.k = "cat"   -> IF e.parts = <<>> THEN 0
                        ELSE Size(Head(e.parts), width) + Size([e EXCEPT !.parts = Tail(@)], width)

\* The last part of a concatenation holds its lowest weights.
RECURSIVE BitAt(_, _, _)
BitAt(e, width, w) ==
  CASE e.k = "const" -> Bit((e.val \div 2^w) % 2)
    [] e.k = "bit"   -> <<e.n, e.i>>
    [] e.k = "slice" -> BusBit(e.n, e.a, e.b, w)
    [] e.k = "net"   -> IF e.n \in DOMAIN width THEN BusBit(e.n, width[e.n][1], width[e.n][2], w) ELSE <<e.n>>
    [] e.k = "cat"   -> LET low == Size(Last(e.parts), width)
                        IN  IF w < low THEN BitAt(Last(e.parts), width, w)
                            ELSE BitAt([e EXCEPT !.parts = Front(@)], width, w - low)

Wires(pa, a, pb, b, wa, wb) ==
  {{Key(pa, BitAt(a, wa, w)), Key(pb, BitAt(b, wb, w))} : w \in 0 .. Size(a, wa) - 1}

\* The wires of the module at path p.
WiresAt(mods, mname, p) ==
  LET mod == mods[mname]
      net(n) == [k |-> "net", n |-> n]
  IN  {{Key(p, <<n>>), Key(p, mod.supply[n])} : n \in DOMAIN mod.supply}
      \union UNION {Wires(p, a[1], p, a[2], mod.width, mod.width) : a \in ToSet(mod.assigns)}
      \union UNION {UNION {Wires(p, i.conns[pin], Append(p, i.name), net(pin), mod.width, mods[i.cell].width) :
                             pin \in DOMAIN i.conns} :
                      i \in {j \in ToSet(mod.insts) : j.cell \in DOMAIN mods /\ j.cell \notin BlackBox(mods)}}

\* Everything wires connect to the nets of N.
RECURSIVE Reach(_, _)
Reach(N, wires) ==
  LET more == N \union UNION {w \in wires : w \intersect N # {}}
  IN  IF more = N THEN N ELSE Reach(more, wires)
=================================================================================
