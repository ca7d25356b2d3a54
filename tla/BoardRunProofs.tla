----------------------------- MODULE BoardRunProofs -----------------------------
(***************************************************************************)
(* What a host can rely on when it reads trials off the board, whatever    *)
(* the FIFO's depth, the speed of the line, the length of the trials and   *)
(* what the DUT prints:                                                    *)
(*   - the FIFO never overflows: full stops the sequencer two entries      *)
(*     early, and one push is in flight;                                   *)
(*   - a trial starts before the sequencer is through with the one before  *)
(*     only after the FIFO has been full, if the reset window holds the    *)
(*     record, its escapes and a byte of the DUT: 21 cycles;               *)
(*   - until one does (in_time), record j of what the host collects is     *)
(*     trial j's and the verdict on a trial is the one on its own bytes,   *)
(*     or LOST, if the quiet time is longer than a record takes to arrive  *)
(*     (QuietFits), and the board's is.                                    *)
(* The last follows from one invariant, BoardInv: the parser's states      *)
(* after each of the bytes still on their way (a reading of the stream)    *)
(* end in one that agrees, with what the sequencer has left to send, with  *)
(* the log of the trials.                                                  *)
(***************************************************************************)
EXTENDS BoardRun, SequenceTheorems, FiniteSetTheorems, WellFoundedInduction, TLAPS

\* Named sets keep the record types opaque to the provers.
Number == Int
Char == 0 .. 255
Octet == 0 .. 256                \* a byte, or NoByte
UartType ==
  [rst_q : BOOLEAN, trial : TRIALS, f_abort : BOOLEAN, f_lost : BOOLEAN,
   rec : Seq(Octet), esc : Octet, dbuf : Octet, push : Octet,
   fifo : Seq(Octet), frame : Octet, nb : Nat]
DutType ==
  [run : BOOLEAN, cnt : Number, gap : Number, to : BOOLEAN, next : Number, now : Number, script : Seq(Char)]

TypeOK == u \in UartType /\ dut \in DutType /\ golden \in Seq(Char)

\* The push in flight when full rose has its place.
PushHasRoom == used(u) < DEPTH /\ (u.push # NoByte => used(u) < DEPTH - 1)

IInv == TypeOK /\ PushHasRoom

\* The trial counter wraps inside its range.
LEMMA TrialsWrap ==
  /\ TRIALS \subseteq Nat /\ Trial0 \in TRIALS
  /\ \A t \in TRIALS : NextTrial(t) \in TRIALS
<1>1. PICK a \in TRIALS, b \in TRIALS : TRIALS = a .. b
  BY BoardUartAssumption
<1>2. TRIALS \subseteq Nat
  BY BoardUartAssumption
<1>3. a - 1 \notin TRIALS
  BY <1>1, <1>2, SMT
<1>4. Trial0 \in TRIALS
  BY <1>1, <1>3 DEF Trial0
<1> QED  BY <1>2, <1>4 DEF NextTrial

\* A function on 1 .. n is a sequence; a concatenation, entry by entry.
LEMMA FuncIsSeq == \A S : \A n \in Nat : \A f \in [1 .. n -> S] : f \in Seq(S) /\ Len(f) = n
BY SMT

LEMMA ConcatIs ==
  ASSUME NEW S, NEW s \in Seq(S), NEW t \in Seq(S)
  PROVE  /\ s \o t \in Seq(S) /\ Len(s \o t) = Len(s) + Len(t)
         /\ \A i \in 1 .. Len(s) : (s \o t)[i] = s[i]
<1>1. Len(s) \in Nat /\ Len(t) \in Nat
  OBVIOUS
<1>2. s \o t \in Seq(S) /\ Len(s \o t) = Len(s) + Len(t)
  BY ConcatProperties
<1>3. \A i \in 1 .. Len(s) + Len(t) : (s \o t)[i] = IF i <= Len(s) THEN s[i] ELSE t[i - Len(s)]
  BY ConcatProperties
<1>4. \A i \in 1 .. Len(s) : i \in 1 .. Len(s) + Len(t) /\ i <= Len(s)
  BY <1>1, SMT
<1> QED  BY <1>2, <1>3, <1>4

\* A new record, byte by byte; its number's bytes give the number.
LEMMA RecordIs ==
  ASSUME NEW v, v.trial \in TRIALS, NEW ab, NEW cn \in COUNTS
  PROVE  LET r == Record(v, cn, ab)
         IN  /\ r \in Seq(Char) /\ Len(r) = 9
             /\ r[1] = C0 /\ r[2] = 84 /\ r[9] = Flags(v, ab)
             /\ r[3] * 256 + r[4] = v.trial
             /\ Flags(v, ab) \in 0 .. 3
<1> DEFINE hi == v.trial \div 256
           lo == v.trial % 256
           fl == Flags(v, ab)
<1>1. v.trial \in Nat /\ hi < 256
  BY BoardUartAssumption
<1>2. hi \in Char /\ lo \in Char /\ hi * 256 + lo = v.trial
  <2>1. hi \in Nat /\ lo \in 0 .. 255 /\ hi * 256 + lo = v.trial
    BY <1>1, SMT
  <2>2. hi \in 0 .. 255
    <3> HIDE DEF hi, lo
    <3> QED  BY <1>1, <2>1, SMT
  <2> QED  BY <2>1, <2>2, Zenon DEF Char
<1>3. fl \in 0 .. 3
  BY SMT DEF Flags
<1>4. cn \in [1 .. 4 -> Char]
  BY BoardUartAssumption, Zenon DEF Char
<1>5. Record(v, cn, ab) = <<C0, 84, hi, lo>> \o cn \o <<fl>>
  BY DEF Record
<1>6. C0 \in Char /\ 84 \in Char /\ fl \in Char
  BY <1>3, SMT DEF C0, Char
<1> HIDE DEF hi, lo, fl
<1>7. cn \in Seq(Char) /\ Len(cn) = 4
  BY <1>4, FuncIsSeq
<1>8. /\ <<C0, 84, hi, lo>> \in Seq(Char) /\ Len(<<C0, 84, hi, lo>>) = 4
      /\ <<fl>> \in Seq(Char) /\ Len(<<fl>>) = 1
  BY <1>2, <1>6
<1> DEFINE h == <<C0, 84, hi, lo>>
           l == <<fl>>
<1>9. h[1] = C0 /\ h[2] = 84 /\ h[3] = hi /\ h[4] = lo /\ l[1] = fl
  OBVIOUS
<1>14. h \in Seq(Char) /\ Len(h) = 4 /\ l \in Seq(Char) /\ Len(l) = 1
  BY <1>8
<1> HIDE DEF h, l
<1>10. /\ h \o cn \in Seq(Char) /\ Len(h \o cn) = 8
       /\ \A i \in 1 .. 4 : (h \o cn)[i] = h[i]
  <2>1. /\ h \o cn \in Seq(Char) /\ Len(h \o cn) = Len(h) + Len(cn)
        /\ \A i \in 1 .. Len(h) : (h \o cn)[i] = h[i]
    BY <1>7, <1>14, ConcatIs, Zenon
  <2> QED  BY <2>1, <1>7, <1>14
<1>11. /\ (h \o cn) \o l \in Seq(Char) /\ Len((h \o cn) \o l) = 9
       /\ \A i \in 1 .. 8 : ((h \o cn) \o l)[i] = (h \o cn)[i]
       /\ ((h \o cn) \o l)[9] = l[1]
  <2> DEFINE b == h \o cn
  <2>1. b \in Seq(Char) /\ Len(b) = 8
    BY <1>10
  <2> HIDE DEF b
  <2>2. l \in Seq(Char)
    BY <1>14
  <2>3. /\ b \o l \in Seq(Char) /\ Len(b \o l) = Len(b) + Len(l)
        /\ \A i \in 1 .. Len(b) : (b \o l)[i] = b[i]
    BY <2>1, <2>2, ConcatIs, Zenon
  <2>4. \A i \in 1 .. Len(b) + Len(l) : (b \o l)[i] = IF i <= Len(b) THEN b[i] ELSE l[i - Len(b)]
    BY <2>1, <2>2, ConcatProperties, Zenon
  <2>5. 9 \in 1 .. Len(b) + Len(l) /\ ~(9 <= Len(b)) /\ 9 - Len(b) = 1 /\ Len(b) + Len(l) = 9
    BY <2>1, <1>14
  <2>6. (b \o l)[9] = l[1]
    BY <2>4, <2>5
  <2> QED  BY <2>1, <2>3, <2>5, <2>6, Zenon DEF b
<1>12. Record(v, cn, ab) = (h \o cn) \o l
  BY <1>5, Zenon DEF h, l
<1> DEFINE r == Record(v, cn, ab)
<1>13. r[1] = h[1] /\ r[2] = h[2] /\ r[3] = h[3] /\ r[4] = h[4] /\ r[9] = l[1]
  BY <1>10, <1>11, <1>12
<1> HIDE DEF r
<1>15. r \in Seq(Char) /\ Len(r) = 9
  BY <1>11, <1>12, Zenon DEF r
<1>16. r[3] * 256 + r[4] = v.trial
  BY <1>2, <1>9, <1>13, Zenon
<1> QED  BY <1>3, <1>9, <1>13, <1>15, <1>16, Zenon DEF r, fl

LEMMA RecordSome ==
  ASSUME NEW v, v.trial \in TRIALS, NEW ab, NEW cn \in COUNTS
  PROVE  Record(v, cn, ab) # <<>>
<1> DEFINE r == Record(v, cn, ab)
<1>1. Len(r) = 9
  BY RecordIs
<1> HIDE DEF r
<1>2. Len(<<>>) # 9
  OBVIOUS
<1>3. r # <<>>
  BY <1>1, <1>2, Zenon
<1> QED  BY <1>3 DEF r

\* The sequencer keeps the types and leaves the line alone; it pushes
\* only when the FIFO was not full.
LEMMA SequencerTyped ==
  ASSUME NEW v \in UartType, NEW rst \in BOOLEAN, NEW obs \in Octet, NEW ab \in BOOLEAN, NEW cn \in COUNTS
  PROVE  /\ Sequencer(v, rst, obs, ab, cn) \in UartType
         /\ Sequencer(v, rst, obs, ab, cn).nb = v.nb
         /\ Sequencer(v, rst, obs, ab, cn).push # NoByte => ~full(v)
<1> DEFINE new == new_rec(v, rst)
           takes == send_rec(v) \/ take_d(v)
           trial == IF trial_start(v, rst) THEN NextTrial(v.trial) ELSE v.trial
           f_abort == ~new /\ (v.f_abort \/ ab)
           f_lost == LostFlag(v, rst, obs)
           rec == IF new THEN Record(v, cn, ab) ELSE IF send_rec(v) THEN Tail(v.rec) ELSE v.rec
           dbuf == IF obs # NoByte /\ ~lost(v, obs) THEN obs ELSE IF take_d(v) THEN NoByte ELSE v.dbuf
           push == IF send_esc(v) THEN v.esc ELSE IF ~takes THEN NoByte
                   ELSE IF escaped(v) THEN DB ELSE cur(v)
           esc == IF full(v) THEN v.esc ELSE IF takes /\ escaped(v) THEN EscOf(cur(v)) ELSE NoByte
<1>1. Record(v, cn, ab) \in Seq(Octet)
  <2>1. Record(v, cn, ab) \in Seq(Char)
    BY RecordIs, Zenon DEF UartType
  <2>2. Char \subseteq Octet
    BY SMT DEF Char, Octet
  <2> QED  BY <2>1, <2>2
<1>2. C0 \in Octet /\ DB \in Octet /\ NoByte \in Octet
  BY SMT DEF Octet, C0, DB, NoByte
<1>3. trial \in TRIALS
  BY TrialsWrap DEF UartType
<1>4. f_abort \in BOOLEAN /\ f_lost \in BOOLEAN
  BY DEF LostFlag, lost, UartType, new_rec, trial_start
<1>5. v.rec # <<>> => Head(v.rec) \in Octet /\ Tail(v.rec) \in Seq(Octet)
  BY DEF UartType
<1>6. rec \in Seq(Octet)
  BY <1>1, <1>5 DEF send_rec, rec_go, UartType
<1>7. dbuf \in Octet
  BY <1>2 DEF UartType
<1>8. cur(v) \in Octet /\ EscOf(cur(v)) \in Octet
  <2>1. cur(v) \in Octet
    BY <1>5 DEF cur, rec_go, UartType
  <2> QED  BY <2>1, SMT DEF EscOf, DC, DD, Octet
<1>9. push \in Octet /\ esc \in Octet
  BY <1>2, <1>8 DEF UartType
<1>10. push # NoByte => ~full(v)
  BY DEF send_esc, send_rec, take_d
<1>11. Sequencer(v, rst, obs, ab, cn) =
         [v EXCEPT !.rst_q = rst, !.trial = trial, !.f_abort = f_abort, !.f_lost = f_lost,
                   !.rec = rec, !.dbuf = dbuf, !.push = push, !.esc = esc]
  BY Zenon DEF Sequencer, UartType
<1> HIDE DEF trial, f_abort, f_lost, rec, dbuf, push, esc
<1>12. [v EXCEPT !.rst_q = rst, !.trial = trial, !.f_abort = f_abort, !.f_lost = f_lost,
                  !.rec = rec, !.dbuf = dbuf, !.push = push, !.esc = esc] \in UartType
  BY <1>3, <1>4, <1>6, <1>7, <1>9 DEF UartType
<1>13. Sequencer(v, rst, obs, ab, cn).nb = v.nb /\ Sequencer(v, rst, obs, ab, cn).push = push
  BY <1>11 DEF UartType
<1> QED  BY <1>10, <1>11, <1>12, <1>13, Zenon

\* The FIFO after an edge, and its length.
LEMMA FifoTyped ==
  ASSUME NEW v \in UartType
  PROVE  /\ Fifo(v) \in Seq(Octet)
         /\ Len(Fifo(v)) \in Nat /\ Len(v.fifo) \in Nat
         /\ v.push # NoByte => Len(Fifo(v)) <= Len(v.fifo) + 1
         /\ v.push = NoByte => Len(Fifo(v)) <= Len(v.fifo)
<1> DEFINE rest == IF v.nb = 0 /\ v.fifo # <<>> THEN Tail(v.fifo) ELSE v.fifo
           new == IF v.push # NoByte THEN <<v.push>> ELSE <<>>
<1>1. rest \in Seq(Octet) /\ Len(rest) \in Nat /\ Len(rest) <= Len(v.fifo)
  BY SMT DEF UartType
<1>2. new \in Seq(Octet) /\ Len(new) = IF v.push # NoByte THEN 1 ELSE 0
  BY SMT DEF UartType
<1>3. Fifo(v) = rest \o new
  BY DEF Fifo
<1> HIDE DEF rest, new
<1>4. rest \o new \in Seq(Octet) /\ Len(rest \o new) = Len(rest) + Len(new)
  <2>1. \A s, t \in Seq(Octet) : s \o t \in Seq(Octet) /\ Len(s \o t) = Len(s) + Len(t)
    BY ConcatProperties, Zenon
  <2>2. rest \in Seq(Octet) /\ new \in Seq(Octet)
    BY <1>1, <1>2, Zenon
  <2> QED  BY <2>1, <2>2, Zenon
<1>5. Len(v.fifo) \in Nat
  BY DEF UartType
<1> QED  BY <1>1, <1>2, <1>3, <1>4, <1>5, SMT

\* A clock edge of the board keeps the invariant: it pushes when two entries are
\* free, and what was pushed before takes one of them.
LEMMA ClockedKeepsInv ==
  ASSUME NEW v \in UartType, NEW rst \in BOOLEAN, NEW obs \in Octet, NEW ab \in BOOLEAN, NEW cn \in COUNTS,
         used(v) < DEPTH, v.push # NoByte => used(v) < DEPTH - 1
  PROVE  LET w == Clocked(v, rst, obs, ab, cn)
         IN  /\ w \in UartType
             /\ used(w) < DEPTH /\ (w.push # NoByte => used(w) < DEPTH - 1)
<1> DEFINE s == Sequencer(v, rst, obs, ab, cn)
           t == [s EXCEPT !.fifo = Fifo(v)]
           w == Line(v, t)
<1>1. s \in UartType /\ s.nb = v.nb /\ (s.push # NoByte => ~full(v))
  BY SequencerTyped
<1>2. /\ Fifo(v) \in Seq(Octet) /\ Len(Fifo(v)) \in Nat /\ Len(v.fifo) \in Nat
      /\ v.push # NoByte => Len(Fifo(v)) <= Len(v.fifo) + 1
      /\ v.push = NoByte => Len(Fifo(v)) <= Len(v.fifo)
  BY FifoTyped
<1> HIDE DEF s
<1>3. t \in UartType /\ t.nb = v.nb /\ t.fifo = Fifo(v) /\ t.push = s.push
  BY <1>1, <1>2 DEF UartType
<1> HIDE DEF t
<1>4. v.fifo # <<>> => Head(v.fifo) \in Octet
  BY DEF UartType
<1>5. NoByte \in Octet /\ LINE \in Nat
  BY BoardUartAssumption, SMT DEF NoByte, Octet
<1>6. w \in UartType /\ w.fifo = t.fifo /\ w.push = t.push
  <2>1. CASE v.nb = 0 /\ v.fifo = <<>>
    BY <2>1, <1>3 DEF Line
  <2>2. CASE v.nb = 0 /\ v.fifo # <<>>
    <3>1. w = [t EXCEPT !.frame = Head(v.fifo), !.nb = LINE]
      BY <2>2 DEF Line
    <3> QED  BY <3>1, <2>2, <1>3, <1>4, <1>5 DEF UartType
  <2>3. CASE v.nb # 0
    <3>1. w = [t EXCEPT !.nb = t.nb - 1, !.frame = IF v.nb = 1 THEN NoByte ELSE t.frame]
      BY <2>3, <1>3 DEF Line, UartType
    <3>2. t.nb - 1 \in Nat
      BY <2>3, <1>3, SMT DEF UartType
    <3> QED  BY <3>1, <3>2, <1>3, <1>5 DEF UartType
  <2> QED  BY <2>1, <2>2, <2>3
<1>7. Clocked(v, rst, obs, ab, cn) = w
  BY DEF Clocked, s, t
<1>8. DEPTH \in Nat
  BY BoardUartAssumption
<1>9. used(w) = Len(Fifo(v)) /\ used(v) = Len(v.fifo)
  BY <1>3, <1>6 DEF used
<1> HIDE DEF w
<1>10. Len(v.fifo) < DEPTH /\ (v.push # NoByte => Len(v.fifo) < DEPTH - 1)
  BY <1>9
<1>11. used(w) < DEPTH
  <2>1. CASE v.push # NoByte  BY <2>1, <1>2, <1>8, <1>9, <1>10, SMT
  <2>2. CASE v.push = NoByte  BY <2>2, <1>2, <1>8, <1>9, <1>10, SMT
  <2> QED  BY <2>1, <2>2
<1>12. ASSUME w.push # NoByte  PROVE  used(w) < DEPTH - 1
  <2>1. ~(Len(v.fifo) >= DEPTH - 2)
    BY <1>1, <1>3, <1>6, <1>9, <1>12 DEF full
  <2>2. Len(Fifo(v)) <= Len(v.fifo) + 1
    BY <1>2, SMT
  <2> QED  BY <2>1, <2>2, <1>2, <1>8, <1>9, SMT
<1> QED  BY <1>6, <1>7, <1>11, <1>12

\* A cycle of the board keeps the invariant, given what becomes of the trial.
LEMMA CycleKeepsInv ==
  ASSUME IInv, NEW obs \in Octet, NEW ab \in BOOLEAN, NEW d \in DutType, Cycle(obs, ab, d)
  PROVE  IInv'
<1>1. dut.run \in BOOLEAN
  BY DEF IInv, TypeOK, DutType
<1>2. dut' = d /\ golden' = golden
  BY DEF Cycle
<1>4. PICK cn \in COUNTS : u' = Clocked(u, dut.run, obs, ab, cn)
  BY DEF Cycle
<1>3. u' \in UartType /\ PushHasRoom'
  BY <1>1, <1>4, ClockedKeepsInv DEF IInv, TypeOK, PushHasRoom, used
<1> QED  BY <1>2, <1>3 DEF IInv, TypeOK

\* The trial of the wrapper stays a trial.
LEMMA DutTyped ==
  ASSUME IInv
  PROVE  /\ \A ab \in BOOLEAN : Running(ab, FALSE) \in DutType
         /\ dut.script # <<>> => Running(FALSE, TRUE) \in DutType /\ Head(dut.script) \in Octet
         /\ \A x \in SCRIPTS : Release(x) \in DutType
         /\ [dut EXCEPT !.gap = @ - 1] \in DutType
         /\ Paused \in DutType
         /\ [dut EXCEPT !.to = TRUE, !.next = 1] \in DutType
<1>1. dut \in DutType /\ golden \in Seq(Char) /\ GAP \in Number /\ SCRIPTS \subseteq Seq(Char)
  BY BoardRunAssumption DEF IInv, TypeOK, Char, Number
<1>0. 0 \in Number /\ 1 \in Number /\ <<>> \in Seq(Char)
  BY DEF Number
<1>2. \A ab \in BOOLEAN : Running(ab, FALSE) \in DutType
  <2> TAKE ab \in BOOLEAN
  <2>1. CASE Stops(ab)  BY <2>1, <1>1, <1>0 DEF Running, DutType
  <2>2. CASE ~Stops(ab)
    <3>1. Running(ab, FALSE) = [dut EXCEPT !.cnt = IF dut.cnt < TO_THR THEN dut.cnt + 1 ELSE dut.cnt]
      BY <2>2, <1>1, <1>0 DEF Running, DutType
    <3>2. (IF dut.cnt < TO_THR THEN dut.cnt + 1 ELSE dut.cnt) \in Number
      BY <1>1, SMT DEF DutType, Number
    <3> QED  BY <3>1, <3>2, <1>1 DEF DutType
  <2> QED  BY <2>1, <2>2
<1>3. ASSUME dut.script # <<>>
      PROVE  Running(FALSE, TRUE) \in DutType /\ Head(dut.script) \in Octet
  <2>1. Tail(dut.script) \in Seq(Char) /\ Head(dut.script) \in Char
    BY <1>1, <1>3 DEF DutType
  <2>2. Head(dut.script) \in Octet
    BY <2>1, SMT DEF Octet, Char
  <2>3. CASE Stops(FALSE)  BY <2>2, <2>3, <1>1, <1>0 DEF Running, DutType
  <2>4. CASE ~Stops(FALSE)
    <3>1. Running(FALSE, TRUE) =
            [dut EXCEPT !.cnt = IF dut.cnt < TO_THR THEN dut.cnt + 1 ELSE dut.cnt, !.script = Tail(dut.script)]
      BY <2>4, <1>1, <1>0 DEF Running, DutType
    <3>2. (IF dut.cnt < TO_THR THEN dut.cnt + 1 ELSE dut.cnt) \in Number
      BY <1>1, SMT DEF DutType, Number
    <3> QED  BY <3>1, <3>2, <2>1, <2>2, <1>1 DEF DutType
  <2> QED  BY <2>2, <2>3, <2>4
<1>4. \A x \in SCRIPTS : Release(x) \in DutType
  <2> TAKE x \in SCRIPTS
  <2> DEFINE j == IF dut.next \in 1 .. N THEN dut.next ELSE 0
             sc == IF j = 0 THEN golden ELSE x
             nx == IF dut.next \in 1 .. N THEN dut.next + 1 ELSE 0
  <2>1. j \in Number /\ nx \in Number
    BY <1>1, SMT DEF DutType, Number
  <2>2. sc \in Seq(Char)
    BY <1>1
  <2>3. Release(x) = [dut EXCEPT !.run = TRUE, !.cnt = 0, !.gap = 0, !.now = j, !.script = sc, !.next = nx]
    BY <1>1, Zenon DEF Release, DutType
  <2> HIDE DEF j, sc, nx
  <2> QED  BY <2>1, <2>2, <2>3, <1>1, <1>0 DEF DutType
<1>5. [dut EXCEPT !.gap = @ - 1] \in DutType /\ [dut EXCEPT !.to = TRUE, !.next = 1] \in DutType
  <2>1. dut.gap - 1 \in Number /\ 1 \in Number
    BY <1>1, SMT DEF DutType, Number
  <2> QED  BY <2>1, <1>1 DEF DutType
<1>6. Paused \in DutType
  <2>1. (dut.to /\ ~reached) \in BOOLEAN
    OBVIOUS
  <2> QED  BY <2>1, <1>1, <1>0 DEF Paused, DutType
<1> QED  BY <1>2, <1>3, <1>4, <1>5, <1>6

\* The FIFO is empty when the host starts.
LEMMA InitInv == Init => IInv
<1> SUFFICES ASSUME Init PROVE IInv  OBVIOUS
<1>1. Reset(Trial0) \in UartType
  <2>1. NoByte \in Octet /\ <<>> \in Seq(Octet) /\ 0 \in Nat
    BY SMT DEF NoByte, Octet
  <2> QED  BY <2>1, TrialsWrap DEF Reset, UartType
<1>2. u \in UartType
  BY <1>1 DEF Init, UartType
<1>3. used(u) = 0 /\ u.push = NoByte
  BY DEF Init, Reset, used
<1>4. PushHasRoom
  BY <1>3, BoardUartAssumption, SMT DEF PushHasRoom
<1>5. golden \in Seq(Char)
  BY BoardRunAssumption DEF Init, Char
<1>6. dut \in DutType
  <2>1. TO_THR \in Number /\ 0 \in Number /\ <<>> \in Seq(Char)
    BY BoardRunAssumption DEF Number
  <2>2. PICK to \in BOOLEAN :
          dut = [run |-> TRUE, cnt |-> TO_THR, gap |-> 0, to |-> to, next |-> 0, now |-> 0, script |-> <<>>]
    BY DEF Init
  <2> QED  BY <2>1, <2>2 DEF DutType
<1> QED  BY <1>2, <1>4, <1>5, <1>6 DEF IInv, TypeOK

\* Every step keeps the invariant: the board's by CycleKeepsInv, and the host does
\* not touch the UART.
LEMMA NextKeepsInv == IInv /\ [Next]_vars => IInv'
<1> SUFFICES ASSUME IInv, [Next]_vars PROVE IInv'  OBVIOUS
<1>1. NoByte \in Octet
  BY SMT DEF NoByte, Octet
<1>2. CASE Output
  <2>1. dut.script # <<>> /\ Cycle(Head(dut.script), FALSE, Running(FALSE, TRUE))
    BY <1>2 DEF Output, Prints
  <2> QED  BY <2>1, DutTyped, CycleKeepsInv
<1>3. CASE Idle
  <2>1. Cycle(NoByte, FALSE, Running(FALSE, FALSE))
    BY <1>3 DEF Idle
  <2> QED  BY <2>1, <1>1, DutTyped, CycleKeepsInv
<1>4. CASE Abort
  <2>1. Cycle(NoByte, TRUE, Running(TRUE, FALSE))
    BY <1>4 DEF Abort
  <2> QED  BY <2>1, <1>1, DutTyped, CycleKeepsInv
<1>5. CASE Window
  <2>1. Cycle(NoByte, FALSE, [dut EXCEPT !.gap = @ - 1])
    BY <1>5 DEF Window
  <2> QED  BY <2>1, <1>1, DutTyped, CycleKeepsInv
<1>6. CASE StartTrial
  <2>1. PICK x \in SCRIPTS : Cycle(NoByte, FALSE, Release(x))
    BY <1>6 DEF StartTrial
  <2> QED  BY <2>1, <1>1, DutTyped, CycleKeepsInv
<1>7. CASE Pause
  BY <1>7, DutTyped DEF Pause, IInv, TypeOK, PushHasRoom, used
<1>8. CASE FiCampaign
  BY <1>8, DutTyped DEF FiCampaign, IInv, TypeOK, PushHasRoom, used
<1>9. CASE Args \/ BadArgs \/ Connect \/ OcdExits \/ Quiet \/ GiveUp \/ FiError
  <2>1. UNCHANGED <<u, dut, golden>>
    BY <1>9 DEF Args, BadArgs, Connect, OcdExits, Quiet, GiveUp, FiError, Stay, board
  <2> QED  BY <2>1 DEF IInv, TypeOK, PushHasRoom, used
<1>10. CASE Done \/ Timeout
  <2>1. UNCHANGED <<u, dut, golden>>
    BY <1>10 DEF Done, Timeout, Collect, board
  <2> QED  BY <2>1 DEF IInv, TypeOK, PushHasRoom, used
<1>11. CASE UNCHANGED vars
  <2>1. UNCHANGED <<u, dut, golden>>
    BY <1>11 DEF vars, board
  <2> QED  BY <2>1 DEF IInv, TypeOK, PushHasRoom, used
<1> QED
  BY <1>2, <1>3, <1>4, <1>5, <1>6, <1>7, <1>8, <1>9, <1>10, <1>11 DEF Next, Clock, Host

\* The invariant holds in every reachable state.
LEMMA InvAlways == Spec => []IInv
BY InitInv, NextKeepsInv, PTL DEF Spec

\* The board UART's FIFO (fi_board_uart.v:124-135) holds what it is given: the push in
\* flight when full rose included, for every depth and line speed.
THEOREM FifoNeverOverflows == Spec => []FifoHolds
<1>1. IInv => FifoHolds
  <2> SUFFICES ASSUME IInv PROVE FifoHolds  OBVIOUS
  <2>1. used(u) \in Nat
    BY DEF IInv, TypeOK, UartType, used
  <2> QED  BY <2>1, BoardUartAssumption, SMT DEF IInv, PushHasRoom, FifoHolds
<1> QED  BY <1>1, InvAlways, PTL

\* Every register of the board UART and of the trial keeps its range; in particular the
\* trial number of a record is one of the counter's.
THEOREM BoardTypeCorrect == Spec => []TypeOK
<1>1. IInv => TypeOK
  BY DEF IInv
<1> QED  BY <1>1, InvAlways, PTL
-----------------------------------------------------------------------------
(* The stream.  Between the sequencer and the host's parser there is what is *)
(* in flight: a byte in the transmitter's frame, the FIFO, the push          *)
(* register.  A reading of the stream is the run of the host's parser over   *)
(* those bytes, a state of the parser for every byte in flight; the last one *)
(* is the parser as it will be when the line is empty.  The invariants tie   *)
(* that last state to the sequencer and the trial under way, and every step  *)
(* of the board extends the reading by what it pushes.                       *)

One(b) == IF b THEN 1 ELSE 0

framed(v)   == One(v.nb # 0)
pushing(v)  == One(v.push # NoByte)
InFlight(v) == framed(v) + used(v) + pushing(v)
ByteAt(v, i) ==
  IF i <= framed(v) THEN v.frame
  ELSE IF i <= framed(v) + used(v) THEN v.fifo[i - framed(v)] ELSE v.push

\* The parser's next state; only during a campaign the host keeps the runs.
Bare(s) == [s EXCEPT !.runs = <<>>]
Hear(at, s, x) == IF at = "wait" THEN Byte(s, x) ELSE Bare(Byte(s, x))

\* ph is the reading of what is in flight.
RunType == [trial : Nat, flags_prev : Octet, data : Seq(Octet)]
ParserType == [esc : BOOLEAN, inrec : BOOLEAN, rec : Seq(Octet), runs : Seq(RunType)]
Reading(ph) ==
  /\ ph \in [0 .. InFlight(u) -> ParserType]
  /\ ph[0] = st
  /\ \A i \in 1 .. InFlight(u) : ph[i] = Hear(pc, ph[i - 1], ByteAt(u, i))

\* The record, the escape and the data register of the sequencer.
RecFits(v) ==
  v.rec \in Seq(Char) /\ Len(v.rec) <= RecLen /\ (v.rec # <<>> => v.rec[Len(v.rec)] \in 0 .. 3)
RecShape(v) ==
  /\ RecFits(v)
  /\ Len(v.rec) = 9 => v.rec[1] = C0
  /\ Len(v.rec) >= 8 => v.esc = NoByte
  /\ v.esc \in {NoByte, DC, DD}

\* Where the parser will be when it has read what the sequencer has pushed.
EndShape(v, F) ==
  /\ F.inrec <=> Len(v.rec) \in 1 .. 8
  /\ F.esc <=> v.esc # NoByte
  /\ Len(F.rec) = IF Len(v.rec) \notin 1 .. 8 THEN 0 ELSE IF v.esc = NoByte THEN 8 - Len(v.rec) ELSE 7 - Len(v.rec)

\* A record that the parser is in ends: in flight, or with what is left of it.
Ends(ph, k) == ph[k - 1].inrec /\ ~ph[k].inrec
InRecEnds(v, ph) ==
  \A i \in 0 .. InFlight(v) :
    ph[i].inrec => v.rec # <<>> \/ \E k \in i + 1 .. InFlight(v) : Ends(ph, k)

\* A record's bytes are collected only inside one.
RecKept(s) == Len(s.rec) <= 7 /\ (s.rec # <<>> => s.inrec)

Shape(v, ph) ==
  /\ RecShape(v)
  /\ EndShape(v, ph[InFlight(v)])
  /\ \A i \in 0 .. InFlight(v) : RecKept(ph[i])
  /\ InRecEnds(v, ph)

-----------------------------------------------------------------------------
(* Timing: how long the sequencer's backlog takes, when a record in flight   *)
(* is there, and when the next trial starts.                                 *)

Pos(x) == IF x > 0 THEN x ELSE 0

\* The cycles that m bytes are on the line.
Frames(m) == m * (LINE + 1)

\* The pushes still to come: of an escape, of a record, of the data register.
EscPush(v)    == One(v.esc # NoByte)
RecPushes(v)  == 2 * Len(v.rec)
DataPushes(v) == IF v.dbuf = NoByte THEN 0 ELSE 1 + One(v.dbuf \in Special)
Pushes(v)     == EscPush(v) + RecPushes(v)
Backlog(v)    == Pushes(v) + DataPushes(v)

\* A trial starts.
Starting == dut.run /\ ~u.rst_q

\* The sequencer has sent what it held: no record is dropped, and no byte of a trial
\* is left for the next one.
LeavesInTime == Starting => Through(u)

\* The cycles until the host has the k-th byte in flight.
Delay(v, k) ==
  LET m == k - framed(v)
  IN  v.nb + Frames(m) + Pos(m - used(v)) + Pos(m - used(v) - pushing(v))
RecEnd(v) == InFlight(v) + Pushes(v)
MaxDelay == Frames(DEPTH + 19) + 40

\* No trial will start, and the last that did has its record.
Quiescent(v, t) == t.run /\ v.rst_q /\ ~t.to
NextStart(v, t) ==
  IF ~t.run THEN t.gap + 1 ELSE IF ~v.rst_q THEN 1 ELSE (TO_THR - t.cnt) + GAP + 2

\* The trial's counters.
Paced ==
  /\ dut.gap \in Int /\ (~dut.run => dut.gap \in 1 .. GAP)
  /\ dut.cnt \in 0 .. TO_THR
  /\ Starting => dut.cnt = 0
  /\ u.nb <= LINE

\* While the host waits for silence, a record arrives before the silence is long
\* enough, unless there is none and will be none.
NoRecord(v, ph) == v.rec = <<>> /\ \A i \in 0 .. InFlight(v) : ~ph[i].inrec
QuietAt(v, t, c, ph) ==
  \/ \E k \in 1 .. InFlight(v) : Ends(ph, k) /\ c + Delay(v, k) <= QUIET
  \/ v.rec # <<>> /\ c + Delay(v, RecEnd(v)) <= QUIET
  \/ NoRecord(v, ph) /\ (Quiescent(v, t) \/ c + NextStart(v, t) + MaxDelay <= QUIET)
QuietInv(ph) == pc = "quiet" => QuietAt(u, dut, q, ph)
LoadInv(ph) == pc = "load" => NoRecord(u, ph) /\ Quiescent(u, dut)

-----------------------------------------------------------------------------
(* A campaign: the runs that the host will have, against the trials.         *)

\* The i-th byte of the record being sent, after its C0: with the host, half of an
\* escape, or still to be sent.
Unhidden(x) == IF x = DC THEN C0 ELSE DB
BodyAt(v, F, i) ==
  LET k == i - (8 - Len(v.rec))
  IN  IF k > 0 THEN v.rec[k] ELSE IF k = 0 /\ v.esc # NoByte THEN Unhidden(v.esc) ELSE F.rec[i]

\* The number of the record after rs, and of the one being sent.
NumAfter(f, rs) == IF rs = <<>> THEN f ELSE NextTrial(rs[Len(rs)].trial)
PendTrial(v, F) == BodyAt(v, F, 2) * 256 + BodyAt(v, F, 3)
NumIs(v, f, F) ==
  IF v.rec = <<>> THEN v.trial = NumAfter(f, F.runs)
  ELSE PendTrial(v, F) = NumAfter(f, F.runs) /\ v.trial = NextTrial(PendTrial(v, F))
Numbered(f, rs) ==
  \A j \in 1 .. Len(rs) : rs[j].trial = IF j = 1 THEN f ELSE NextTrial(rs[j - 1].trial)

\* The trials of the campaign that have been given a record, and that have started.
Loaded(v, F) == Len(F.runs) + One(v.rec # <<>>)
Started(v, t, F) == Loaded(v, F) + One(t.run /\ ~v.rst_q)
CountIs(v, t, r, F) ==
  LET s == Started(v, t, F)
  IN  IF s = 0 THEN t.now = 0 /\ t.next = One(r) /\ (~r => Quiescent(v, t))
      ELSE r /\ IF s <= N THEN t.now = s /\ t.next = s + 1 ELSE t.now = 0 /\ t.next = 0

\* A run and the flags after it tell the trial's output and end, or that bytes were lost.
Faithful(run, flags, entry) ==
  flags >= 2 \/ (run.data = entry.out /\ (flags % 2 = 1 <=> entry.abort))
FaithfulRuns(lg, rs) ==
  \A j \in 1 .. Len(rs) - 1 : j <= N => Faithful(rs[j], rs[j + 1].flags_prev, lg[j])

\* The trial under way: what has been pushed, the escape, the data register.
Waiting(x) == IF x = NoByte THEN <<>> ELSE <<x>>
Escaping(x) == IF x = NoByte THEN <<>> ELSE <<Unhidden(x)>>
UnderWay(v, out, entry) == (~v.f_lost => out = entry.out) /\ (v.f_abort <=> entry.abort)
DataIs(v, lg, F) ==
  LET k == Len(F.runs)
  IN  IF v.rec = <<>>
      THEN k \in 1 .. N => UnderWay(v, F.runs[k].data \o Escaping(v.esc) \o Waiting(v.dbuf), lg[k])
      ELSE /\ k \in 1 .. N => Faithful(F.runs[k], v.rec[Len(v.rec)], lg[k])
           /\ k + 1 \in 1 .. N => UnderWay(v, Waiting(v.dbuf), lg[k + 1])
FutureIs(v, lg, F) == \A j \in 1 .. N : j > Loaded(v, F) => lg[j] = [out |-> <<>>, abort |-> FALSE]

RunsAre(f, lg, F, s) == Numbered(f, s.runs) /\ FaithfulRuns(lg, s.runs) /\ Len(s.runs) <= Len(F.runs)
CampaignIs(v, t, r, f, lg, F) == NumIs(v, f, F) /\ CountIs(v, t, r, F) /\ DataIs(v, lg, F) /\ FutureIs(v, lg, F)
WaitInv(ph) ==
  pc = "wait" => /\ \A i \in 0 .. InFlight(u) : RunsAre(first, log, ph[InFlight(u)], ph[i])
                 /\ CampaignIs(u, dut, reached, first, log, ph[InFlight(u)])

\* The verdicts are on trials that are over.
Verdicts ==
  /\ DOMAIN verdict \subseteq 1 .. N
  /\ \A j \in DOMAIN verdict :
       /\ verdict[j] \in {"LOST", Reference(golden, log[j].out, log[j].abort)}
       /\ dut.now = 0 \/ dut.now > j
       /\ dut.next = 0 \/ dut.next > j
  /\ pc \notin {"pause", "done"} => DOMAIN verdict = {}

LogType == [out : Seq(Octet), abort : BOOLEAN]
HostInv ==
  /\ q \in Nat /\ reached \in BOOLEAN
  /\ log \in [1 .. N -> LogType]
  /\ pc # "wait" => st.runs = <<>>
  /\ pc \in {"quiet", "load"} => dut.now = 0 /\ dut.next = 0 /\ log = NoLog
  /\ pc \notin {"args", "exit"} => upto_marker(golden, N_END)[2]

StreamInv == \E ph : Reading(ph) /\ Shape(u, ph) /\ QuietInv(ph) /\ LoadInv(ph) /\ WaitInv(ph)
BoardInv == IInv /\ HostInv /\ Paced /\ Verdicts /\ StreamInv

-----------------------------------------------------------------------------
(* A clock edge, register by register, and what the sequencer does on it.    *)

LEMMA OneTyped == \A b \in BOOLEAN : One(b) \in 0 .. 1 /\ (One(b) = 1 <=> b)
BY DEF One

LEMMA BytesAre == /\ C0 \in Octet /\ DB \in Octet /\ DC \in Octet /\ DD \in Octet /\ NoByte \in Octet
                  /\ C0 # DB /\ DC \notin Special /\ DD \notin Special /\ NoByte \notin Special /\ DC # DD
                  /\ DC # NoByte /\ DD # NoByte /\ C0 # NoByte /\ DB # NoByte
                  /\ 0 .. 3 \subseteq Octet \ (Special \cup {NoByte})
                  /\ Char \subseteq Octet \ {NoByte} /\ 0 .. 3 \subseteq Char /\ C0 \in Char
BY SMT DEF Octet, Char, C0, DB, DC, DD, NoByte, Special

\* A clock edge from v to w, register by register.
Edge(v, rst, obs, ab, w) ==
  /\ w.rst_q = rst
  /\ w.trial = IF trial_start(v, rst) THEN NextTrial(v.trial) ELSE v.trial
  /\ w.f_abort <=> ~new_rec(v, rst) /\ (v.f_abort \/ ab)
  /\ w.f_lost <=> LostFlag(v, rst, obs)
  /\ IF new_rec(v, rst) THEN \E cn \in COUNTS : w.rec = Record(v, cn, ab)
     ELSE w.rec = IF send_rec(v) THEN Tail(v.rec) ELSE v.rec
  /\ w.dbuf = IF obs # NoByte /\ ~lost(v, obs) THEN obs ELSE IF take_d(v) THEN NoByte ELSE v.dbuf
  /\ w.push = IF send_esc(v) THEN v.esc ELSE IF ~(send_rec(v) \/ take_d(v)) THEN NoByte
              ELSE IF escaped(v) THEN DB ELSE cur(v)
  /\ w.esc = IF full(v) THEN v.esc
             ELSE IF (send_rec(v) \/ take_d(v)) /\ escaped(v) THEN EscOf(cur(v)) ELSE NoByte
  /\ w.fifo = Fifo(v)
  /\ v.nb # 0 => w.nb = v.nb - 1 /\ (v.nb # 1 => w.frame = v.frame)
  /\ v.nb = 0 /\ v.fifo = <<>> => w.nb = 0
  /\ v.nb = 0 /\ v.fifo # <<>> => w.nb = LINE /\ w.frame = Head(v.fifo)

LEMMA ClockedEdge ==
  ASSUME NEW v \in UartType, NEW rst \in BOOLEAN, NEW obs \in Octet, NEW ab \in BOOLEAN, NEW cn \in COUNTS
  PROVE  Edge(v, rst, obs, ab, Clocked(v, rst, obs, ab, cn))
<1> DEFINE s == Sequencer(v, rst, obs, ab, cn)
           t == [s EXCEPT !.fifo = Fifo(v)]
<1>1. /\ s.rst_q = rst
      /\ s.trial = IF trial_start(v, rst) THEN NextTrial(v.trial) ELSE v.trial
      /\ s.f_abort = (~new_rec(v, rst) /\ (v.f_abort \/ ab))
      /\ s.f_lost = LostFlag(v, rst, obs)
      /\ s.rec = IF new_rec(v, rst) THEN Record(v, cn, ab)
                 ELSE IF send_rec(v) THEN Tail(v.rec) ELSE v.rec
      /\ s.dbuf = IF obs # NoByte /\ ~lost(v, obs) THEN obs ELSE IF take_d(v) THEN NoByte ELSE v.dbuf
      /\ s.push = IF send_esc(v) THEN v.esc ELSE IF ~(send_rec(v) \/ take_d(v)) THEN NoByte
                  ELSE IF escaped(v) THEN DB ELSE cur(v)
      /\ s.esc = IF full(v) THEN v.esc
                 ELSE IF (send_rec(v) \/ take_d(v)) /\ escaped(v) THEN EscOf(cur(v)) ELSE NoByte
  BY Zenon DEF Sequencer, UartType
<1>2. s \in UartType /\ s.nb = v.nb
  BY SequencerTyped
<1>3. s.frame = v.frame
  BY Zenon DEF Sequencer, UartType
<1> HIDE DEF s
<1>4. /\ t.rst_q = s.rst_q /\ t.trial = s.trial /\ t.f_abort = s.f_abort /\ t.f_lost = s.f_lost
      /\ t.rec = s.rec /\ t.dbuf = s.dbuf /\ t.push = s.push /\ t.esc = s.esc /\ t.fifo = Fifo(v)
      /\ t.frame = v.frame /\ t.nb = v.nb
      /\ DOMAIN t = DOMAIN s
  BY <1>2, <1>3 DEF UartType
<1>5. DOMAIN t = {"rst_q", "trial", "f_abort", "f_lost", "rec", "esc", "dbuf", "push", "fifo", "frame", "nb"}
  BY <1>2, <1>4 DEF UartType
<1> HIDE DEF t
<1> DEFINE w == Clocked(v, rst, obs, ab, cn)
<1>6. w = Line(v, t)
  BY DEF Clocked, s, t
<1> HIDE DEF w
<1> SUFFICES Edge(v, rst, obs, ab, w)
  BY DEF w
<1>7. CASE v.nb = 0 /\ v.fifo = <<>>
  <2>1. w = t
    BY <1>6, <1>7 DEF Line
  <2> QED  BY <2>1, <1>1, <1>4, <1>7, Zenon DEF Edge
<1>8. CASE v.nb = 0 /\ v.fifo # <<>>
  <2>1. w = [t EXCEPT !.frame = Head(v.fifo), !.nb = LINE]
    BY <1>6, <1>8 DEF Line
  <2>2. /\ w.rst_q = t.rst_q /\ w.trial = t.trial /\ w.f_abort = t.f_abort /\ w.f_lost = t.f_lost
        /\ w.rec = t.rec /\ w.dbuf = t.dbuf /\ w.push = t.push /\ w.esc = t.esc /\ w.fifo = t.fifo
        /\ w.frame = Head(v.fifo) /\ w.nb = LINE
    BY <2>1, <1>5
  <2> QED  BY <2>2, <1>1, <1>4, <1>8, Zenon DEF Edge
<1>9. CASE v.nb # 0
  <2>1. w = [t EXCEPT !.nb = t.nb - 1, !.frame = IF v.nb = 1 THEN NoByte ELSE t.frame]
    BY <1>6, <1>9 DEF Line
  <2>2. /\ w.rst_q = t.rst_q /\ w.trial = t.trial /\ w.f_abort = t.f_abort /\ w.f_lost = t.f_lost
        /\ w.rec = t.rec /\ w.dbuf = t.dbuf /\ w.push = t.push /\ w.esc = t.esc /\ w.fifo = t.fifo
        /\ w.nb = t.nb - 1 /\ (v.nb # 1 => w.frame = t.frame)
    BY <2>1, <1>5
  <2> QED  BY <2>2, <1>1, <1>4, <1>9, Zenon DEF Edge
<1> QED  BY <1>7, <1>8, <1>9

\* The line: it takes a byte from the FIFO (pop), has one under way, or is idle.
LineMoves(v, w) ==
  \E pop \in 0 .. 1 :
    /\ used(w) = used(v) - pop + pushing(v)
    /\ framed(w) = framed(v) - One(Delivers(v)) + pop
    /\ pop = 1 => v.nb = 0 /\ w.nb = LINE /\ used(v) >= 1
    /\ pop = 0 => IF v.nb = 0 THEN used(v) = 0 /\ w.nb = 0 ELSE w.nb = v.nb - 1

\* What is in flight moves up: a delivered byte leaves, a push joins at the end.
LEMMA ByteShift ==
  ASSUME NEW v \in UartType, NEW rst \in BOOLEAN, NEW obs \in Octet, NEW ab \in BOOLEAN, NEW cn \in COUNTS,
         NEW w \in UartType, w = Clocked(v, rst, obs, ab, cn),
         NEW d, d = One(Delivers(v))
  PROVE  /\ LineMoves(v, w)
         /\ d \in 0 .. 1 /\ d <= framed(v) /\ InFlight(v) \in Nat
         /\ InFlight(w) \in Nat /\ InFlight(w) = InFlight(v) - d + pushing(w)
         /\ d = 1 => ByteAt(v, 1) = v.frame
         /\ \A i \in 1 .. InFlight(w) :
              /\ ByteAt(w, i) \in Octet
              /\ ByteAt(w, i) = IF i + d <= InFlight(v) THEN ByteAt(v, i + d) ELSE w.push
<1> DEFINE rest == IF v.nb = 0 /\ v.fifo # <<>> THEN Tail(v.fifo) ELSE v.fifo
           new == IF v.push # NoByte THEN <<v.push>> ELSE <<>>
           pop == One(v.nb = 0 /\ v.fifo # <<>>)
<1>0. /\ v.fifo \in Seq(Octet) /\ used(v) = Len(v.fifo) /\ used(v) \in Nat /\ v.push \in Octet /\ v.nb \in Nat /\ v.frame \in Octet
      /\ w.push \in Octet /\ w.frame \in Octet /\ w.nb \in Nat
      /\ used(w) = Len(w.fifo)
  BY DEF UartType, used
<1>1. /\ w.fifo = Fifo(v)
      /\ v.nb # 0 => w.nb = v.nb - 1 /\ (v.nb # 1 => w.frame = v.frame)
      /\ v.nb = 0 /\ v.fifo = <<>> => w.nb = 0
      /\ v.nb = 0 /\ v.fifo # <<>> => w.nb = LINE /\ w.frame = Head(v.fifo)
  <2>1. Edge(v, rst, obs, ab, w)
    BY ClockedEdge
  <2> QED  BY <2>1 DEF Edge
<1>2. LINE \in Nat /\ LINE > 0
  BY BoardUartAssumption
<1>3. v.fifo = <<>> <=> used(v) = 0
  BY <1>0, SMT
<1>4. /\ pop \in 0 .. 1 /\ (pop = 1 <=> v.nb = 0 /\ used(v) # 0)
      /\ framed(v) \in 0 .. 1 /\ (framed(v) = 1 <=> v.nb # 0)
      /\ framed(w) \in 0 .. 1 /\ (framed(w) = 1 <=> w.nb # 0)
      /\ pushing(v) \in 0 .. 1 /\ (pushing(v) = 1 <=> v.push # NoByte)
      /\ pushing(w) \in 0 .. 1 /\ (pushing(w) = 1 <=> w.push # NoByte)
      /\ d \in 0 .. 1 /\ (d = 1 <=> v.nb = 1)
  BY <1>3, OneTyped DEF framed, pushing, Delivers
<1> HIDE DEF pop
<1>40. rest = IF pop = 1 THEN Tail(v.fifo) ELSE v.fifo
  BY <1>0, <1>3, <1>4
<1>41. w.fifo = rest \o new
  BY <1>1 DEF Fifo
<1> HIDE DEF rest
<1>5. /\ rest \in Seq(Octet) /\ Len(rest) = used(v) - pop
      /\ \A i \in 1 .. used(v) - pop : rest[i] = v.fifo[i + pop]
  <2>1. CASE pop = 1
    <3>1. rest = Tail(v.fifo) /\ v.fifo # <<>> /\ used(v) >= 1
      <4>1. used(v) # 0
        BY <2>1, <1>4, Zenon
      <4> QED  BY <2>1, <4>1, <1>0, <1>3, <1>40
    <3>2. Len(v.fifo) = used(v)
      BY <1>0
    <3>3. Len(Tail(v.fifo)) = used(v) - 1 /\ Tail(v.fifo) \in Seq(Octet)
          /\ \A i \in 1 .. used(v) - 1 : Tail(v.fifo)[i] = v.fifo[i + 1]
      BY <3>1, <3>2, <1>0
    <3> QED  BY <3>1, <3>3, <2>1
  <2>2. CASE pop = 0
    <3>1. rest = v.fifo
      BY <2>2, <1>40
    <3> QED  BY <3>1, <2>2, <1>0
  <2> QED  BY <2>1, <2>2, <1>4
<1>51. used(v) \in Nat /\ used(v) - pop \in Nat
  <2>1. Len(rest) \in Nat
    BY <1>5
  <2> QED  BY <2>1, <1>0, <1>5
<1>52. pop \in 0 .. 1 /\ framed(v) \in 0 .. 1 /\ framed(w) \in 0 .. 1 /\ pushing(v) \in 0 .. 1
       /\ pushing(w) \in 0 .. 1 /\ d \in 0 .. 1
  BY <1>4
<1>6. new \in Seq(Octet) /\ Len(new) = pushing(v) /\ (pushing(v) = 1 => new[1] = v.push)
  BY <1>0, <1>4
<1> HIDE DEF new
<1>8. /\ used(w) = used(v) - pop + pushing(v)
      /\ \A i \in 1 .. used(w) : w.fifo[i] = IF i <= used(v) - pop THEN v.fifo[i + pop] ELSE v.push
  <2>0. \A s, r \in Seq(Octet) :
          /\ Len(s \o r) = Len(s) + Len(r)
          /\ \A i \in 1 .. Len(s) + Len(r) : (s \o r)[i] = IF i <= Len(s) THEN s[i] ELSE r[i - Len(s)]
    BY ConcatProperties, Zenon
  <2>1. Len(w.fifo) = Len(rest) + Len(new)
    BY <2>0, <1>5, <1>6, <1>41, Zenon
  <2>2. \A i \in 1 .. Len(rest) + Len(new) : w.fifo[i] = IF i <= Len(rest) THEN rest[i] ELSE new[i - Len(rest)]
    BY <2>0, <1>5, <1>6, <1>41, Zenon
  <2>3. ASSUME NEW i \in 1 .. used(w)
        PROVE  w.fifo[i] = IF i <= used(v) - pop THEN v.fifo[i + pop] ELSE v.push
    <3>1. CASE i <= used(v) - pop
      <4>1. w.fifo[i] = rest[i]
        BY <3>1, <2>1, <2>2, <2>3, <1>5, <1>0
      <4>2. i \in 1 .. used(v) - pop
        BY <3>1
      <4> QED  BY <4>1, <4>2, <3>1, <1>5
    <3>2. CASE ~(i <= used(v) - pop)
      <4>0. i \in 1 .. Len(rest) + Len(new) /\ ~(i <= Len(rest))
        BY <3>2, <2>1, <2>3, <1>5, <1>0
      <4>1. w.fifo[i] = new[i - Len(rest)]
        BY <4>0, <2>2
      <4>2. i - Len(rest) = 1 /\ pushing(v) = 1
        BY <4>0, <1>51, <1>52, <1>5, <1>6
      <4> QED  BY <4>1, <4>2, <3>2, <1>6
    <3> QED  BY <3>1, <3>2
  <2> QED  BY <2>1, <2>3, <1>5, <1>6, <1>0
<1>9. framed(w) = framed(v) - d + pop
  <2>1. CASE v.nb = 0
    <3>1. v.fifo # <<>> => w.nb # 0
      BY <2>1, <1>1, <1>2
    <3>2. pop = 1 <=> w.nb # 0
      BY <2>1, <3>1, <1>1, <1>3, <1>4
    <3> QED  BY <2>1, <3>2, <1>4
  <2>2. CASE v.nb # 0
    <3>1. w.nb = v.nb - 1
      BY <2>2, <1>1
    <3> QED  BY <2>2, <3>1, <1>0, <1>4
  <2> QED  BY <2>1, <2>2
<1>91. used(w) \in Nat /\ used(w) = used(v) - pop + pushing(v)
  BY <1>8, <1>51, <1>52
<1>10. /\ InFlight(v) = framed(v) + used(v) + pushing(v) /\ InFlight(v) \in Nat
       /\ InFlight(w) = framed(w) + used(w) + pushing(w) /\ InFlight(w) \in Nat
       /\ InFlight(w) = InFlight(v) - d + pushing(w)
  BY <1>9, <1>91, <1>51, <1>52 DEF InFlight
<1>11. ASSUME NEW i \in 1 .. InFlight(w)
       PROVE  ByteAt(w, i) = IF i + d <= InFlight(v) THEN ByteAt(v, i + d) ELSE w.push
  <2>1. CASE i <= framed(w)
    <3>1. ByteAt(w, i) = w.frame /\ i = 1 /\ framed(w) = 1
      BY <2>1, <1>4 DEF ByteAt
    <3>2. CASE v.nb = 0
      <4>1. pop = 1 /\ w.frame = Head(v.fifo) /\ framed(v) = 0 /\ d = 0 /\ used(v) >= 1
        BY <3>1, <3>2, <1>0, <1>1, <1>3, <1>4
      <4>2. ByteAt(v, 1) = v.fifo[1]
        <5>1. ~(1 <= framed(v)) /\ 1 <= framed(v) + used(v) /\ 1 - framed(v) = 1
          BY <4>1, <1>51
        <5> QED  BY <5>1 DEF ByteAt
      <4>3. Head(v.fifo) = v.fifo[1]
        OBVIOUS
      <4>4. i + d = 1 /\ 1 <= InFlight(v)
        BY <3>1, <4>1, <1>10, <1>51, <1>52
      <4> QED  BY <3>1, <4>1, <4>2, <4>3, <4>4
    <3>3. CASE v.nb # 0
      <4>1. v.nb # 1 /\ w.frame = v.frame /\ framed(v) = 1 /\ d = 0
        BY <3>1, <3>3, <1>0, <1>1, <1>4
      <4>2. ByteAt(v, 1) = v.frame
        BY <4>1 DEF ByteAt
      <4>3. i + d = 1 /\ 1 <= InFlight(v)
        BY <3>1, <4>1, <1>10, <1>51, <1>52
      <4> QED  BY <3>1, <4>1, <4>2, <4>3
    <3> QED  BY <3>2, <3>3
  <2>2. CASE framed(w) < i /\ i <= framed(w) + used(w)
    <3> DEFINE j == i - framed(w)
    <3>1. ByteAt(w, i) = w.fifo[j] /\ j \in 1 .. used(w)
      <4>1. used(w) \in Nat
        BY <1>8, <1>0, <1>4, <1>3
      <4>2. j \in 1 .. used(w)
        BY <2>2, <4>1, <1>4
      <4>3. ~(i <= framed(w))
        BY <2>2, <1>4
      <4>4. ByteAt(w, i) = w.fifo[j]
        BY <2>2, <4>3, Zenon DEF ByteAt
      <4> QED  BY <4>2, <4>4
    <3>2. i + d = framed(v) + j + pop
      BY <1>4, <1>9
    <3> HIDE DEF j
    <3>3. CASE j <= used(v) - pop
      <4>1. w.fifo[j] = v.fifo[j + pop]
        BY <3>1, <3>3, <1>8
      <4>2. /\ ~(i + d <= framed(v)) /\ i + d <= framed(v) + used(v) /\ (i + d) - framed(v) = j + pop
            /\ i + d <= InFlight(v)
        <5>1. 1 <= j + pop /\ j + pop <= used(v) /\ j \in Int /\ pop \in Int
          BY <3>1, <3>3, <1>51, <1>52
        <5>2. framed(v) \in Int /\ used(v) \in Int /\ InFlight(v) >= framed(v) + used(v) /\ InFlight(v) \in Int
          BY <1>51, <1>52, <1>10
        <5> HIDE DEF j
        <5> QED  BY <3>2, <5>1, <5>2
      <4>3. ByteAt(v, i + d) = v.fifo[j + pop]
        BY <4>2 DEF ByteAt
      <4> QED  BY <3>1, <4>1, <4>2, <4>3
    <3>4. CASE j > used(v) - pop
      <4>1. w.fifo[j] = v.push
        BY <3>1, <3>4, <1>8, <1>51
      <4>2. pushing(v) = 1 /\ j = used(v) - pop + 1
        BY <3>1, <3>4, <1>51, <1>52, <1>91
      <4>3. /\ ~(i + d <= framed(v)) /\ ~(i + d <= framed(v) + used(v)) /\ i + d <= InFlight(v)
        BY <4>2, <3>2, <1>51, <1>52, <1>10
      <4>4. ByteAt(v, i + d) = v.push
        BY <4>3 DEF ByteAt
      <4> QED  BY <3>1, <4>1, <4>3, <4>4
    <3> QED  BY <3>1, <3>3, <3>4, <1>51, <1>52
  <2>3. CASE framed(w) + used(w) < i
    <3>1. ByteAt(w, i) = w.push
      BY <2>3, <1>91, <1>52 DEF ByteAt
    <3>2. i + d = InFlight(v) + 1
      BY <2>3, <1>51, <1>52, <1>9, <1>91, <1>10
    <3> QED  BY <3>1, <3>2, <1>10
  <2> QED  BY <2>1, <2>2, <2>3, <1>52, <1>91
<1>12. ASSUME NEW i \in 1 .. InFlight(w)
       PROVE  ByteAt(w, i) \in Octet
  <2>1. CASE framed(w) < i /\ i <= framed(w) + used(w)
    <3>1. i - framed(w) \in 1 .. Len(w.fifo) /\ w.fifo \in Seq(Octet)
      BY <2>1, <1>0, <1>4, <1>8 DEF UartType
    <3> QED  BY <2>1, <3>1, <1>4 DEF ByteAt
  <2>2. CASE ~(framed(w) < i /\ i <= framed(w) + used(w))
    BY <2>2, <1>0, <1>4, <1>8 DEF ByteAt
  <2> QED  BY <2>1, <2>2
<1>13. d = 1 => ByteAt(v, 1) = v.frame /\ d <= framed(v)
  BY <1>4 DEF ByteAt
<1>14. LineMoves(v, w)
  <2>1. pop = 1 => v.nb = 0 /\ w.nb = LINE /\ used(v) >= 1
    <3>1. pop = 1 => v.nb = 0 /\ used(v) # 0
      BY <1>4
    <3> QED  BY <3>1, <1>1, <1>3, <1>51
  <2>2. pop = 0 => IF v.nb = 0 THEN used(v) = 0 /\ w.nb = 0 ELSE w.nb = v.nb - 1
    BY <1>1, <1>3, <1>4
  <2> QED  BY <2>1, <2>2, <1>9, <1>52, <1>91 DEF LineMoves
<1> QED  BY <1>4, <1>10, <1>11, <1>12, <1>13, <1>14

\* What the sequencer does on an edge that gives no trial its record: a byte of the
\* escape, of the record or of the data register, or none.
PushedAs(w, b, escapes) ==
  IF escapes /\ b \in Special THEN w.push = DB /\ w.esc = EscOf(b) ELSE w.push = b /\ w.esc = NoByte
Idles(v, w) ==
  /\ w.push = NoByte /\ w.rec = v.rec /\ w.esc = v.esc /\ ~take_d(v)
  /\ full(v) \/ (v.esc = NoByte /\ v.rec = <<>> /\ v.dbuf = NoByte)
SendsEsc(v, w) == v.esc # NoByte /\ w.push = v.esc /\ w.esc = NoByte /\ w.rec = v.rec /\ ~take_d(v)
SendsRec(v, w) ==
  /\ v.esc = NoByte /\ v.rec # <<>> /\ ~take_d(v)
  /\ PushedAs(w, Head(v.rec), Len(v.rec) # RecLen) /\ w.rec = Tail(v.rec)
SendsData(v, w) ==
  v.esc = NoByte /\ v.rec = <<>> /\ w.rec = <<>> /\ take_d(v) /\ PushedAs(w, v.dbuf, TRUE)

LEMMA SequencerCases ==
  ASSUME NEW v, NEW rst, NEW obs, NEW ab, NEW w, Edge(v, rst, obs, ab, w), ~new_rec(v, rst)
  PROVE  Idles(v, w) \/ (~full(v) /\ (SendsEsc(v, w) \/ SendsRec(v, w) \/ SendsData(v, w)))
<1>1. /\ w.rec = IF send_rec(v) THEN Tail(v.rec) ELSE v.rec
      /\ w.push = IF send_esc(v) THEN v.esc ELSE IF ~(send_rec(v) \/ take_d(v)) THEN NoByte
                  ELSE IF escaped(v) THEN DB ELSE cur(v)
      /\ w.esc = IF full(v) THEN v.esc
                 ELSE IF (send_rec(v) \/ take_d(v)) /\ escaped(v) THEN EscOf(cur(v)) ELSE NoByte
  BY DEF Edge
<1>2. CASE full(v)
  BY <1>1, <1>2, Zenon DEF Idles, send_esc, send_rec, take_d
<1>3. CASE ~full(v) /\ v.esc # NoByte
  BY <1>1, <1>3, Zenon DEF SendsEsc, send_esc, send_rec, take_d
<1>4. CASE ~full(v) /\ v.esc = NoByte /\ v.rec # <<>>
  <2>1. send_rec(v) /\ ~send_esc(v) /\ ~take_d(v)
    BY <1>4 DEF send_rec, send_esc, take_d, rec_go
  <2>2. cur(v) = Head(v.rec) /\ (escaped(v) <=> Head(v.rec) \in Special /\ Len(v.rec) # RecLen)
    BY <1>4 DEF cur, escaped, rec_go
  <2>3. PushedAs(w, Head(v.rec), Len(v.rec) # RecLen) /\ w.rec = Tail(v.rec)
    BY <1>1, <1>4, <2>1, <2>2, Zenon DEF PushedAs
  <2> QED  BY <1>4, <2>1, <2>3 DEF SendsRec
<1>5. CASE ~full(v) /\ v.esc = NoByte /\ v.rec = <<>> /\ v.dbuf # NoByte
  <2>1. ~send_rec(v) /\ ~send_esc(v) /\ take_d(v)
    BY <1>5 DEF send_rec, send_esc, take_d, rec_go
  <2>2. cur(v) = v.dbuf /\ (escaped(v) <=> v.dbuf \in Special)
    BY <1>5 DEF cur, escaped, rec_go, RecLen
  <2>3. PushedAs(w, v.dbuf, TRUE) /\ w.rec = <<>>
    BY <1>1, <1>5, <2>1, <2>2, Zenon DEF PushedAs
  <2> QED  BY <1>5, <2>1, <2>3 DEF SendsData
<1>6. CASE v.esc = NoByte /\ v.rec = <<>> /\ v.dbuf = NoByte
  BY <1>1, <1>6, Zenon DEF Idles, send_esc, send_rec, take_d, rec_go
<1> QED  BY <1>2, <1>3, <1>4, <1>5, <1>6

\* A trial starts with an empty sequencer: its record is loaded and nothing pushed.
StartsTrial(v, w) ==
  /\ (\E cn \in COUNTS : w.rec = Record(v, cn, FALSE)) /\ w.trial = NextTrial(v.trial)
  /\ w.push = NoByte /\ w.esc = NoByte /\ w.dbuf = NoByte /\ ~w.f_lost /\ ~w.f_abort

LEMMA SequencerStarts ==
  ASSUME NEW v, NEW w, Edge(v, TRUE, NoByte, FALSE, w), trial_start(v, TRUE),
         v.rec = <<>>, v.dbuf = NoByte, v.esc = NoByte
  PROVE  StartsTrial(v, w)
<1>1. new_rec(v, TRUE) /\ ~send_rec(v) /\ ~send_esc(v) /\ ~take_d(v)
  BY DEF new_rec, send_rec, send_esc, take_d, rec_go
<1>2. ~LostFlag(v, TRUE, NoByte)
  BY <1>1 DEF LostFlag
<1> QED  BY <1>1, <1>2, Zenon DEF Edge, StartsTrial

-----------------------------------------------------------------------------
(* The sequencer's backlog.                                                  *)

LEMMA FramesLinear ==
  /\ Frames(0) = 0
  /\ \A m \in Int : Frames(m) \in Int /\ Frames(m - 1) = Frames(m) - (LINE + 1)
<1>1. LINE \in Int
  BY BoardUartAssumption
<1>2. \A m, k \in Int : m * k \in Int /\ (m - 1) * k = m * k - k /\ 0 * k = 0
  BY SMT
<1>3. LINE + 1 \in Int
  BY <1>1
<1>4. \A m \in Int : m * (LINE + 1) \in Int /\ (m - 1) * (LINE + 1) = m * (LINE + 1) - (LINE + 1)
  BY <1>2, <1>3, Zenon
<1>5. 0 * (LINE + 1) = 0
  BY <1>2, <1>3, Zenon
<1> QED  BY <1>4, <1>5, Zenon DEF Frames

LEMMA FramesMonotone ==
  ASSUME NEW m \in Int, NEW n \in Int, m <= n
  PROVE  Frames(m) <= Frames(n)
<1>1. LINE + 1 \in Nat
  BY BoardUartAssumption
<1>2. \A k \in Nat : m * k <= n * k
  BY SMT
<1> QED  BY <1>1, <1>2 DEF Frames

LEMMA TailFacts ==
  ASSUME NEW S, NEW s \in Seq(S), s # <<>>
  PROVE  /\ Tail(s) \in Seq(S) /\ Len(s) \in Nat /\ Len(s) >= 1 /\ Len(Tail(s)) = Len(s) - 1
         /\ \A i \in 1 .. Len(s) - 1 : Tail(s)[i] = s[i + 1]
         /\ Head(s) = s[1] /\ s[1] \in S
         /\ Tail(s) = <<>> <=> Len(s) = 1
<1>1. /\ Tail(s) \in Seq(S) /\ Len(s) \in Nat /\ Len(s) >= 1 /\ Len(Tail(s)) = Len(s) - 1
      /\ \A i \in 1 .. Len(s) - 1 : Tail(s)[i] = s[i + 1]
  OBVIOUS
<1>2. Head(s) = s[1] /\ s[1] \in S
  BY <1>1
<1>3. Tail(s) = <<>> <=> Len(Tail(s)) = 0
  BY <1>1
<1> QED  BY <1>1, <1>2, <1>3

\* The record of a trial, while it is sent.
LEMMA RecordFits ==
  ASSUME NEW v \in UartType, RecFits(v), NEW rst, NEW obs, NEW ab, NEW w, Edge(v, rst, obs, ab, w)
  PROVE  RecFits(w)
<1>1. IF new_rec(v, rst) THEN \E cn \in COUNTS : w.rec = Record(v, cn, ab)
      ELSE w.rec = IF send_rec(v) THEN Tail(v.rec) ELSE v.rec
  BY DEF Edge
<1>2. CASE new_rec(v, rst)
  <2>1. PICK cn \in COUNTS : w.rec = Record(v, cn, ab)
    BY <1>1, <1>2
  <2>2. v.trial \in TRIALS
    BY DEF UartType
  <2>3. w.rec \in Seq(Char) /\ Len(w.rec) = 9 /\ w.rec[9] \in 0 .. 3
    <3> DEFINE r == Record(v, cn, ab)
    <3>1. r \in Seq(Char) /\ Len(r) = 9 /\ r[9] = Flags(v, ab) /\ Flags(v, ab) \in 0 .. 3
      BY <2>1, <2>2, RecordIs
    <3> HIDE DEF r
    <3> QED  BY <2>1, <3>1 DEF r
  <2> QED  BY <2>3 DEF RecFits, RecLen
<1>3. CASE ~new_rec(v, rst) /\ send_rec(v)
  <2> DEFINE r == v.rec
  <2>1. w.rec = Tail(r) /\ r # <<>> /\ r \in Seq(Char) /\ Len(r) <= 9 /\ r[Len(r)] \in 0 .. 3
    BY <1>1, <1>3 DEF send_rec, rec_go, RecFits, RecLen
  <2> HIDE DEF r
  <2>2. /\ Len(r) \in Nat /\ Len(r) >= 1 /\ (Tail(r) = <<>> <=> Len(r) = 1)
        /\ Tail(r) \in Seq(Char) /\ Len(Tail(r)) = Len(r) - 1 /\ \A i \in 1 .. Len(r) - 1 : Tail(r)[i] = r[i + 1]
    BY <2>1, TailFacts
  <2>3. Tail(r) # <<>> => Tail(r)[Len(r) - 1] = r[Len(r)]
    <3>1. Tail(r) # <<>> => Len(r) - 1 \in 1 .. Len(r) - 1 /\ (Len(r) - 1) + 1 = Len(r)
      BY <2>2
    <3> QED  BY <3>1, <2>2
  <2>4. Len(Tail(r)) <= 9
    BY <2>1, <2>2
  <2>5. w.rec \in Seq(Char) /\ Len(w.rec) <= RecLen
    BY <2>1, <2>2, <2>4 DEF RecLen
  <2>6. w.rec # <<>> => w.rec[Len(w.rec)] \in 0 .. 3
    BY <2>1, <2>2, <2>3
  <2> QED  BY <2>5, <2>6 DEF RecFits
<1>4. CASE ~new_rec(v, rst) /\ ~send_rec(v)
  BY <1>1, <1>4 DEF RecFits
<1> QED  BY <1>2, <1>3, <1>4

\* An edge takes one push off the backlog, or none when the FIFO is full.
LEMMA PushesTyped ==
  ASSUME NEW v, RecFits(v)
  PROVE  /\ EscPush(v) \in 0 .. 1 /\ DataPushes(v) \in 0 .. 2 /\ RecPushes(v) \in 0 .. 18
         /\ Len(v.rec) \in 0 .. 9 /\ (v.rec = <<>> <=> Len(v.rec) = 0)
         /\ v.rec # <<>> => RecPushes(v) >= 1
<1>1. v.rec \in Seq(Char) /\ Len(v.rec) <= 9
  BY DEF RecFits, RecLen
<1>2. Len(v.rec) \in Nat /\ (v.rec = <<>> <=> Len(v.rec) = 0)
  BY <1>1
<1>3. \A n \in Nat : n <= 9 => n \in 0 .. 9 /\ 2 * n \in 0 .. 18 /\ (n # 0 => 2 * n >= 1)
  BY SMT
<1>4. EscPush(v) \in 0 .. 1 /\ DataPushes(v) \in 0 .. 2
  BY DEF EscPush, DataPushes, One
<1> QED  BY <1>1, <1>2, <1>3, <1>4, Zenon DEF RecPushes

LEMMA PushesOne ==
  ASSUME NEW v \in UartType, RecFits(v), NEW w,
         Idles(v, w) \/ SendsEsc(v, w) \/ SendsRec(v, w) \/ SendsData(v, w)
  PROVE  \/ Idles(v, w) /\ pushing(w) = 0 /\ Pushes(w) = Pushes(v)
         \/ (SendsEsc(v, w) \/ SendsRec(v, w)) /\ pushing(w) = 1 /\ Pushes(w) <= Pushes(v) - 1
         \/ SendsData(v, w) /\ pushing(w) = 1 /\ Pushes(v) = 0 /\ Pushes(w) = DataPushes(v) - 1
<1>1. EscPush(v) \in 0 .. 1 /\ RecPushes(v) \in 0 .. 18 /\ Len(v.rec) \in 0 .. 9
  BY PushesTyped
<1>2. \A b \in Char : b # NoByte
  BY SMT DEF Char, NoByte
<1>3. \A b \in Octet : EscOf(b) # NoByte
  BY SMT DEF EscOf, DC, DD, NoByte
<1>4. CASE Idles(v, w)
  <2>1. w.push = NoByte /\ w.rec = v.rec /\ w.esc = v.esc
    BY <1>4 DEF Idles
  <2>2. pushing(w) = 0 /\ EscPush(w) = EscPush(v) /\ RecPushes(w) = RecPushes(v)
    BY <2>1 DEF pushing, EscPush, RecPushes, One
  <2> QED  BY <2>2, <1>4 DEF Pushes
<1>5. CASE SendsEsc(v, w)
  <2>1. v.esc # NoByte /\ w.push = v.esc /\ w.esc = NoByte /\ w.rec = v.rec
    BY <1>5 DEF SendsEsc
  <2>2. pushing(w) = 1 /\ EscPush(v) = 1 /\ EscPush(w) = 0 /\ RecPushes(w) = RecPushes(v)
    BY <2>1 DEF pushing, EscPush, RecPushes, One
  <2>3. Pushes(w) = Pushes(v) - 1
    BY <2>2, <1>1 DEF Pushes
  <2> QED  BY <2>2, <2>3, <1>1, <1>5 DEF Pushes
<1>6. CASE SendsRec(v, w)
  <2>1. /\ v.esc = NoByte /\ v.rec # <<>> /\ w.rec = Tail(v.rec)
        /\ PushedAs(w, Head(v.rec), Len(v.rec) # RecLen)
    BY <1>6 DEF SendsRec
  <2>2. v.rec \in Seq(Char)
    BY DEF RecFits
  <2>3. Len(w.rec) = Len(v.rec) - 1 /\ Head(v.rec) \in Char
    BY <2>1, <2>2, TailFacts
  <2>4. pushing(w) = 1
    BY <2>1, <2>3, <1>2, BytesAre DEF PushedAs, pushing, One
  <2>5. EscPush(w) \in 0 .. 1 /\ EscPush(v) = 0
    BY <2>1 DEF EscPush, One
  <2>6. RecPushes(w) = RecPushes(v) - 2
    BY <2>3, <1>1, SMT DEF RecPushes
  <2>7. Pushes(w) <= Pushes(v) - 1
    BY <2>5, <2>6, <1>1, SMT DEF Pushes
  <2> QED  BY <2>4, <2>7, <1>6
<1>7. CASE SendsData(v, w)
  <2>1. v.esc = NoByte /\ v.rec = <<>> /\ w.rec = <<>> /\ v.dbuf # NoByte /\ PushedAs(w, v.dbuf, TRUE)
    BY <1>7 DEF SendsData, take_d
  <2>2. v.dbuf \in Octet
    BY DEF UartType
  <2>3. Pushes(v) = 0 /\ RecPushes(w) = 0
    BY <2>1 DEF EscPush, RecPushes, One, Pushes
  <2>4. pushing(w) = 1 /\ EscPush(w) = One(v.dbuf \in Special) /\ DataPushes(v) = 1 + One(v.dbuf \in Special)
    BY <2>1, <2>2, <1>3, BytesAre DEF PushedAs, pushing, EscPush, DataPushes, One
  <2>5. One(v.dbuf \in Special) \in 0 .. 1
    BY DEF One
  <2> QED  BY <2>3, <2>4, <2>5, <1>7 DEF Pushes
<1> QED  BY <1>4, <1>5, <1>6, <1>7

\* What becomes of the trial in a cycle: it runs on, it is stopped, its window is
\* counted down, the next one starts.
Continues(d) ==
  /\ dut.run /\ d.run /\ d.gap = dut.gap /\ (dut.to => dut.cnt < TO_THR)
  /\ d.cnt = IF dut.cnt < TO_THR THEN dut.cnt + 1 ELSE dut.cnt
Halts(d) == dut.run /\ dut.to /\ ~d.run /\ d.gap = GAP /\ d.cnt = dut.cnt
CountsDown(d) == ~dut.run /\ dut.gap > 1 /\ ~d.run /\ d.gap = dut.gap - 1 /\ d.cnt = dut.cnt
Releases(d) ==
  /\ ~dut.run /\ dut.gap <= 1 /\ d.run /\ d.cnt = 0
  /\ d.now = IF dut.next \in 1 .. N THEN dut.next ELSE 0
  /\ d.next = IF dut.next \in 1 .. N THEN dut.next + 1 ELSE 0
TrialStep(d) ==
  /\ d.to = dut.to
  /\ \/ Releases(d)
     \/ (Continues(d) \/ Halts(d) \/ CountsDown(d)) /\ d.now = dut.now /\ d.next = dut.next
ClockStep(obs, ab, d) ==
  Cycle(obs, ab, d) /\ TrialStep(d) /\ (obs # NoByte \/ ab => dut.run /\ dut.cnt > 0)

LEMMA ClockIsStep ==
  ASSUME IInv, Paced, Clock
  PROVE  \E obs \in Octet, ab \in BOOLEAN, d \in DutType : ClockStep(obs, ab, d)
<1>0. dut \in DutType /\ NoByte \in Octet
  BY BytesAre DEF IInv, TypeOK
<1>1. ASSUME NEW ab \in BOOLEAN, NEW printed \in BOOLEAN, dut.run, ab => dut.to
      PROVE  TrialStep(Running(ab, printed))
  <2> DEFINE d == Running(ab, printed)
  <2>1. CASE Stops(ab)
    <3>1. d = [dut EXCEPT !.run = FALSE, !.gap = GAP, !.script = <<>>]
      BY <2>1 DEF Running
    <3>2. dut.to
      BY <2>1 DEF Stops
    <3>3. ~d.run /\ d.gap = GAP /\ d.cnt = dut.cnt /\ d.to = dut.to /\ d.now = dut.now /\ d.next = dut.next
      BY <3>1, <1>0 DEF DutType
    <3> HIDE DEF d
    <3>4. TrialStep(d)
      BY <3>2, <3>3, <1>1 DEF TrialStep, Halts
    <3> QED  BY <3>4 DEF d
  <2>2. CASE ~Stops(ab)
    <3>1. d = [dut EXCEPT !.cnt = IF @ < TO_THR THEN @ + 1 ELSE @, !.script = IF printed THEN Tail(@) ELSE @]
      BY <2>2 DEF Running
    <3>2. /\ d.run /\ d.gap = dut.gap /\ d.to = dut.to /\ d.now = dut.now /\ d.next = dut.next
          /\ d.cnt = IF dut.cnt < TO_THR THEN dut.cnt + 1 ELSE dut.cnt
      BY <3>1, <1>0, <1>1 DEF DutType
    <3>3. dut.to => dut.cnt < TO_THR
      <4>1. dut.to => ~(dut.cnt >= TO_THR)
        BY <2>2 DEF Stops
      <4>2. dut.cnt \in Nat /\ TO_THR \in Nat
        BY BoardRunAssumption DEF Paced
      <4> QED  BY <4>1, <4>2
    <3> HIDE DEF d
    <3>4. TrialStep(d)
      BY <3>2, <3>3, <1>1 DEF TrialStep, Continues
    <3> QED  BY <3>4 DEF d
  <2> QED  BY <2>1, <2>2
<1>2. CASE Output
  <2>1. /\ dut.run /\ dut.cnt > 0 /\ Head(dut.script) \in Octet /\ Running(FALSE, TRUE) \in DutType
        /\ Cycle(Head(dut.script), FALSE, Running(FALSE, TRUE))
    <3>1. dut.cnt > BOOT /\ dut.cnt \in 0 .. TO_THR /\ TO_THR \in Nat /\ BOOT \in Nat
      BY <1>2, BoardRunAssumption DEF Output, Prints, Paced
    <3>2. dut.cnt > 0
      BY <3>1, SMT
    <3> QED  BY <1>2, <3>2, DutTyped DEF Output, Prints
  <2>2. TrialStep(Running(FALSE, TRUE))
    BY <2>1, <1>1
  <2> QED  BY <2>1, <2>2 DEF ClockStep
<1>3. CASE Idle
  <2>1. dut.run /\ Running(FALSE, FALSE) \in DutType /\ Cycle(NoByte, FALSE, Running(FALSE, FALSE))
    BY <1>3, DutTyped DEF Idle
  <2>2. TrialStep(Running(FALSE, FALSE))
    BY <2>1, <1>1
  <2> QED  BY <2>1, <2>2, <1>0 DEF ClockStep
<1>4. CASE Abort
  <2>1. dut.run /\ dut.cnt > 0 /\ dut.to /\ Running(TRUE, FALSE) \in DutType /\ Cycle(NoByte, TRUE, Running(TRUE, FALSE))
    BY <1>4, DutTyped DEF Abort
  <2>2. TrialStep(Running(TRUE, FALSE))
    BY <2>1, <1>1
  <2> QED  BY <2>1, <2>2, <1>0 DEF ClockStep
<1>5. CASE Window
  <2> DEFINE d == [dut EXCEPT !.gap = @ - 1]
  <2>1. ~dut.run /\ dut.gap > 1 /\ d \in DutType /\ Cycle(NoByte, FALSE, d)
    BY <1>5, DutTyped DEF Window
  <2>2. TrialStep(d)
    <3>1. /\ d.run = dut.run /\ d.gap = dut.gap - 1 /\ d.cnt = dut.cnt
          /\ d.to = dut.to /\ d.now = dut.now /\ d.next = dut.next
      BY <1>0 DEF DutType
    <3> HIDE DEF d
    <3> QED  BY <3>1, <2>1 DEF TrialStep, CountsDown
  <2> HIDE DEF d
  <2> QED  BY <2>1, <2>2, <1>0 DEF ClockStep
<1>6. CASE StartTrial
  <2>1. PICK s \in SCRIPTS : Cycle(NoByte, FALSE, Release(s))
    BY <1>6 DEF StartTrial
  <2> DEFINE d == Release(s)
  <2>2. ~dut.run /\ dut.gap <= 1 /\ d \in DutType
    BY <1>6, DutTyped DEF StartTrial
  <2>3. TrialStep(d)
    <3>1. /\ d.run /\ d.cnt = 0 /\ d.to = dut.to
          /\ d.now = IF dut.next \in 1 .. N THEN dut.next ELSE 0
          /\ d.next = IF dut.next \in 1 .. N THEN dut.next + 1 ELSE 0
      BY <1>0, Zenon DEF Release, DutType
    <3> HIDE DEF d
    <3> QED  BY <3>1, <2>2 DEF TrialStep, Releases
  <2> HIDE DEF d
  <2> QED  BY <2>1, <2>2, <2>3, <1>0 DEF ClockStep, d
<1> QED  BY <1>2, <1>3, <1>4, <1>5, <1>6 DEF Clock

\* A cycle of the board, register by register.
LEMMA CycleEdge ==
  ASSUME IInv, NEW obs \in Octet, NEW ab \in BOOLEAN, NEW d \in DutType, Cycle(obs, ab, d)
  PROVE  /\ u \in UartType /\ u' \in UartType /\ dut.run \in BOOLEAN
         /\ \E cn \in COUNTS : u' = Clocked(u, dut.run, obs, ab, cn)
         /\ Edge(u, dut.run, obs, ab, u') /\ LineMoves(u, u') /\ dut' = d
         /\ in_time' => in_time /\ LeavesInTime
         /\ UNCHANGED <<pc, golden, reached, session, verdict, first>>
<1>1. u \in UartType /\ dut.run \in BOOLEAN
  BY DEF IInv, TypeOK, DutType
<1>5. PICK cn \in COUNTS : u' = Clocked(u, dut.run, obs, ab, cn)
  BY DEF Cycle
<1>2. u' \in UartType
  BY CycleKeepsInv DEF IInv, TypeOK
<1>3. Edge(u, dut.run, obs, ab, u')
  BY <1>1, <1>5, ClockedEdge
<1>4. LineMoves(u, u')
  BY <1>1, <1>2, <1>5, ByteShift
<1>6. in_time' => in_time /\ LeavesInTime
  BY DEF Cycle, LeavesInTime, Starting, trial_start
<1> QED  BY <1>1, <1>2, <1>3, <1>4, <1>5, <1>6 DEF Cycle

\* The host touches neither the UART nor the trial's counters.
LEMMA HostLeavesBoard ==
  ASSUME IInv, Host \/ Timeout \/ UNCHANGED vars
  PROVE  /\ u' = u /\ dut'.run = dut.run /\ dut'.cnt = dut.cnt /\ dut'.gap = dut.gap
         /\ in_time' = in_time
<1>0. dut \in DutType
  BY DEF IInv, TypeOK
<1>1. CASE Pause
  BY <1>0, <1>1 DEF Pause, Paused, DutType
<1>2. CASE FiCampaign
  BY <1>0, <1>2 DEF FiCampaign, DutType
<1>3. CASE Args \/ BadArgs \/ Connect \/ OcdExits \/ Quiet \/ GiveUp \/ FiError \/ Done \/ Timeout \/ UNCHANGED vars
  BY <1>3 DEF Args, BadArgs, Connect, OcdExits, Quiet, GiveUp, FiError, Done, Timeout, Collect, Stay, board, history,
                vars
<1> QED  BY <1>1, <1>2, <1>3 DEF Host

\* A trial starts with its counter at 0: no byte and no abort on the edge that gives
\* it its record.
LEMMA PacedKept ==
  ASSUME IInv, Paced, NEW obs \in Octet, NEW ab \in BOOLEAN, NEW d \in DutType, ClockStep(obs, ab, d)
  PROVE  Paced'
<1>1. dut' = d /\ u'.rst_q = dut.run /\ LineMoves(u, u') /\ u' \in UartType /\ u \in UartType
  BY CycleEdge DEF ClockStep, Edge
<1>2. /\ dut.gap \in Int /\ (~dut.run => dut.gap \in 1 .. GAP) /\ dut.cnt \in 0 .. TO_THR
      /\ TO_THR \in Nat /\ GAP \in Nat /\ GAP > 0 /\ LINE \in Nat /\ d.gap \in Int
  BY BoardRunAssumption, BoardUartAssumption DEF Paced, DutType, Number
<1>3. u'.nb <= LINE
  <2>1. u.nb \in Nat /\ u.nb <= LINE
    BY <1>1 DEF UartType, Paced
  <2> QED  BY <2>1, <1>1, <1>2 DEF LineMoves
<1>4. \/ d.run /\ d.cnt = 0 /\ ~dut.run
      \/ d.run /\ dut.run /\ d.cnt = IF dut.cnt < TO_THR THEN dut.cnt + 1 ELSE dut.cnt
      \/ ~d.run /\ d.gap = GAP /\ d.cnt = dut.cnt
      \/ ~d.run /\ ~dut.run /\ dut.gap > 1 /\ d.gap = dut.gap - 1 /\ d.cnt = dut.cnt
  BY DEF ClockStep, TrialStep, Releases, Continues, Halts, CountsDown
<1>5. d.cnt \in 0 .. TO_THR /\ (~d.run => d.gap \in 1 .. GAP) /\ (d.run /\ ~dut.run => d.cnt = 0)
  BY <1>2, <1>4
<1>6. Starting' <=> d.run /\ ~dut.run
  BY <1>1 DEF Starting
<1> QED  BY <1>1, <1>2, <1>3, <1>5, <1>6 DEF Paced

-----------------------------------------------------------------------------
(* The parser, a byte at a time.                                             *)

\* A byte joins the last run; a run begins.
Joins(rs, x, new) ==
  /\ new \in Seq(RunType) /\ Len(new) = Len(rs)
  /\ \A j \in 1 .. Len(rs) :
       /\ new[j].trial = rs[j].trial /\ new[j].flags_prev = rs[j].flags_prev
       /\ new[j].data = IF j = Len(rs) THEN Append(rs[j].data, x) ELSE rs[j].data
Begins(rs, trial, flags, new) ==
  /\ new \in Seq(RunType) /\ Len(new) = Len(rs) + 1
  /\ \A j \in 1 .. Len(rs) : new[j] = rs[j]
  /\ new[Len(rs) + 1] = [trial |-> trial, flags_prev |-> flags, data |-> <<>>]

LEMMA RunsJoin ==
  ASSUME NEW rs \in Seq(RunType), NEW x \in Octet
  PROVE  Joins(rs, x, IF rs = <<>> THEN rs ELSE [rs EXCEPT ![Len(rs)].data = Append(@, x)])
<1>1. CASE rs = <<>>
  BY <1>1 DEF Joins
<1>2. CASE rs # <<>>
  <2> DEFINE n == Len(rs)
             r == [rs[n] EXCEPT !.data = Append(@, x)]
             new == [rs EXCEPT ![n] = r]
  <2>1. n \in Nat /\ n >= 1 /\ DOMAIN rs = 1 .. n /\ \A j \in 1 .. n : rs[j] \in RunType
    BY <1>2
  <2>2. rs[n].data \in Seq(Octet) /\ rs[n] \in RunType
    BY <2>1 DEF RunType
  <2>3. Append(rs[n].data, x) \in Seq(Octet)
    BY <2>2
  <2>4. /\ r \in RunType /\ r.trial = rs[n].trial /\ r.flags_prev = rs[n].flags_prev
        /\ r.data = Append(rs[n].data, x)
    BY <2>2, <2>3 DEF RunType
  <2> HIDE DEF r
  <2>5. new \in Seq(RunType) /\ Len(new) = n /\ \A j \in 1 .. n : new[j] = IF j = n THEN r ELSE rs[j]
    BY <2>1, <2>4
  <2>6. [rs EXCEPT ![Len(rs)].data = Append(@, x)] = new
    BY DEF r
  <2> HIDE DEF new
  <2>7. Joins(rs, x, new)
    BY <2>4, <2>5 DEF Joins
  <2> QED  BY <2>6, <2>7, <1>2
<1> QED  BY <1>1, <1>2

LEMMA RunsBegin ==
  ASSUME NEW rs \in Seq(RunType), NEW trial \in Nat, NEW flags \in Octet
  PROVE  Begins(rs, trial, flags, Append(rs, [trial |-> trial, flags_prev |-> flags, data |-> <<>>]))
<1> DEFINE r == [trial |-> trial, flags_prev |-> flags, data |-> <<>>]
<1>1. r \in RunType
  BY DEF RunType
<1> HIDE DEF r
<1>2. Begins(rs, trial, flags, Append(rs, r)) <=>
        /\ Append(rs, r) \in Seq(RunType) /\ Len(Append(rs, r)) = Len(rs) + 1
        /\ \A j \in 1 .. Len(rs) : Append(rs, r)[j] = rs[j]
        /\ Append(rs, r)[Len(rs) + 1] = r
  BY DEF Begins, r
<1>3. Begins(rs, trial, flags, Append(rs, r))
  BY <1>1, <1>2
<1> QED  BY <1>3 DEF r

\* What a byte x makes of a parser's state s.
Parsed(s, x, t) ==
  /\ x = C0 => t.inrec /\ ~t.esc /\ t.rec = <<>> /\ t.runs = s.runs
  /\ x = DB => (t.inrec <=> s.inrec) /\ t.esc /\ t.rec = s.rec /\ t.runs = s.runs
  /\ x \notin Special /\ ~s.inrec => ~t.inrec /\ ~t.esc /\ t.rec = s.rec /\ Joins(s.runs, Unescaped(s, x), t.runs)
  /\ x \notin Special /\ s.inrec /\ Len(s.rec) < 7 =>
       t.inrec /\ ~t.esc /\ t.rec = Append(s.rec, Unescaped(s, x)) /\ t.runs = s.runs
  /\ x \notin Special /\ s.inrec /\ Len(s.rec) = 7 =>
       ~t.inrec /\ ~t.esc /\ t.rec = <<>>
       /\ Begins(s.runs, s.rec[2] * 256 + s.rec[3], Unescaped(s, x), t.runs)

LEMMA ByteParsed ==
  ASSUME NEW s \in ParserType, RecKept(s), NEW x \in Octet
  PROVE  Byte(s, x) \in ParserType /\ RecKept(Byte(s, x)) /\ Parsed(s, x, Byte(s, x))
<1> DEFINE e == [s EXCEPT !.esc = FALSE]
           y == Unescaped(s, x)
           t == Byte(s, x)
<1>1. /\ s.esc \in BOOLEAN /\ s.inrec \in BOOLEAN /\ s.rec \in Seq(Octet) /\ s.runs \in Seq(RunType)
      /\ Len(s.rec) \in Nat
  BY DEF ParserType
<1>2. y \in Octet
  BY BytesAre DEF Unescaped
<1>3. e \in ParserType /\ ~e.esc /\ e.inrec = s.inrec /\ e.rec = s.rec /\ e.runs = s.runs
  BY DEF ParserType
<1>4. Len(s.rec) <= 7 /\ (s.rec # <<>> => s.inrec)
  BY DEF RecKept
<1>5. s.rec = <<>> <=> Len(s.rec) = 0
  BY <1>1
<1>6. C0 # DB
  BY BytesAre
<1>60. <<>> \in Seq(Octet) /\ TRUE \in BOOLEAN /\ FALSE \in BOOLEAN
  OBVIOUS
<1> HIDE DEF e, y
<1>7. CASE x = C0
  <2>1. t = [e EXCEPT !.inrec = TRUE, !.rec = <<>>]
    BY <1>6, <1>7, Zenon DEF Byte, e
  <2> HIDE DEF t
  <2>2. t \in ParserType /\ t.inrec /\ ~t.esc /\ t.rec = <<>> /\ t.runs = s.runs
    BY <2>1, <1>3, <1>60 DEF ParserType
  <2>3. RecKept(t)
    BY <2>2 DEF RecKept
  <2>4. Parsed(s, x, t)
    BY <2>2, <1>6, <1>7 DEF Parsed, Special
  <2> QED  BY <2>2, <2>3, <2>4 DEF t
<1>8. CASE x = DB
  <2>1. t = [e EXCEPT !.esc = TRUE]
    BY <1>6, <1>8 DEF Byte, e
  <2> HIDE DEF t
  <2>2. t \in ParserType /\ t.inrec = s.inrec /\ t.esc /\ t.rec = s.rec /\ t.runs = s.runs
    BY <2>1, <1>3 DEF ParserType
  <2>3. RecKept(t)
    BY <2>2 DEF RecKept
  <2>4. Parsed(s, x, t)
    BY <2>2, <1>6, <1>8 DEF Parsed, Special
  <2> QED  BY <2>2, <2>3, <2>4 DEF t
<1>9. CASE x \notin Special /\ ~s.inrec
  <2>1. t = Data(e, y)
    BY <1>9 DEF Byte, e, y, Special
  <2> DEFINE rs == IF e.runs = <<>> THEN e.runs ELSE [e.runs EXCEPT ![Len(e.runs)].data = Append(@, y)]
  <2>2. Joins(e.runs, y, rs)
    BY <1>1, <1>2, <1>3, RunsJoin
  <2>3. Joins(s.runs, y, rs)
    <3> HIDE DEF rs
    <3> QED  BY <2>2, <1>3
  <2>4. rs \in Seq(RunType)
    BY <2>3 DEF Joins
  <2>5. t = [e EXCEPT !.runs = rs]
    <3>1. CASE e.runs = <<>>
      <4>1. t = e
        BY <2>1, <3>1 DEF Data
      <4>2. rs = e.runs
        BY <3>1
      <4> HIDE DEF rs, t
      <4> QED  BY <4>1, <4>2, <1>3 DEF ParserType
    <3>2. CASE e.runs # <<>>
      <4>1. t = [e EXCEPT !.runs[Len(e.runs)].data = Append(@, y)]
        BY <2>1, <3>2 DEF Data
      <4> QED  BY <4>1, <3>2
    <3> QED  BY <3>1, <3>2
  <2> HIDE DEF rs, t
  <2>6. t \in ParserType /\ t.inrec = s.inrec /\ ~t.esc /\ t.rec = s.rec /\ t.runs = rs
    BY <2>4, <2>5, <1>3 DEF ParserType
  <2>7. RecKept(t)
    BY <2>6 DEF RecKept
  <2>8. Parsed(s, x, t)
    BY <2>3, <2>6, <1>9 DEF Parsed, Special, y
  <2> QED  BY <2>6, <2>7, <2>8 DEF t
<1>10. CASE x \notin Special /\ s.inrec
  <2> DEFINE r == Append(s.rec, y)
  <2>1. t = Recorded(e, r)
    BY <1>10 DEF Byte, e, y, Special
  <2>2. r \in Seq(Octet) /\ Len(r) = Len(s.rec) + 1 /\ r[Len(s.rec) + 1] = y /\ \A j \in 1 .. Len(s.rec) : r[j] = s.rec[j]
    BY <1>1, <1>2
  <2>3. CASE Len(s.rec) < 7
    <3> HIDE DEF r
    <3>1. Len(r) < RecLen - 1 /\ r # <<>> /\ Len(r) <= 7
      <4>1. \A n \in Nat : n < 7 => n + 1 < 9 - 1 /\ n + 1 # 0 /\ n + 1 <= 7
        OBVIOUS
      <4>2. Len(r) < 9 - 1 /\ Len(r) # 0 /\ Len(r) <= 7
        BY <4>1, <2>2, <2>3, <1>1, Zenon
      <4>3. r = <<>> => Len(r) = 0
        OBVIOUS
      <4> QED  BY <4>2, <4>3, Zenon DEF RecLen
    <3>2. t = [e EXCEPT !.rec = r]
      BY <2>1, <3>1 DEF Recorded
    <3> HIDE DEF t
    <3>3. t \in ParserType /\ t.inrec = s.inrec /\ ~t.esc /\ t.rec = r /\ t.runs = s.runs
      BY <2>2, <3>2, <1>3 DEF ParserType
    <3>4. RecKept(t)
      BY <3>1, <3>3, <1>10 DEF RecKept
    <3>5. t.rec = Append(s.rec, Unescaped(s, x))
      BY <3>3 DEF r, y
    <3>6. Parsed(s, x, t)
      <4>1. Len(s.rec) # 7 /\ x # C0 /\ x # DB
        <5>1. \A n \in Nat : n < 7 => n # 7
          OBVIOUS
        <5> QED  BY <5>1, <2>3, <1>1, <1>10, Zenon DEF Special
      <4> QED  BY <4>1, <3>3, <3>5, <1>10, Zenon DEF Parsed
    <3> QED  BY <3>3, <3>4, <3>6 DEF t
  <2>4. CASE Len(s.rec) = 7
    <3> HIDE DEF r
    <3>1. ~(Len(r) < RecLen - 1) /\ r[2] = s.rec[2] /\ r[3] = s.rec[3] /\ r[8] = y
      BY <2>2, <2>4 DEF RecLen
    <3>2. s.rec[2] \in Octet /\ s.rec[3] \in Octet
      BY <2>4, <1>1
    <3>3. s.rec[2] * 256 + s.rec[3] \in Nat
      <4>1. \A a, b \in Octet : a * 256 + b \in Nat
        BY SMT DEF Octet
      <4> QED  BY <3>2, <4>1, Zenon
    <3> DEFINE n == s.rec[2] * 256 + s.rec[3]
               rs == Append(s.runs, [trial |-> n, flags_prev |-> y, data |-> <<>>])
    <3>4. n \in Nat /\ n = r[2] * 256 + r[3]
      BY <3>1, <3>3
    <3>5. n = s.rec[2] * 256 + s.rec[3]
      OBVIOUS
    <3> HIDE DEF n
    <3>6. Begins(s.runs, n, y, rs)
      BY <3>4, <1>1, <1>2, RunsBegin
    <3>7. rs \in Seq(RunType)
      BY <3>6 DEF Begins
    <3>8. t = [e EXCEPT !.inrec = FALSE, !.rec = <<>>, !.runs = rs]
      BY <2>1, <3>1, <3>4, <1>3 DEF Recorded
    <3> HIDE DEF rs, t
    <3>9. t \in ParserType /\ ~t.inrec /\ ~t.esc /\ t.rec = <<>> /\ t.runs = rs
      BY <3>7, <3>8, <1>3, <1>60 DEF ParserType
    <3>10. RecKept(t)
      BY <3>9 DEF RecKept
    <3>11. Parsed(s, x, t)
      BY <3>5, <3>6, <3>9, <2>4, <1>10 DEF Parsed, Special, y
    <3> QED  BY <3>9, <3>10, <3>11 DEF t
  <2>5. Len(s.rec) < 7 \/ Len(s.rec) = 7
    <3>1. \A n \in Nat : n <= 7 => n < 7 \/ n = 7
      OBVIOUS
    <3> QED  BY <3>1, <1>1, <1>4, Zenon
  <2> QED  BY <2>3, <2>4, <2>5
<1> QED  BY <1>1, <1>7, <1>8, <1>9, <1>10 DEF Special

\* The stream up to the sequencer's last push; t is where the parser is after it.
Follows(F, w, t) ==
  /\ w.push = NoByte => t = F
  /\ w.push # NoByte =>
       LET b == Byte(F, w.push) IN (t.inrec <=> b.inrec) /\ (t.esc <=> b.esc) /\ t.rec = b.rec

LEMMA EndStarts ==
  ASSUME NEW v \in UartType, NEW w, NEW F \in ParserType, EndShape(v, F), StartsTrial(v, w), v.rec = <<>>, v.esc = NoByte
  PROVE  /\ RecShape(w) /\ EndShape(w, F) /\ PendTrial(w, F) = v.trial
         /\ w.rec # <<>> /\ w.rec[Len(w.rec)] = Flags(v, FALSE)
<1> DEFINE ab == FALSE
<1>1. PICK cn \in COUNTS : w.rec = Record(v, cn, ab)
  BY DEF StartsTrial
<1>2. v.trial \in TRIALS
  BY DEF UartType
<1>20. Flags(v, ab) = Flags(v, FALSE)
  OBVIOUS
<1> HIDE DEF ab
<1> DEFINE r == Record(v, cn, ab)
<1>3. /\ r \in Seq(Char) /\ Len(r) = 9 /\ r[1] = C0 /\ r[9] = Flags(v, ab)
      /\ r[3] * 256 + r[4] = v.trial /\ Flags(v, ab) \in 0 .. 3
  BY <1>1, <1>2, RecordIs
<1> HIDE DEF r
<1>4. w.rec = r /\ w.esc = NoByte
  BY <1>1 DEF StartsTrial, r
<1>10. w.rec \in Seq(Char) /\ Len(w.rec) = 9 /\ w.rec # <<>> /\ w.rec[9] \in 0 .. 3 /\ w.rec[1] = C0
  <2>1. r # <<>>
    <3>1. Len(<<>>) # 9
      OBVIOUS
    <3> QED  BY <3>1, <1>3, Zenon
  <2> QED  BY <2>1, <1>3, <1>4, Zenon
<1>5. RecShape(w)
  <2>1. RecFits(w)
    BY <1>10 DEF RecFits, RecLen
  <2> QED  BY <2>1, <1>4, <1>10 DEF RecShape
<1>6. ~F.inrec /\ ~F.esc /\ Len(F.rec) = 0
  <2>1. Len(v.rec) = 0
    OBVIOUS
  <2> QED  BY <2>1 DEF EndShape
<1>7. EndShape(w, F)
  BY <1>10, <1>4, <1>6 DEF EndShape
<1>8. BodyAt(w, F, 2) = w.rec[3] /\ BodyAt(w, F, 3) = w.rec[4]
  <2>1. 2 - (8 - Len(w.rec)) = 3 /\ 3 - (8 - Len(w.rec)) = 4 /\ 3 > 0 /\ 4 > 0
    BY <1>10
  <2> QED  BY <2>1, Zenon DEF BodyAt
<1>9. PendTrial(w, F) = v.trial
  BY <1>3, <1>4, <1>8, Zenon DEF PendTrial
<1> QED  BY <1>3, <1>4, <1>5, <1>7, <1>9, <1>10, <1>20, Zenon

\* What a push of the record, of the data, or of an escape makes of the shape.
LEMMA EndSteps ==
  ASSUME NEW v \in UartType, NEW w, NEW F \in ParserType, RecKept(F), RecShape(v), EndShape(v, F),
         Idles(v, w) \/ SendsEsc(v, w) \/ SendsRec(v, w) \/ SendsData(v, w),
         NEW t, Follows(F, w, t)
  PROVE  RecShape(w) /\ EndShape(w, t)
<1> DEFINE r == v.rec
<1>1. /\ r \in Seq(Char) /\ Len(r) <= 9 /\ (r # <<>> => r[Len(r)] \in 0 .. 3)
      /\ Len(r) = 9 => r[1] = C0
      /\ Len(r) >= 8 => v.esc = NoByte
      /\ v.esc \in {NoByte, DC, DD}
  BY DEF RecShape, RecFits, RecLen
<1>2. /\ F.inrec <=> Len(r) \in 1 .. 8
      /\ F.esc <=> v.esc # NoByte
      /\ Len(r) \in 1 .. 8 /\ v.esc = NoByte => Len(F.rec) = 8 - Len(r)
      /\ Len(r) \in 1 .. 8 /\ v.esc # NoByte => Len(F.rec) = 7 - Len(r)
      /\ Len(r) \notin 1 .. 8 => Len(F.rec) = 0
      /\ F.rec \in Seq(Octet)
  BY DEF EndShape, ParserType
<1>3. \A x \in Octet : Parsed(F, x, Byte(F, x))
  BY ByteParsed
<1>4. Len(r) \in 0 .. 9 /\ (r = <<>> <=> Len(r) = 0)
  <2>1. \A n \in Nat : n <= 9 => n \in 0 .. 9
    OBVIOUS
  <2>2. Len(r) \in Nat /\ (r = <<>> <=> Len(r) = 0)
    BY <1>1
  <2> QED  BY <2>1, <2>2, <1>1, Zenon
<1>40. \A y : Len(Append(F.rec, y)) = Len(F.rec) + 1
  <2>1. \A S, y : F.rec \in Seq(S) => Len(Append(F.rec, y)) = Len(F.rec) + 1
    OBVIOUS
  <2> QED  BY <2>1, <1>2
<1>5. CASE Idles(v, w)
  <2>1. w.rec = r /\ w.esc = v.esc /\ t = F
    BY <1>5 DEF Idles, Follows
  <2> QED  BY <2>1 DEF RecShape, RecFits, EndShape
<1>6. CASE SendsEsc(v, w)
  <2>1. v.esc \in {DC, DD} /\ w.push = v.esc /\ w.esc = NoByte /\ w.rec = r /\ v.esc # NoByte
    BY <1>1, <1>6 DEF SendsEsc
  <2>2. w.push \in Octet /\ w.push \notin Special /\ w.push # NoByte
    BY <2>1, BytesAre
  <2>3. Parsed(F, w.push, Byte(F, w.push))
    BY <1>3, <2>2
  <2>4. RecShape(w)
    BY <2>1 DEF RecShape, RecFits
  <2> HIDE DEF r
  <2>5. Len(r) \in 0 .. 7
    <3>1. ~(Len(r) >= 8)
      BY <1>1, <2>1
    <3>2. \A n \in 0 .. 9 : ~(n >= 8) => n \in 0 .. 7
      OBVIOUS
    <3> QED  BY <3>1, <3>2, <1>4, Zenon
  <2>6. CASE Len(r) = 0
    <3>1. ~F.inrec /\ Len(F.rec) = 0
      BY <1>2, <2>6
    <3>2. ~t.inrec /\ ~t.esc /\ t.rec = F.rec
      BY <3>1, <2>2, <2>3, Zenon DEF Parsed, Follows
    <3> QED  BY <3>1, <3>2, <2>1, <2>4, <2>6 DEF EndShape
  <2>7. CASE Len(r) \in 1 .. 7
    <3>1. F.inrec /\ Len(F.rec) = 7 - Len(r) /\ Len(F.rec) < 7
      <4>1. \A n \in 1 .. 7 : n \in 1 .. 8 /\ 7 - n < 7
        OBVIOUS
      <4> QED  BY <4>1, <1>2, <2>1, <2>7, Zenon
    <3>2. t.inrec /\ ~t.esc /\ t.rec = Append(F.rec, Unescaped(F, w.push))
      BY <3>1, <2>2, <2>3, Zenon DEF Parsed, Follows
    <3>3. Len(t.rec) = 8 - Len(r)
      BY <3>1, <3>2, <1>40, <2>1, <2>7
    <3> QED  BY <3>2, <3>3, <2>1, <2>4, <2>7 DEF EndShape
  <2> QED  BY <2>5, <2>6, <2>7
<1>7. CASE SendsRec(v, w)
  <2> DEFINE z == Tail(r)
  <2>1. v.esc = NoByte /\ r # <<>> /\ w.rec = z /\ PushedAs(w, Head(r), Len(r) # 9)
    BY <1>7 DEF SendsRec, RecLen
  <2>2. /\ Len(r) \in 1 .. 9 /\ Head(r) = r[1] /\ r[1] \in Char /\ Len(z) = Len(r) - 1 /\ z \in Seq(Char)
        /\ \A i \in 1 .. Len(r) - 1 : z[i] = r[i + 1]
        /\ z = <<>> <=> Len(r) = 1
    BY <2>1, <1>1, <1>4, TailFacts
  <2>3. ~F.esc
    BY <2>1, <1>2
  <2> HIDE DEF r, z
  <2>4. w.esc \in {NoByte, DC, DD} /\ (Len(r) = 9 => w.esc = NoByte)
    BY <2>1, <1>1, Zenon DEF PushedAs, EscOf
  <2>5. RecShape(w)
    <3>1. w.rec \in Seq(Char) /\ Len(w.rec) = Len(r) - 1
      BY <2>1, <2>2
    <3>2. w.rec # <<>> => w.rec[Len(w.rec)] \in 0 .. 3
      <4>1. w.rec # <<>> => Len(r) - 1 \in 1 .. Len(r) - 1 /\ (Len(r) - 1) + 1 = Len(r)
        BY <2>1, <2>2
      <4> QED  BY <4>1, <3>1, <2>1, <2>2, <1>1
    <3>3. Len(w.rec) <= 9 /\ Len(w.rec) # 9 /\ (Len(w.rec) >= 8 => Len(r) = 9)
      BY <3>1, <2>2
    <3> QED  BY <3>1, <3>2, <3>3, <2>4, Zenon DEF RecShape, RecFits, RecLen
  <2>6. CASE Len(r) = 1
    <3>1. w.push = r[1] /\ w.esc = NoByte /\ w.push \in 0 .. 3 /\ Len(w.rec) = 0
      BY <2>1, <2>2, <2>6, <1>1, BytesAre DEF PushedAs
    <3>2. w.push \in Octet /\ w.push \notin Special /\ w.push # NoByte
      BY <3>1, BytesAre
    <3>3. F.inrec /\ Len(F.rec) = 7
      BY <2>1, <2>6, <1>2, <1>40
    <3>4. ~t.inrec /\ ~t.esc /\ t.rec = <<>>
      BY <3>2, <3>3, <1>3, Zenon DEF Parsed, Follows
    <3>5. Len(t.rec) = 0
      BY <3>4
    <3> QED  BY <3>1, <3>4, <3>5, <2>5 DEF EndShape
  <2>7. CASE Len(r) \in 2 .. 8
    <3>1. Len(w.rec) = Len(r) - 1 /\ Len(w.rec) \in 1 .. 7
      BY <2>1, <2>2, <2>7
    <3>2. F.inrec /\ Len(F.rec) = 8 - Len(r) /\ Len(F.rec) < 7
      <4>1. \A n \in 2 .. 8 : n \in 1 .. 8 /\ 8 - n < 7
        OBVIOUS
      <4> QED  BY <4>1, <1>2, <2>1, <2>7, Zenon
    <3>3. CASE r[1] \in Special
      <4>1. w.push = DB /\ w.esc \in {DC, DD}
        BY <2>1, <2>2, <2>7, <3>3 DEF PushedAs, EscOf
      <4>2. t.inrec /\ t.esc /\ t.rec = F.rec
        BY <4>1, <3>2, <1>3, BytesAre, Zenon DEF Parsed, Follows
      <4>3. w.esc # NoByte
        BY <4>1, BytesAre
      <4>4. Len(t.rec) = 7 - Len(w.rec)
        BY <4>2, <3>1, <3>2, <2>7
      <4> QED  BY <4>2, <4>3, <4>4, <3>1, <2>5 DEF EndShape
    <3>4. CASE r[1] \notin Special
      <4>1. w.push = r[1] /\ w.esc = NoByte
        BY <2>1, <2>2, <2>7, <3>4 DEF PushedAs
      <4>2. w.push \in Octet /\ w.push # NoByte
        BY <4>1, <2>2, BytesAre
      <4>3. t.inrec /\ ~t.esc /\ t.rec = Append(F.rec, Unescaped(F, w.push))
        BY <4>1, <4>2, <3>2, <3>4, <1>3, Zenon DEF Parsed, Follows
      <4>4. Len(t.rec) = 8 - Len(w.rec)
        BY <4>3, <3>1, <3>2, <2>7, <1>40
      <4> QED  BY <4>1, <4>3, <4>4, <3>1, <2>5 DEF EndShape
    <3> QED  BY <3>3, <3>4
  <2>8. CASE Len(r) = 9
    <3>1. w.push = C0 /\ w.esc = NoByte
      BY <2>1, <2>2, <2>8, <1>1 DEF PushedAs
    <3>2. Len(w.rec) = 8
      BY <2>1, <2>2, <2>8
    <3>3. t.inrec /\ ~t.esc /\ t.rec = <<>>
      BY <3>1, <1>3, BytesAre, Zenon DEF Parsed, Follows
    <3>4. Len(t.rec) = 0
      BY <3>3
    <3> QED  BY <3>1, <3>2, <3>3, <3>4, <2>5 DEF EndShape
  <2>9. Len(r) = 1 \/ Len(r) \in 2 .. 8 \/ Len(r) = 9
    <3>1. \A n \in 1 .. 9 : n = 1 \/ n \in 2 .. 8 \/ n = 9
      OBVIOUS
    <3> QED  BY <3>1, <2>2, Zenon
  <2> QED  BY <2>6, <2>7, <2>8, <2>9
<1>8. CASE SendsData(v, w)
  <2>1. /\ v.esc = NoByte /\ r = <<>> /\ w.rec = <<>> /\ v.dbuf # NoByte /\ PushedAs(w, v.dbuf, TRUE) /\ v.dbuf \in Octet
        /\ Len(r) = 0
    BY <1>4, <1>8 DEF SendsData, take_d, UartType
  <2> HIDE DEF r
  <2>2. ~F.inrec /\ ~F.esc /\ Len(F.rec) = 0
    BY <2>1, <1>2
  <2>3. w.esc \in {NoByte, DC, DD} /\ Len(w.rec) = 0
    BY <2>1 DEF PushedAs, EscOf
  <2>4. RecShape(w)
    <3>1. w.rec \in Seq(Char)
      BY <2>1
    <3> QED  BY <3>1, <2>1, <2>3 DEF RecShape, RecFits, RecLen
  <2>5. CASE v.dbuf \in Special
    <3>1. w.push = DB /\ w.esc # NoByte
      BY <2>1, <2>5, BytesAre, Zenon DEF PushedAs, EscOf
    <3>2. ~t.inrec /\ t.esc /\ t.rec = F.rec
      BY <3>1, <2>2, <1>3, BytesAre, Zenon DEF Parsed, Follows
    <3> QED  BY <3>1, <3>2, <2>2, <2>3, <2>4 DEF EndShape
  <2>6. CASE v.dbuf \notin Special
    <3>1. w.push = v.dbuf /\ w.esc = NoByte
      BY <2>1, <2>6 DEF PushedAs
    <3>2. ~t.inrec /\ ~t.esc /\ t.rec = F.rec
      BY <3>1, <2>1, <2>2, <2>6, <1>3, Zenon DEF Parsed, Follows
    <3> QED  BY <3>1, <3>2, <2>2, <2>3, <2>4 DEF EndShape
  <2> QED  BY <2>5, <2>6
<1> QED  BY <1>5, <1>6, <1>7, <1>8

\* What it makes of the runs: the bytes of the trial under way move on, or the record
\* does, and begins a run when its flags are pushed.
Left(v) == IF take_d(v) THEN <<>> ELSE Waiting(v.dbuf)
BytesMove(v, w, rs, new) ==
  /\ new \in Seq(RunType) /\ Len(new) = Len(rs)
  /\ \A j \in 1 .. Len(rs) :
       /\ new[j].trial = rs[j].trial /\ new[j].flags_prev = rs[j].flags_prev
       /\ IF j # Len(rs) THEN new[j].data = rs[j].data
          ELSE new[j].data \o Escaping(w.esc) \o Left(v) = rs[j].data \o Escaping(v.esc) \o Waiting(v.dbuf)
RecordMoves(v, w, F, t) ==
  IF w.rec # <<>>
  THEN t.runs = F.runs /\ w.rec[Len(w.rec)] = v.rec[Len(v.rec)] /\ PendTrial(w, t) = PendTrial(v, F)
  ELSE Begins(F.runs, PendTrial(v, F), v.rec[Len(v.rec)], t.runs) /\ w.esc = NoByte

LEMMA EscapesTyped ==
  ASSUME NEW x \in Octet
  PROVE  Escaping(x) \in Seq(Octet) /\ Waiting(x) \in Seq(Octet)
<1>1. <<x>> \in Seq(Octet) /\ <<C0>> \in Seq(Octet) /\ <<DB>> \in Seq(Octet) /\ <<>> \in Seq(Octet)
  BY BytesAre
<1> QED  BY <1>1, Zenon DEF Escaping, Waiting, Unhidden

LEMMA DataMoves ==
  ASSUME NEW v \in UartType, NEW w, NEW F \in ParserType, RecKept(F), RecShape(v), EndShape(v, F), v.rec = <<>>,
         Idles(v, w) \/ SendsEsc(v, w) \/ SendsRec(v, w) \/ SendsData(v, w),
         NEW t, t = IF w.push = NoByte THEN F ELSE Byte(F, w.push)
  PROVE  w.rec = <<>> /\ BytesMove(v, w, F.runs, t.runs)
<1>1. ~F.inrec /\ (F.esc <=> v.esc # NoByte) /\ F.rec = <<>> /\ v.esc \in {NoByte, DC, DD} /\ F.runs \in Seq(RunType)
  BY DEF EndShape, RecShape, ParserType, One
<1>2. \A x \in Octet : Parsed(F, x, Byte(F, x))
  BY ByteParsed
<1>3. v.dbuf \in Octet /\ v.esc \in Octet
  BY DEF UartType
<1>4. \A j \in 1 .. Len(F.runs) : F.runs[j].data \in Seq(Octet)
  <2>1. \A j \in 1 .. Len(F.runs) : F.runs[j] \in RunType
    BY <1>1
  <2> QED  BY <2>1, Zenon DEF RunType
<1>5. Escaping(NoByte) = <<>> /\ Waiting(NoByte) = <<>>
  BY DEF Escaping, Waiting
<1>6. \A s \in Seq(Octet) : s \o <<>> = s
  BY ConcatEmptySeq
<1>7. \A s \in Seq(Octet), x \in Octet : s \o <<x>> = Append(s, x) /\ Append(s, x) \in Seq(Octet)
  OBVIOUS
<1>8. CASE Idles(v, w)
  <2>1. w.rec = <<>> /\ w.esc = v.esc /\ t = F /\ Left(v) = Waiting(v.dbuf)
    BY <1>8 DEF Idles, Left
  <2> QED  BY <2>1, <1>1 DEF BytesMove
<1>9. CASE SendsEsc(v, w)
  <2>1. w.push = v.esc /\ v.esc \in {DC, DD} /\ w.esc = NoByte /\ w.rec = <<>> /\ Left(v) = Waiting(v.dbuf) /\ F.esc
    BY <1>1, <1>9 DEF SendsEsc, Left
  <2> DEFINE x == Unescaped(F, v.esc)
  <2>2. Joins(F.runs, x, t.runs)
    BY <2>1, <1>1, <1>2, BytesAre DEF Parsed
  <2>3. x \in Octet /\ Escaping(v.esc) = <<x>>
    BY <2>1, BytesAre DEF Unescaped, Escaping, Unhidden
  <2> HIDE DEF x
  <2>4. ASSUME NEW j \in 1 .. Len(F.runs), j = Len(F.runs)
        PROVE  t.runs[j].data \o Escaping(w.esc) \o Left(v) = F.runs[j].data \o Escaping(v.esc) \o Waiting(v.dbuf)
    <3>1. t.runs[j].data = Append(F.runs[j].data, x) /\ Append(F.runs[j].data, x) \in Seq(Octet)
      BY <2>2, <2>3, <2>4, <1>4, <1>7 DEF Joins
    <3>2. t.runs[j].data \o <<>> = F.runs[j].data \o <<x>>
      BY <3>1, <2>3, <1>4, <1>6, <1>7
    <3> QED  BY <3>2, <2>1, <2>3, <1>5
  <2> QED  BY <2>1, <2>2, <2>4 DEF Joins, BytesMove
<1>10. CASE SendsData(v, w)
  <2>1. /\ v.esc = NoByte /\ w.rec = <<>> /\ v.dbuf # NoByte /\ PushedAs(w, v.dbuf, TRUE)
        /\ Left(v) = <<>> /\ Waiting(v.dbuf) = <<v.dbuf>> /\ ~F.esc
    BY <1>1, <1>10 DEF SendsData, take_d, Left, Waiting
  <2>2. CASE v.dbuf \in Special
    <3>1. w.push = DB /\ w.esc = EscOf(v.dbuf)
      BY <2>1, <2>2 DEF PushedAs
    <3>2. t.runs = F.runs
      BY <3>1, <1>2, BytesAre DEF Parsed
    <3>3. Escaping(w.esc) = <<v.dbuf>>
      BY <3>1, <2>2, BytesAre DEF EscOf, Escaping, Unhidden, Special
    <3>4. ASSUME NEW j \in 1 .. Len(F.runs)
          PROVE  F.runs[j].data \o Escaping(w.esc) \o Left(v) = F.runs[j].data \o Escaping(v.esc) \o Waiting(v.dbuf)
      <4>1. F.runs[j].data \o <<v.dbuf>> \in Seq(Octet) /\ F.runs[j].data \o <<>> = F.runs[j].data
        BY <1>3, <1>4, <1>6, <1>7
      <4>2. (F.runs[j].data \o <<v.dbuf>>) \o <<>> = (F.runs[j].data \o <<>>) \o <<v.dbuf>>
        BY <4>1, <1>6
      <4> QED  BY <4>2, <3>3, <2>1, <1>5
    <3> QED  BY <3>2, <3>4, <2>1, <1>1 DEF BytesMove
  <2>3. CASE v.dbuf \notin Special
    <3>1. w.push = v.dbuf /\ w.esc = NoByte
      BY <2>1, <2>3 DEF PushedAs
    <3>2. Joins(F.runs, v.dbuf, t.runs)
      <4>1. Unescaped(F, v.dbuf) = v.dbuf
        BY <2>1 DEF Unescaped
      <4> QED  BY <4>1, <3>1, <2>1, <2>3, <1>1, <1>2, <1>3 DEF Parsed
    <3>3. ASSUME NEW j \in 1 .. Len(F.runs), j = Len(F.runs)
          PROVE  t.runs[j].data \o Escaping(w.esc) \o Left(v) = F.runs[j].data \o Escaping(v.esc) \o Waiting(v.dbuf)
      <4>1. t.runs[j].data = F.runs[j].data \o <<v.dbuf>> /\ t.runs[j].data \in Seq(Octet)
        BY <3>2, <3>3, <1>3, <1>4, <1>7 DEF Joins
      <4>2. (t.runs[j].data \o <<>>) \o <<>> = (F.runs[j].data \o <<>>) \o <<v.dbuf>>
        BY <4>1, <1>4, <1>6
      <4> QED  BY <4>2, <3>1, <2>1, <1>5
    <3> QED  BY <3>2, <3>3, <2>1 DEF Joins, BytesMove
  <2> QED  BY <2>2, <2>3
<1>11. ~SendsRec(v, w)
  BY DEF SendsRec
<1> QED  BY <1>8, <1>9, <1>10, <1>11

\* The byte i of a record, wherever it is.
AtByte(v, F, n, i) ==
  /\ i > 8 - n => i - (8 - n) \in 1 .. n /\ BodyAt(v, F, i) = v.rec[i - (8 - n)]
  /\ i = 8 - n /\ v.esc # NoByte => BodyAt(v, F, i) = Unhidden(v.esc)
  /\ i = 8 - n /\ v.esc = NoByte => BodyAt(v, F, i) = F.rec[i]
  /\ i < 8 - n => BodyAt(v, F, i) = F.rec[i]

LEMMA BodyCases ==
  ASSUME NEW v, NEW F, NEW n \in 0 .. 9, n = Len(v.rec), NEW i \in 1 .. 8
  PROVE  AtByte(v, F, n, i)
<1> DEFINE k == i - (8 - n)
<1>1. /\ i > 8 - n => k > 0 /\ k \in 1 .. n
      /\ i = 8 - n => ~(k > 0) /\ k = 0
      /\ i < 8 - n => ~(k > 0) /\ k # 0
  OBVIOUS
<1>2. BodyAt(v, F, i) = IF k > 0 THEN v.rec[k] ELSE IF k = 0 /\ v.esc # NoByte THEN Unhidden(v.esc) ELSE F.rec[i]
  BY Zenon DEF BodyAt
<1> HIDE DEF k
<1>3. /\ i > 8 - n => k \in 1 .. n /\ BodyAt(v, F, i) = v.rec[k]
      /\ i = 8 - n /\ v.esc # NoByte => BodyAt(v, F, i) = Unhidden(v.esc)
      /\ i = 8 - n /\ v.esc = NoByte => BodyAt(v, F, i) = F.rec[i]
      /\ i < 8 - n => BodyAt(v, F, i) = F.rec[i]
  BY <1>1, <1>2, Zenon
<1> QED  BY <1>3 DEF k, AtByte

LEMMA RecMoves ==
  ASSUME NEW v \in UartType, NEW w, NEW F \in ParserType, RecKept(F), RecShape(v), EndShape(v, F), v.rec # <<>>,
         Idles(v, w) \/ SendsEsc(v, w) \/ SendsRec(v, w) \/ SendsData(v, w),
         NEW t, t = IF w.push = NoByte THEN F ELSE Byte(F, w.push)
  PROVE  ~take_d(v) /\ RecordMoves(v, w, F, t)
<1> DEFINE r == v.rec
           L == Len(r)
<1>1. /\ r \in Seq(Char) /\ L <= 9 /\ r[L] \in 0 .. 3 /\ r # <<>>
      /\ L = 9 => r[1] = C0
      /\ L >= 8 => v.esc = NoByte
      /\ v.esc \in {NoByte, DC, DD}
  BY DEF RecShape, RecFits, RecLen
<1>2. /\ F.inrec <=> L \in 1 .. 8
      /\ F.esc <=> v.esc # NoByte
      /\ L \in 1 .. 8 /\ v.esc = NoByte => Len(F.rec) = 8 - L
      /\ L \in 1 .. 8 /\ v.esc # NoByte => Len(F.rec) = 7 - L
      /\ F.rec \in Seq(Octet)
  BY DEF EndShape, ParserType
<1>3. \A x \in Octet : Parsed(F, x, Byte(F, x))
  BY ByteParsed
<1>4. ~take_d(v) /\ ~SendsData(v, w)
  BY DEF take_d, rec_go, SendsData
<1> DEFINE z == Tail(r)
<1>5. /\ L \in 1 .. 9 /\ Head(r) = r[1] /\ r[1] \in Char /\ Len(z) = L - 1
      /\ \A i \in 1 .. L - 1 : z[i] = r[i + 1]
      /\ z = <<>> <=> L = 1
  <2>1. /\ L \in Nat /\ L >= 1 /\ Head(r) = r[1] /\ r[1] \in Char /\ Len(z) = L - 1
        /\ \A i \in 1 .. L - 1 : z[i] = r[i + 1]
        /\ z = <<>> <=> L = 1
    BY <1>1, TailFacts
  <2>2. \A n \in Nat : n >= 1 /\ n <= 9 => n \in 1 .. 9
    OBVIOUS
  <2> QED  BY <2>1, <2>2, <1>1, Zenon
<1>6. \A y : /\ Len(Append(F.rec, y)) = Len(F.rec) + 1 /\ Append(F.rec, y)[Len(F.rec) + 1] = y
             /\ \A i \in 1 .. Len(F.rec) : Append(F.rec, y)[i] = F.rec[i]
  <2>1. \A S, y : F.rec \in Seq(S) => /\ Len(Append(F.rec, y)) = Len(F.rec) + 1 /\ Append(F.rec, y)[Len(F.rec) + 1] = y
                                      /\ \A i \in 1 .. Len(F.rec) : Append(F.rec, y)[i] = F.rec[i]
    OBVIOUS
  <2> QED  BY <2>1, <1>2
<1>60. L \in 0 .. 9 /\ L = Len(v.rec)
  BY <1>5
<1>62. \A i \in 1 .. 8 : AtByte(v, F, L, i)
  BY <1>60, BodyCases
<1>61. ASSUME \A i \in 1 .. 8 : BodyAt(w, t, i) = BodyAt(v, F, i)
       PROVE  PendTrial(w, t) = PendTrial(v, F)
  BY <1>61 DEF PendTrial
<1> HIDE DEF r, L, z
<1>7. CASE Idles(v, w)
  <2>1. w.rec = v.rec /\ w.esc = v.esc /\ t = F
    BY <1>7 DEF Idles
  <2>2. PendTrial(w, t) = PendTrial(v, F)
    BY <2>1 DEF PendTrial, BodyAt
  <2> QED  BY <2>1, <2>2, <1>4, Zenon DEF RecordMoves
<1>8. CASE SendsEsc(v, w)
  <2>1. w.push = v.esc /\ v.esc \in {DC, DD} /\ w.esc = NoByte /\ w.rec = v.rec /\ v.esc # NoByte
    BY <1>1, <1>8 DEF SendsEsc
  <2>2. L \in 1 .. 7 /\ F.inrec /\ F.esc /\ Len(F.rec) = 7 - L /\ Len(F.rec) < 7
    <3>1. \A n \in 1 .. 9 : ~(n >= 8) => n \in 1 .. 7 /\ n \in 1 .. 8 /\ 7 - n < 7
      OBVIOUS
    <3> QED  BY <2>1, <3>1, <1>1, <1>2, <1>5, Zenon
  <2> DEFINE y == Unescaped(F, v.esc)
  <2>3. t.runs = F.runs /\ t.rec = Append(F.rec, y)
    <3>1. v.esc \in Octet /\ v.esc \notin Special
      BY <2>1, BytesAre
    <3>2. t = Byte(F, v.esc)
      BY <2>1
    <3> QED  BY <2>2, <3>1, <3>2, <1>3, Zenon DEF Parsed
  <2>4. y = Unhidden(v.esc)
    BY <2>2 DEF Unescaped, Unhidden
  <2> HIDE DEF y
  <2>5. ASSUME NEW i \in 1 .. 8  PROVE  BodyAt(w, t, i) = BodyAt(v, F, i)
    <3>1. L \in 0 .. 9 /\ L = Len(v.rec) /\ L = Len(w.rec)
      BY <2>1, <1>60
    <3>5. AtByte(w, t, L, i)
      BY <3>1, BodyCases
    <3>2. CASE i > 8 - L
      BY <3>2, <3>5, <2>1, <1>62, Zenon DEF AtByte
    <3>3. CASE i = 8 - L
      <4>1. BodyAt(w, t, i) = t.rec[i] /\ BodyAt(v, F, i) = y
        BY <3>3, <3>5, <2>1, <2>4, <1>62, Zenon DEF AtByte
      <4>2. i = Len(F.rec) + 1
        BY <3>3, <2>2
      <4> QED  BY <4>1, <4>2, <2>3, <1>6, Zenon
    <3>4. CASE i < 8 - L
      <4>1. BodyAt(w, t, i) = t.rec[i] /\ BodyAt(v, F, i) = F.rec[i]
        BY <3>4, <3>5, <1>62, Zenon DEF AtByte
      <4>2. i \in 1 .. Len(F.rec)
        BY <3>4, <2>2
      <4> QED  BY <4>1, <4>2, <2>3, <1>6, Zenon
    <3> QED  BY <3>1, <3>2, <3>3, <3>4
  <2> QED  BY <2>1, <2>3, <2>5, <1>4, <1>61, Zenon DEF RecordMoves
<1>9. CASE SendsRec(v, w)
  <2>1. v.esc = NoByte /\ w.rec = z /\ PushedAs(w, r[1], L # 9) /\ ~F.esc
    BY <1>2, <1>5, <1>9 DEF SendsRec, RecLen, z, r, L
  <2>2. Len(w.rec) = L - 1 /\ Len(w.rec) \in 0 .. 9
    BY <2>1, <1>5
  <2>3. CASE L = 1
    <3>1. w.push = r[1] /\ w.esc = NoByte /\ w.push \in 0 .. 3 /\ w.rec = <<>>
      BY <2>1, <2>3, <1>1, <1>5, BytesAre DEF PushedAs
    <3>2. w.push \in Octet /\ w.push \notin Special /\ w.push # NoByte
      BY <3>1, BytesAre
    <3>3. F.inrec /\ Len(F.rec) = 7
      BY <2>1, <2>3, <1>2
    <3>4. Begins(F.runs, F.rec[2] * 256 + F.rec[3], r[1], t.runs)
      <4>1. Unescaped(F, w.push) = r[1]
        BY <2>1, <3>1 DEF Unescaped
      <4> QED  BY <4>1, <3>2, <3>3, <1>3, Zenon DEF Parsed
    <3>5. PendTrial(v, F) = F.rec[2] * 256 + F.rec[3]
      <4>1. 2 \in 1 .. 8 /\ 3 \in 1 .. 8 /\ 2 < 8 - L /\ 3 < 8 - L
        BY <2>3
      <4> QED  BY <4>1, <1>62, Zenon DEF PendTrial, AtByte
    <3>6. v.rec[Len(v.rec)] = r[1]
      BY <2>3 DEF r, L
    <3> QED  BY <3>1, <3>4, <3>5, <3>6, <1>4, Zenon DEF RecordMoves
  <2>4. CASE L \in 2 .. 8
    <3>1. F.inrec /\ Len(F.rec) = 8 - L /\ Len(F.rec) < 7
      <4>1. \A n \in 2 .. 8 : n \in 1 .. 8 /\ 8 - n < 7
        OBVIOUS
      <4> QED  BY <2>1, <2>4, <4>1, <1>2, Zenon
    <3>2. /\ t.runs = F.runs
          /\ \/ w.esc # NoByte /\ Unhidden(w.esc) = r[1] /\ t.rec = F.rec
             \/ w.esc = NoByte /\ t.rec = Append(F.rec, r[1])
      <4>0. L # 9
        BY <2>4
      <4>1. CASE r[1] \in Special
        <5>1. w.push = DB /\ w.esc = EscOf(r[1])
          BY <2>1, <4>0, <4>1, Zenon DEF PushedAs
        <5>2. t = Byte(F, DB) /\ DB \in Octet
          BY <5>1, BytesAre
        <5>3. t.runs = F.runs /\ t.rec = F.rec
          BY <5>2, <1>3, Zenon DEF Parsed
        <5>4. w.esc # NoByte /\ Unhidden(w.esc) = r[1]
          BY <4>1, <5>1, BytesAre DEF EscOf, Special, Unhidden
        <5> QED  BY <5>3, <5>4
      <4>2. CASE r[1] \notin Special
        <5>1. w.push = r[1] /\ w.esc = NoByte
          BY <2>1, <4>0, <4>2, Zenon DEF PushedAs
        <5>2. r[1] \in Octet /\ t = Byte(F, r[1]) /\ Unescaped(F, r[1]) = r[1]
          BY <5>1, <2>1, <1>5, BytesAre DEF Unescaped
        <5>3. t.runs = F.runs /\ t.rec = Append(F.rec, r[1])
          BY <4>2, <5>2, <3>1, <1>3, Zenon DEF Parsed
        <5> QED  BY <5>1, <5>3
      <4> QED  BY <4>1, <4>2
    <3>3. ASSUME NEW i \in 1 .. 8  PROVE  BodyAt(w, t, i) = BodyAt(v, F, i)
      <4> DEFINE M == L - 1
      <4>1. M \in 0 .. 9 /\ M = Len(w.rec)
        BY <2>2
      <4>2. 8 - M = 9 - L
        BY <1>60
      <4> HIDE DEF M
      <4>7. AtByte(w, t, M, i)
        BY <4>1, BodyCases
      <4>3. CASE i > 9 - L
        <5>1. BodyAt(w, t, i) = z[i - (9 - L)]
          BY <4>2, <4>3, <4>7, <2>1, Zenon DEF AtByte
        <5>2. i > 8 - L /\ i - (9 - L) \in 1 .. L - 1 /\ (i - (9 - L)) + 1 = i - (8 - L)
          BY <4>3, <1>60
        <5>3. BodyAt(v, F, i) = r[i - (8 - L)]
          BY <5>2, <1>62, Zenon DEF AtByte, r
        <5> QED  BY <5>1, <5>2, <5>3, <1>5, Zenon
      <4>4. CASE i = 9 - L
        <5>1. BodyAt(v, F, i) = r[1]
          <6>1. i > 8 - L /\ i - (8 - L) = 1
            BY <4>4, <1>60
          <6> QED  BY <6>1, <1>62, Zenon DEF AtByte, r
        <5>2. CASE w.esc # NoByte
          <6>1. BodyAt(w, t, i) = Unhidden(w.esc)
            BY <4>2, <4>4, <4>7, <5>2, Zenon DEF AtByte
          <6> QED  BY <6>1, <5>1, <5>2, <3>2, Zenon
        <5>3. CASE w.esc = NoByte
          <6>1. BodyAt(w, t, i) = t.rec[i]
            BY <4>2, <4>4, <4>7, <5>3, Zenon DEF AtByte
          <6>2. i = Len(F.rec) + 1
            BY <3>1, <4>4, <1>60
          <6> QED  BY <6>1, <6>2, <5>1, <5>3, <3>2, <1>6, Zenon
        <5> QED  BY <5>2, <5>3
      <4>5. CASE i < 9 - L
        <5>1. BodyAt(w, t, i) = t.rec[i]
          BY <4>2, <4>5, <4>7, Zenon DEF AtByte
        <5>2. (i = 8 - L \/ i < 8 - L) /\ i \in 1 .. Len(F.rec)
          BY <3>1, <4>5, <1>60
        <5>3. BodyAt(v, F, i) = F.rec[i]
          BY <5>2, <2>1, <1>62, Zenon DEF AtByte
        <5>4. t.rec[i] = F.rec[i]
          BY <5>2, <3>2, <1>6, Zenon
        <5> QED  BY <5>1, <5>3, <5>4
      <4>6. i > 9 - L \/ i = 9 - L \/ i < 9 - L
        BY <1>60
      <4> QED  BY <4>3, <4>4, <4>5, <4>6
    <3>4. w.rec # <<>> /\ w.rec[Len(w.rec)] = v.rec[Len(v.rec)]
      <4>1. L # 1 /\ L - 1 \in 1 .. L - 1 /\ (L - 1) + 1 = L
        BY <2>4
      <4> QED  BY <4>1, <2>1, <2>2, <1>5, Zenon DEF r, L
    <3> QED  BY <3>2, <3>3, <3>4, <1>4, <1>61, Zenon DEF RecordMoves
  <2>5. CASE L = 9
    <3>1. w.push = C0 /\ w.esc = NoByte
      BY <2>1, <2>5, <1>1 DEF PushedAs
    <3>2. t.runs = F.runs
      <4>1. t = Byte(F, C0)
        BY <3>1, BytesAre
      <4> QED  BY <4>1, <1>3, BytesAre, Zenon DEF Parsed
    <3>3. ASSUME NEW i \in 1 .. 8  PROVE  BodyAt(w, t, i) = BodyAt(v, F, i)
      <4> DEFINE M == L - 1
      <4>1. M \in 0 .. 9 /\ M = Len(w.rec) /\ i > 8 - M /\ i - (8 - M) = i
        BY <2>2, <2>5
      <4>2. i > 8 - L /\ i - (8 - L) = i + 1 /\ i \in 1 .. L - 1
        BY <2>5
      <4> HIDE DEF M
      <4>7. AtByte(w, t, M, i)
        BY <4>1, BodyCases
      <4>3. BodyAt(w, t, i) = z[i]
        BY <4>1, <4>7, <2>1, Zenon DEF AtByte
      <4>4. BodyAt(v, F, i) = r[i + 1]
        BY <4>2, <1>62, Zenon DEF AtByte, r
      <4> QED  BY <4>2, <4>3, <4>4, <1>5, Zenon
    <3>4. w.rec # <<>> /\ w.rec[Len(w.rec)] = v.rec[Len(v.rec)]
      <4>1. L # 1 /\ L - 1 \in 1 .. L - 1 /\ (L - 1) + 1 = L
        BY <2>5
      <4> QED  BY <4>1, <2>1, <2>2, <1>5, Zenon DEF r, L
    <3> QED  BY <3>2, <3>3, <3>4, <1>4, <1>61, Zenon DEF RecordMoves
  <2>6. L = 1 \/ L \in 2 .. 8 \/ L = 9
    <3>1. \A n \in 1 .. 9 : n = 1 \/ n \in 2 .. 8 \/ n = 9
      OBVIOUS
    <3> QED  BY <3>1, <1>5, Zenon
  <2> QED  BY <2>3, <2>4, <2>5, <2>6
<1> QED  BY <1>4, <1>7, <1>8, <1>9

-----------------------------------------------------------------------------
(* The delay of what is in flight, and of a record in the sequencer.         *)

LEMMA FlightTyped ==
  ASSUME NEW v \in UartType
  PROVE  /\ v.nb \in Nat /\ used(v) \in Nat /\ InFlight(v) \in Nat /\ InFlight(v) = framed(v) + used(v) + pushing(v)
         /\ framed(v) \in 0 .. 1 /\ (framed(v) = 1 <=> v.nb # 0)
         /\ pushing(v) \in 0 .. 1 /\ (pushing(v) = 1 <=> v.push # NoByte)
<1>1. v.nb \in Nat /\ used(v) \in Nat
  BY DEF UartType, used
<1>2. framed(v) \in 0 .. 1 /\ (framed(v) = 1 <=> v.nb # 0) /\ pushing(v) \in 0 .. 1 /\ (pushing(v) = 1 <=> v.push # NoByte)
  BY OneTyped DEF framed, pushing
<1>3. InFlight(v) \in Nat
  BY <1>1, <1>2 DEF InFlight
<1> QED  BY <1>1, <1>2, <1>3 DEF InFlight

\* Every byte in flight is a cycle nearer to the host, and so is a record that the
\* sequencer pushes as soon as the line is idle.
LEMMA DelayStep ==
  ASSUME NEW v \in UartType, NEW w \in UartType, LineMoves(v, w), NEW k \in Nat, k >= 1,
         InFlight(v) >= 1 \/ pushing(w) = 1
  PROVE  Delay(w, k - One(Delivers(v))) <= Delay(v, k) - 1
<1> DEFINE d == One(Delivers(v))
           m == k - framed(v)
           n == (k - d) - framed(w)
<1>1. /\ v.nb \in Nat /\ used(v) \in Nat /\ framed(v) \in 0 .. 1 /\ (framed(v) = 1 <=> v.nb # 0)
      /\ w.nb \in Nat /\ used(w) \in Nat /\ framed(w) \in 0 .. 1 /\ (framed(w) = 1 <=> w.nb # 0)
      /\ pushing(v) \in 0 .. 1 /\ pushing(w) \in 0 .. 1
      /\ InFlight(v) = framed(v) + used(v) + pushing(v)
  BY FlightTyped
<1>2. d \in 0 .. 1 /\ (d = 1 <=> v.nb = 1)
  BY OneTyped DEF Delivers
<1>3. /\ Delay(v, k) = v.nb + Frames(m) + Pos(m - used(v)) + Pos(m - used(v) - pushing(v))
      /\ Delay(w, k - d) = w.nb + Frames(n) + Pos(n - used(w)) + Pos(n - used(w) - pushing(w))
  BY DEF Delay
<1> HIDE DEF d
<1> SUFFICES Delay(w, k - d) <= Delay(v, k) - 1
  BY DEF d
<1>4. PICK pop \in 0 .. 1 :
        /\ used(w) = used(v) - pop + pushing(v)
        /\ framed(w) = framed(v) - d + pop
        /\ pop = 1 => v.nb = 0 /\ w.nb = LINE /\ used(v) >= 1
        /\ pop = 0 => IF v.nb = 0 THEN used(v) = 0 /\ w.nb = 0 ELSE w.nb = v.nb - 1
  BY DEF LineMoves, d
<1>5. m \in Int /\ n \in Int /\ m >= 0
  BY <1>1, <1>2
<1>6. Frames(m) \in Int /\ Frames(n) \in Int /\ Frames(m - 1) = Frames(m) - (LINE + 1) /\ LINE \in Nat
  BY <1>5, FramesLinear, BoardUartAssumption
<1>7. CASE pop = 1
  <2>1. n = m - 1 /\ w.nb = LINE /\ v.nb = 0
    BY <1>1, <1>2, <1>4, <1>7
  <2>2. n - used(w) = m - used(v) - pushing(v) /\ n - used(w) - pushing(w) <= m - used(v) - pushing(v)
    BY <2>1, <1>1, <1>4, <1>5, <1>7
  <2> HIDE DEF m, n
  <2>3. Pos(n - used(w)) + Pos(n - used(w) - pushing(w)) <= Pos(m - used(v)) + Pos(m - used(v) - pushing(v))
    BY <2>2, <1>1, <1>5 DEF Pos
  <2> QED  BY <2>1, <2>3, <1>1, <1>3, <1>5, <1>6 DEF Pos
<1>8. CASE pop = 0 /\ v.nb # 0
  <2>1. n = m /\ w.nb = v.nb - 1 /\ used(w) = used(v) + pushing(v)
    BY <1>1, <1>2, <1>4, <1>8
  <2> HIDE DEF m, n
  <2>2. Pos(n - used(w)) + Pos(n - used(w) - pushing(w)) <= Pos(m - used(v)) + Pos(m - used(v) - pushing(v))
    BY <2>1, <1>1, <1>5 DEF Pos
  <2> QED  BY <2>1, <2>2, <1>1, <1>3, <1>5, <1>6 DEF Pos
<1>9. CASE pop = 0 /\ v.nb = 0
  <2>1. n = m /\ m = k /\ w.nb = 0 /\ used(v) = 0 /\ used(w) = pushing(v) /\ (pushing(v) = 1 \/ pushing(w) = 1)
    BY <1>1, <1>2, <1>4, <1>9
  <2> HIDE DEF m, n
  <2>2. Pos(n - used(w)) + Pos(n - used(w) - pushing(w)) <= Pos(m - used(v)) + Pos(m - used(v) - pushing(v)) - 1
    BY <2>1, <1>1, <1>5 DEF Pos
  <2> QED  BY <2>1, <2>2, <1>1, <1>3, <1>5, <1>6, <1>9 DEF Pos
<1> QED  BY <1>7, <1>8, <1>9

\* The delay is never 0, and bounded up to the end of the record.
LEMMA DelayBounded ==
  ASSUME NEW v \in UartType, RecFits(v), v.nb <= LINE,
         used(v) < DEPTH, v.push # NoByte => used(v) < DEPTH - 1,
         NEW k \in Nat, k >= 1
  PROVE  Delay(v, k) \in Int /\ Delay(v, k) >= 1 /\ (k <= RecEnd(v) => Delay(v, k) <= MaxDelay)
<1> DEFINE m == k - framed(v)
<1>1. /\ v.nb \in Nat /\ used(v) \in Nat /\ framed(v) \in 0 .. 1 /\ (framed(v) = 1 <=> v.nb # 0)
      /\ pushing(v) \in 0 .. 1 /\ (pushing(v) = 1 <=> v.push # NoByte)
      /\ InFlight(v) = framed(v) + used(v) + pushing(v)
  BY FlightTyped
<1>2. LINE \in Nat /\ DEPTH \in Nat /\ used(v) + pushing(v) <= DEPTH - 1
  BY <1>1, BoardUartAssumption
<1>3. Pushes(v) \in 0 .. 19
  <2>1. EscPush(v) \in 0 .. 1 /\ RecPushes(v) \in 0 .. 18
    BY PushesTyped
  <2> QED  BY <2>1 DEF Pushes
<1>4. Delay(v, k) = v.nb + Frames(m) + Pos(m - used(v)) + Pos(m - used(v) - pushing(v))
  BY DEF Delay
<1>5. m \in Int /\ m >= 0 /\ (m = 0 => v.nb >= 1)
  BY <1>1
<1>6. k <= RecEnd(v) => m <= used(v) + pushing(v) + Pushes(v)
  BY <1>1, <1>3 DEF RecEnd
<1>7. /\ Frames(m) \in Int /\ Frames(m) >= 0 /\ (m >= 1 => Frames(m) >= 1)
      /\ m <= DEPTH + 18 => Frames(m) <= Frames(DEPTH + 18)
      /\ Frames(DEPTH + 18) \in Int /\ Frames(DEPTH + 18) = Frames(DEPTH + 19) - (LINE + 1) /\ Frames(DEPTH + 19) \in Int
  <2>1. Frames(m) \in Int /\ Frames(0) = 0 /\ Frames(0) <= Frames(m)
    BY <1>5, FramesLinear, FramesMonotone
  <2>2. m >= 1 => Frames(m) >= 1
    <3>1. m - 1 \in Int /\ Frames(m - 1) = Frames(m) - (LINE + 1)
      BY <1>5, FramesLinear
    <3>2. m >= 1 => 0 <= m - 1
      BY <1>5
    <3>3. m >= 1 => Frames(0) <= Frames(m - 1)
      BY <3>1, <3>2, FramesMonotone
    <3> QED  BY <3>1, <3>3, <2>1, <1>2
  <2>3. DEPTH + 18 \in Int /\ DEPTH + 19 \in Int /\ (DEPTH + 19) - 1 = DEPTH + 18
    BY <1>2
  <2>4. Frames(DEPTH + 18) \in Int /\ Frames(DEPTH + 18) = Frames(DEPTH + 19) - (LINE + 1) /\ Frames(DEPTH + 19) \in Int
    BY <2>3, FramesLinear
  <2>5. m <= DEPTH + 18 => Frames(m) <= Frames(DEPTH + 18)
    BY <2>3, <1>5, FramesMonotone
  <2> QED  BY <2>1, <2>2, <2>4, <2>5
<1> HIDE DEF m
<1>8. Delay(v, k) \in Int /\ Delay(v, k) >= 1
  BY <1>1, <1>4, <1>5, <1>7 DEF Pos
<1>9. ASSUME k <= RecEnd(v)  PROVE  Delay(v, k) <= MaxDelay
  <2>1. m <= used(v) + pushing(v) + Pushes(v)
    BY <1>6, <1>9
  <2>2. m <= DEPTH + 18 /\ m - used(v) <= 20 /\ m - used(v) - pushing(v) <= 19
    BY <2>1, <1>1, <1>2, <1>3, <1>5
  <2>3. Pos(m - used(v)) <= 20 /\ Pos(m - used(v) - pushing(v)) <= 19 /\ Pos(m - used(v)) \in Int /\ Pos(m - used(v) - pushing(v)) \in Int
    BY <2>2, <1>1, <1>5 DEF Pos
  <2> QED  BY <2>2, <2>3, <1>1, <1>2, <1>4, <1>7 DEF MaxDelay
<1> QED  BY <1>8, <1>9

\* A byte behind another arrives later.
LEMMA DelayGrows ==
  ASSUME NEW v \in UartType, NEW j \in Int, NEW k \in Int, j <= k
  PROVE  Delay(v, j) \in Int /\ Delay(v, k) \in Int /\ Delay(v, j) <= Delay(v, k)
<1> DEFINE m == j - framed(v)
           n == k - framed(v)
<1>1. v.nb \in Nat /\ used(v) \in Nat /\ framed(v) \in 0 .. 1 /\ pushing(v) \in 0 .. 1
  BY FlightTyped
<1>2. m \in Int /\ n \in Int /\ m <= n
  BY <1>1
<1>3. /\ Delay(v, j) = v.nb + Frames(m) + Pos(m - used(v)) + Pos(m - used(v) - pushing(v))
      /\ Delay(v, k) = v.nb + Frames(n) + Pos(n - used(v)) + Pos(n - used(v) - pushing(v))
  BY DEF Delay
<1> HIDE DEF m, n
<1>4. Frames(m) \in Int /\ Frames(n) \in Int /\ Frames(m) <= Frames(n)
  BY <1>2, FramesLinear, FramesMonotone
<1> QED  BY <1>1, <1>2, <1>3, <1>4 DEF Pos

-----------------------------------------------------------------------------
(* A cycle extends the reading.                                              *)

LEMMA BareTyped ==
  ASSUME NEW s \in ParserType
  PROVE  /\ Bare(s) \in ParserType /\ Bare(s).runs = <<>>
         /\ Bare(s).esc = s.esc /\ Bare(s).inrec = s.inrec /\ Bare(s).rec = s.rec
         /\ s.runs = <<>> => Bare(s) = s
<1>1. <<>> \in Seq(RunType)
  OBVIOUS
<1> QED  BY <1>1 DEF Bare, ParserType

LEMMA HearTyped ==
  ASSUME NEW at, NEW s \in ParserType, RecKept(s), NEW x \in Octet
  PROVE  LET t == Hear(at, s, x)
             b == Byte(s, x)
         IN  /\ t \in ParserType /\ RecKept(t)
             /\ t.esc = b.esc /\ t.inrec = b.inrec /\ t.rec = b.rec
             /\ at = "wait" => t = b
             /\ at # "wait" => t.runs = <<>>
<1> DEFINE b == Byte(s, x)
           t == Hear(at, s, x)
<1>1. b \in ParserType /\ RecKept(b)
  BY ByteParsed
<1>2. CASE at = "wait"
  <2>1. t = b
    BY <1>2 DEF Hear
  <2> QED  BY <2>1, <1>1, <1>2
<1>3. CASE at # "wait"
  <2>1. t = Bare(b)
    BY <1>3 DEF Hear
  <2> HIDE DEF b, t
  <2>2. t \in ParserType /\ t.runs = <<>> /\ t.esc = b.esc /\ t.inrec = b.inrec /\ t.rec = b.rec
    BY <2>1, <1>1, BareTyped
  <2>3. RecKept(t)
    BY <2>2, <1>1 DEF RecKept
  <2> QED  BY <2>2, <2>3, <1>3 DEF b, t
<1> QED  BY <1>2, <1>3

\* A byte outside a record gives a parser without runs none.
LEMMA NoRunBegins ==
  ASSUME NEW s \in ParserType, RecKept(s), s.runs = <<>>, NEW x \in Octet, ~s.inrec \/ Byte(s, x).inrec
  PROVE  Byte(s, x).runs = <<>>
<1> DEFINE b == Byte(s, x)
<1>1. Parsed(s, x, b) /\ b \in ParserType /\ s.inrec \in BOOLEAN
  BY ByteParsed DEF ParserType
<1> HIDE DEF b
<1>2. b.runs = s.runs \/ Joins(s.runs, Unescaped(s, x), b.runs)
  <2>1. ~s.inrec \/ b.inrec
    BY DEF b
  <2>2. Len(s.rec) < 7 \/ Len(s.rec) = 7
    <3>1. \A n \in Nat : n <= 7 => n < 7 \/ n = 7
      OBVIOUS
    <3>2. Len(s.rec) \in Nat /\ Len(s.rec) <= 7
      BY DEF RecKept, ParserType
    <3> QED  BY <3>1, <3>2, Zenon
  <2> QED  BY <2>1, <2>2, <1>1, Zenon DEF Parsed, Special
<1>3. Joins(s.runs, Unescaped(s, x), b.runs) => b.runs = <<>>
  BY DEF Joins
<1> QED  BY <1>2, <1>3 DEF b

\* What the cycle from v to w makes of a reading: the byte delivered is gone from it, and
\* the one pushed is at its end.
Extends(at, v, w, ph, pn) ==
  LET d == One(Delivers(v))
      n == InFlight(v)
      m == InFlight(w)
  IN  /\ \A i \in 0 .. m : i + d <= n => pn[i] = ph[i + d]
      /\ pushing(w) = 0 => m + d = n /\ pn[m] = ph[n]
      /\ pushing(w) = 1 => m >= 1 /\ (m - 1) + d = n /\ pn[m - 1] = ph[n] /\ pn[m] = Hear(at, ph[n], w.push)

LEMMA ReadingStep ==
  ASSUME IInv, HostInv, NEW obs \in Octet, NEW ab \in BOOLEAN, NEW dn \in DutType, Cycle(obs, ab, dn),
         NEW ph, Reading(ph), \A i \in 0 .. InFlight(u) : RecKept(ph[i]), LoadInv(ph)
  PROVE  \E pn : /\ Reading(pn)' /\ Extends(pc, u, u', ph, pn)
                 /\ \A i \in 0 .. InFlight(u') : RecKept(pn[i])
<1> DEFINE d == One(Delivers(u))
           n == InFlight(u)
           m == InFlight(u')
           F == ph[n]
           t == Hear(pc, F, u'.push)
<1>1. u \in UartType /\ u' \in UartType /\ (\E cn \in COUNTS : u' = Clocked(u, dut.run, obs, ab, cn)) /\ dut.run \in BOOLEAN /\ pc' = pc
  BY CycleEdge
<1>2. /\ d \in 0 .. 1 /\ d <= framed(u) /\ n \in Nat /\ m \in Nat /\ m = n - d + pushing(u')
      /\ d = 1 => ByteAt(u, 1) = u.frame
      /\ \A i \in 1 .. m : /\ ByteAt(u', i) \in Octet
                           /\ ByteAt(u', i) = IF i + d <= n THEN ByteAt(u, i + d) ELSE u'.push
  <2>1. d = One(Delivers(u))
    OBVIOUS
  <2> HIDE DEF d
  <2> QED  BY <2>1, <1>1, ByteShift
<1>3. pushing(u') \in 0 .. 1 /\ d <= n
  BY <1>1, <1>2, FlightTyped
<1>4. /\ ph \in [0 .. n -> ParserType] /\ ph[0] = st
      /\ \A i \in 1 .. n : ph[i] = Hear(pc, ph[i - 1], ByteAt(u, i))
      /\ \A i \in 0 .. n : ph[i] \in ParserType /\ RecKept(ph[i])
  BY DEF Reading
<1>5. F \in ParserType /\ RecKept(F) /\ u'.push \in Octet
  BY <1>1, <1>2, <1>4 DEF UartType
<1>6. t \in ParserType /\ RecKept(t)
  BY <1>5, HearTyped
<1>7. Delivers(u) <=> d = 1
  BY OneTyped DEF Delivers
<1>8. u.frame \in Octet /\ st \in ParserType /\ RecKept(st)
  <2>1. u.frame \in Octet /\ 0 \in 0 .. n
    BY <1>1, <1>2 DEF UartType
  <2> QED  BY <2>1, <1>4
<1>9. st' = IF d = 1 THEN ph[1] ELSE ph[0]
  <2>1. CASE d = 0
    BY <2>1, <1>4, <1>7 DEF Cycle
  <2>2. CASE d = 1
    <3>1. Received(u.frame)
      BY <2>2, <1>7 DEF Cycle
    <3>2. ph[1] = Hear(pc, st, u.frame)
      <4>1. 1 \in 1 .. n /\ 1 - 1 = 0
        BY <2>2, <1>2, <1>3
      <4> QED  BY <4>1, <2>2, <1>2, <1>4
    <3>3. CASE pc = "wait"
      BY <3>1, <3>2, <3>3, <2>2 DEF Received, Hear
    <3>4. CASE pc = "load"
      <4>1. st' = Byte(st, u.frame)
        BY <3>1, <3>4 DEF Received
      <4>2. ~st.inrec /\ st.runs = <<>>
        BY <3>4, <1>2, <1>4 DEF LoadInv, NoRecord, HostInv
      <4>3. Byte(st, u.frame).runs = <<>> /\ Byte(st, u.frame) \in ParserType
        BY <4>2, <1>8, NoRunBegins, ByteParsed
      <4>4. Bare(Byte(st, u.frame)) = Byte(st, u.frame)
        BY <4>3, BareTyped
      <4> QED  BY <4>1, <4>4, <3>2, <3>4, <2>2 DEF Hear
    <3>5. CASE pc \notin {"load", "wait"}
      <4>1. st' = Bare(Byte(st, u.frame))
        BY <3>1, <3>5 DEF Received, Bare
      <4> QED  BY <4>1, <3>2, <3>5, <2>2 DEF Hear
    <3> QED  BY <3>3, <3>4, <3>5
  <2> QED  BY <2>1, <2>2, <1>2
<1> HIDE DEF d, n, m, F, t
<1> PICK pn : pn = [i \in 0 .. m |-> IF i + d <= n THEN ph[i + d] ELSE t]
  OBVIOUS
<1>10. \A i \in 0 .. m : /\ pn[i] = IF i + d <= n THEN ph[i + d] ELSE t
                         /\ pn[i] \in ParserType /\ RecKept(pn[i])
                         /\ ~(i + d <= n) => i + d = n + 1 /\ pushing(u') = 1 /\ i = m
  <2> TAKE i \in 0 .. m
  <2>1. pn[i] = IF i + d <= n THEN ph[i + d] ELSE t
    OBVIOUS
  <2>2. i + d <= n => i + d \in 0 .. n
    BY <1>2
  <2>3. ~(i + d <= n) => i + d = n + 1 /\ pushing(u') = 1 /\ i = m
    BY <1>2, <1>3
  <2> QED  BY <2>1, <2>2, <2>3, <1>4, <1>6
<1>11. pn \in [0 .. m -> ParserType]
  BY <1>10
<1>12. pn[0] = st'
  <2>1. 0 \in 0 .. m /\ 0 + d <= n /\ 0 + d = d
    BY <1>2, <1>3
  <2> QED  BY <2>1, <1>9, <1>10, <1>2
<1>13. ASSUME NEW i \in 1 .. m
       PROVE  pn[i] = Hear(pc, pn[i - 1], ByteAt(u', i))
  <2>1. i \in 0 .. m /\ i - 1 \in 0 .. m /\ (i - 1) + d = (i + d) - 1 /\ i + d >= 1
    BY <1>2
  <2>2. CASE i + d <= n
    <3>1. i + d \in 1 .. n /\ (i - 1) + d <= n
      BY <2>1, <2>2, <1>2
    <3>2. pn[i] = ph[i + d] /\ pn[i - 1] = ph[(i + d) - 1] /\ ByteAt(u', i) = ByteAt(u, i + d)
      BY <2>1, <2>2, <3>1, <1>2, <1>10
    <3> QED  BY <3>1, <3>2, <1>4
  <2>3. CASE ~(i + d <= n)
    <3>1. i + d = n + 1 /\ (i - 1) + d = n /\ n <= n
      BY <2>1, <2>3, <1>2, <1>10
    <3>2. pn[i] = t /\ pn[i - 1] = ph[n] /\ ByteAt(u', i) = u'.push
      BY <2>1, <2>3, <3>1, <1>2, <1>10
    <3> QED  BY <3>2 DEF t, F
  <2> QED  BY <2>2, <2>3
<1>14. Reading(pn)'
  <2>1. pn \in [0 .. InFlight(u') -> ParserType] /\ pn[0] = st'
    BY <1>11, <1>12 DEF m
  <2>2. \A i \in 1 .. InFlight(u') : pn[i] = Hear(pc', pn[i - 1], ByteAt(u', i))
    BY <1>1, <1>13 DEF m
  <2> QED  BY <2>1, <2>2 DEF Reading
<1>15. Extends(pc, u, u', ph, pn)
  <2>1. \A i \in 0 .. m : i + d <= n => pn[i] = ph[i + d]
    BY <1>10
  <2>2. pushing(u') = 0 => m + d = n /\ pn[m] = ph[n]
    <3>1. m \in 0 .. m /\ (pushing(u') = 0 => m + d = n)
      BY <1>2
    <3> QED  BY <3>1, <2>1, <1>2
  <2>3. pushing(u') = 1 => m >= 1 /\ (m - 1) + d = n /\ pn[m - 1] = ph[n] /\ pn[m] = Hear(pc, ph[n], u'.push)
    <3>1. pushing(u') = 1 => m >= 1 /\ (m - 1) + d = n /\ m \in 0 .. m /\ m - 1 \in 0 .. m /\ ~(m + d <= n) /\ n <= n
      BY <1>2, <1>3
    <3> QED  BY <3>1, <1>10 DEF t, F
  <2> QED  BY <2>1, <2>2, <2>3 DEF Extends, d, n, m
<1> QED  BY <1>10, <1>14, <1>15 DEF m

\* The sequencer's step: a trial starts, or it sends something or nothing.
Starts(obs, ab) ==
  /\ dut.run /\ ~u.rst_q /\ obs = NoByte /\ ~ab
  /\ u.rec = <<>> /\ u.esc = NoByte /\ u.dbuf = NoByte /\ StartsTrial(u, u')
Sends(v, w) == Idles(v, w) \/ (~full(v) /\ (SendsEsc(v, w) \/ SendsRec(v, w) \/ SendsData(v, w)))
Keeps(v, w, obs, ab) ==
  /\ w.trial = v.trial /\ (w.f_abort <=> v.f_abort \/ ab) /\ (w.f_lost <=> v.f_lost \/ lost(v, obs))
  /\ w.dbuf = IF obs # NoByte /\ ~lost(v, obs) THEN obs ELSE IF take_d(v) THEN NoByte ELSE v.dbuf

LEMMA SequencerStep ==
  ASSUME IInv, Paced, LeavesInTime, NEW obs \in Octet, NEW ab \in BOOLEAN, NEW dn \in DutType, ClockStep(obs, ab, dn)
  PROVE  /\ u'.rst_q = dut.run
         /\ Starts(obs, ab) \/ (~Starting /\ Sends(u, u') /\ Keeps(u, u', obs, ab))
<1>1. u \in UartType /\ u' \in UartType /\ dut.run \in BOOLEAN /\ Edge(u, dut.run, obs, ab, u')
  BY CycleEdge DEF ClockStep
<1>2. u'.rst_q = dut.run
  BY <1>1 DEF Edge
<1>3. CASE Starting
  <2>1. dut.run /\ ~u.rst_q /\ u.rec = <<>> /\ u.esc = NoByte /\ u.dbuf = NoByte /\ dut.cnt = 0
    BY <1>3 DEF LeavesInTime, Through, Starting, Paced
  <2>2. obs = NoByte /\ ~ab
    BY <2>1 DEF ClockStep
  <2>3. Edge(u, TRUE, NoByte, FALSE, u')
    <3>1. dut.run = TRUE /\ ab = FALSE
      BY <2>1, <2>2, <1>1
    <3> QED  BY <3>1, <2>2, <1>1, Zenon
  <2>4. trial_start(u, TRUE)
    BY <2>1 DEF trial_start
  <2>5. StartsTrial(u, u')
    BY <2>1, <2>3, <2>4, SequencerStarts
  <2> QED  BY <1>2, <2>1, <2>2, <2>5 DEF Starts
<1>4. CASE ~Starting
  <2>1. ~trial_start(u, dut.run) /\ ~new_rec(u, dut.run)
    BY <1>4 DEF Starting, trial_start, new_rec
  <2>2. Sends(u, u')
    BY <1>1, <2>1, SequencerCases DEF Sends
  <2>3. Keeps(u, u', obs, ab)
    BY <1>1, <2>1, Zenon DEF Edge, Keeps, LostFlag
  <2> QED  BY <1>2, <1>4, <2>2, <2>3
<1> QED  BY <1>3, <1>4

\* The end of the reading, against the bytes of the record and of the data register.
LEMMA EndFollows ==
  ASSUME NEW at, NEW v \in UartType, NEW w \in UartType, NEW ph, NEW pn, Extends(at, v, w, ph, pn),
         ph[InFlight(v)] \in ParserType, RecKept(ph[InFlight(v)])
  PROVE  LET F == ph[InFlight(v)]
             G == pn[InFlight(w)]
         IN  Follows(F, w, G) /\ (at = "wait" => G = IF w.push = NoByte THEN F ELSE Byte(F, w.push))
<1> DEFINE F == ph[InFlight(v)]
           G == pn[InFlight(w)]
<1>1. pushing(w) \in 0 .. 1 /\ (pushing(w) = 1 <=> w.push # NoByte) /\ w.push \in Octet
  BY FlightTyped DEF UartType
<1>2. /\ pushing(w) = 0 => G = F
      /\ pushing(w) = 1 => G = Hear(at, F, w.push)
  BY DEF Extends
<1>3. F \in ParserType /\ RecKept(F)
  OBVIOUS
<1> HIDE DEF F, G
<1>4. CASE w.push = NoByte
  <2>1. G = F
    BY <1>1, <1>2, <1>4
  <2> QED  BY <2>1, <1>4 DEF Follows, F, G
<1>5. CASE w.push # NoByte
  <2>1. G = Hear(at, F, w.push)
    BY <1>1, <1>2, <1>5
  <2> DEFINE b == Byte(F, w.push)
  <2>2. G.esc = b.esc /\ G.inrec = b.inrec /\ G.rec = b.rec /\ (at = "wait" => G = b)
    BY <2>1, <1>1, <1>3, HearTyped
  <2>3. Follows(F, w, G) /\ (at = "wait" => G = IF w.push = NoByte THEN F ELSE Byte(F, w.push))
    BY <2>2, <1>5 DEF Follows
  <2> QED  BY <2>3 DEF F, G
<1> QED  BY <1>4, <1>5

LEMMA ShapeStep ==
  ASSUME IInv, Paced, LeavesInTime, NEW obs \in Octet, NEW ab \in BOOLEAN, NEW dn \in DutType, ClockStep(obs, ab, dn),
         NEW ph, Reading(ph), Shape(u, ph),
         NEW pn, Extends(pc, u, u', ph, pn), \A i \in 0 .. InFlight(u') : RecKept(pn[i])
  PROVE  Shape(u', pn)
<1> DEFINE d == One(Delivers(u))
           n == InFlight(u)
           m == InFlight(u')
           F == ph[n]
           G == pn[m]
<1>1. u \in UartType /\ u' \in UartType
  BY CycleEdge DEF ClockStep
<1>2. n \in Nat /\ m \in Nat /\ d \in 0 .. 1 /\ pushing(u') \in 0 .. 1
  BY <1>1, FlightTyped, OneTyped DEF Delivers
<1>3. F \in ParserType /\ RecKept(F) /\ RecShape(u) /\ EndShape(u, F)
  <2>1. n \in 0 .. n
    BY <1>2
  <2> QED  BY <2>1 DEF Reading, Shape
<1>4. Follows(F, u', G)
  BY <1>1, <1>3, EndFollows
<1>5. Starts(obs, ab) \/ Sends(u, u')
  BY SequencerStep
<1>6. RecShape(u') /\ EndShape(u', G)
  <2>1. CASE Starts(obs, ab)
    <3>1. StartsTrial(u, u') /\ u.rec = <<>> /\ u.esc = NoByte
      BY <2>1 DEF Starts
    <3>2. G = F
      BY <3>1, <1>4 DEF StartsTrial, Follows
    <3> HIDE DEF F, G
    <3> QED  BY <3>1, <3>2, <1>1, <1>3, EndStarts
  <2>2. CASE Sends(u, u')
    <3>1. Idles(u, u') \/ SendsEsc(u, u') \/ SendsRec(u, u') \/ SendsData(u, u')
      BY <2>2 DEF Sends
    <3> HIDE DEF F, G
    <3> QED  BY <3>1, <1>1, <1>3, <1>4, EndSteps
  <2> QED  BY <2>1, <2>2, <1>5
<1>7. /\ \A i \in 0 .. m : i + d <= n => pn[i] = ph[i + d]
      /\ pushing(u') = 0 => m + d = n /\ G = F
      /\ pushing(u') = 1 => m >= 1 /\ (m - 1) + d = n /\ pn[m - 1] = F
  BY DEF Extends
<1> HIDE DEF F, G, m, n, d
<1>8. ASSUME NEW i \in 0 .. m, pn[i].inrec, u'.rec = <<>>
      PROVE  \E k \in i + 1 .. m : Ends(pn, k)
  <2>1. ~G.inrec /\ i # m
    <3>1. ~G.inrec
      BY <1>6, <1>8 DEF EndShape
    <3> QED  BY <3>1, <1>8 DEF G
  <2>2. i + d <= n /\ pn[i] = ph[i + d] /\ i + d \in 0 .. n
    BY <2>1, <1>2, <1>7
  <2>3. CASE u.rec = <<>>
    <3>1. PICK k \in i + d + 1 .. n : Ends(ph, k)
      BY <2>2, <2>3, <1>8 DEF Shape, InRecEnds, n
    <3>2. k - d \in i + 1 .. m
      BY <3>1, <2>1, <1>2, <1>7
    <3>3. pn[(k - d) - 1] = ph[k - 1] /\ pn[k - d] = ph[k]
      <4>1. k - d \in 0 .. m /\ (k - d) - 1 \in 0 .. m /\ (k - d) + d = k /\ ((k - d) - 1) + d = k - 1 /\ k <= n /\ k - 1 <= n
        BY <3>1, <3>2, <1>2
      <4> QED  BY <4>1, <1>7
    <3> QED  BY <3>1, <3>2, <3>3 DEF Ends
  <2>4. CASE u.rec # <<>>
    <3>1. SendsRec(u, u') /\ Tail(u.rec) = <<>>
      <4>1. ~Starts(obs, ab) /\ ~SendsData(u, u')
        BY <2>4 DEF Starts, SendsData
      <4>2. u'.rec # u.rec
        BY <1>8, <2>4
      <4> QED  BY <4>1, <4>2, <1>5, <1>8 DEF Sends, Idles, SendsEsc, SendsRec
    <3>2. Len(u.rec) = 1
      <4>1. u.rec \in Seq(Char) /\ u.rec # <<>>
        BY <2>4, <1>3 DEF RecShape, RecFits
      <4> QED  BY <4>1, <3>1, TailFacts
    <3>3. F.inrec
      BY <3>2, <1>3 DEF EndShape
    <3>4. pushing(u') = 1
      <4>1. G # F
        BY <3>3, <2>1
      <4> QED  BY <4>1, <1>2, <1>7
    <3>5. Ends(pn, m)
      BY <3>3, <3>4, <2>1, <1>7 DEF Ends, G
    <3>6. m \in i + 1 .. m
      BY <2>1, <1>2
    <3> QED  BY <3>5, <3>6
  <2> QED  BY <2>3, <2>4
<1>9. InRecEnds(u', pn)
  BY <1>8 DEF InRecEnds, m
<1> QED  BY <1>6, <1>9 DEF Shape, m, G

-----------------------------------------------------------------------------
(* The silence the host waits for.                                           *)

\* The quiet time covers the longest trial with its reset window and the way of the last
\* record through a full FIFO: the host counts the FIFO's bytes, and the rest (the bytes the
\* sequencer holds, the cycle the line needs between two) has to fit into the second trial
\* length or the least quiet time.
QuietFits == MaxDelay + TO_THR + GAP + 2 <= QUIET

LEMMA QuietIsLong ==
  ASSUME QuietFits
  PROVE  QUIET \in Nat /\ MaxDelay \in Nat /\ MaxDelay + TO_THR + GAP + 2 <= QUIET
<1>1. TO_THR \in Nat /\ GAP \in Nat /\ DEPTH \in Nat /\ LINE \in Nat /\ QUIET_MIN \in Nat
  BY BoardRunAssumption, BoardUartAssumption
<1>2. \A a, b \in Nat : a * b \in Nat /\ (a + 19) * (b + 1) \in Nat
  BY SMT
<1>3. DEPTH * LINE \in Nat /\ Frames(DEPTH + 19) \in Nat
  BY <1>1, <1>2 DEF Frames
<1>4. QUIET \in Nat
  BY <1>1, <1>3, SMT DEF QUIET
<1>5. MaxDelay \in Nat
  BY <1>3, SMT DEF MaxDelay
<1> QED  BY <1>4, <1>5 DEF QuietFits

\* The quiet time begins: a record is on its way or the next one is far enough.
LEMMA QuietBegins ==
  ASSUME QuietFits, NEW v \in UartType, NEW t \in DutType, NEW ph, Shape(v, ph), v.nb <= LINE,
         used(v) < DEPTH, v.push # NoByte => used(v) < DEPTH - 1,
         ~t.run => t.gap \in 1 .. GAP, t.cnt \in 0 .. TO_THR
  PROVE  QuietAt(v, t, 0, ph)
<1>1. RecFits(v) /\ InFlight(v) \in Nat
  BY FlightTyped DEF Shape, RecShape
<1>2. Pushes(v) \in 0 .. 19 /\ (v.rec # <<>> => Pushes(v) >= 1)
  <2>1. EscPush(v) \in 0 .. 1 /\ RecPushes(v) \in 0 .. 18 /\ (v.rec # <<>> => RecPushes(v) >= 1)
    BY <1>1, PushesTyped
  <2> QED  BY <2>1 DEF Pushes
<1>3. QUIET \in Nat /\ MaxDelay \in Nat /\ MaxDelay + TO_THR + GAP + 2 <= QUIET /\ TO_THR \in Nat /\ GAP \in Nat
  BY QuietIsLong, BoardRunAssumption
<1>4. ASSUME NEW k \in Nat, k >= 1, k <= RecEnd(v)  PROVE  0 + Delay(v, k) <= QUIET
  <2>1. Delay(v, k) \in Int /\ Delay(v, k) <= MaxDelay
    BY <1>1, <1>4, DelayBounded
  <2> QED  BY <2>1, <1>3
<1>5. CASE v.rec # <<>>
  <2>1. RecEnd(v) \in Nat /\ RecEnd(v) >= 1 /\ RecEnd(v) <= RecEnd(v)
    <3>1. \A n \in Nat, x \in 0 .. 19 : x >= 1 => n + x \in Nat /\ n + x >= 1 /\ n + x <= n + x
      OBVIOUS
    <3> QED  BY <3>1, <1>1, <1>2, <1>5, Zenon DEF RecEnd
  <2> QED  BY <2>1, <1>4, <1>5 DEF QuietAt
<1>6. CASE v.rec = <<>> /\ \E i \in 0 .. InFlight(v) : ph[i].inrec
  <2>0. PICK i \in 0 .. InFlight(v) : ph[i].inrec
    BY <1>6
  <2>1. PICK k \in i + 1 .. InFlight(v) : Ends(ph, k)
    BY <2>0, <1>6 DEF Shape, InRecEnds
  <2>2. k \in 1 .. InFlight(v) /\ k \in Nat /\ k >= 1 /\ k <= RecEnd(v)
    <3>1. k \in 1 .. InFlight(v) /\ k \in Nat /\ k >= 1 /\ k <= InFlight(v)
      BY <2>1, <1>1
    <3>2. \A n, j \in Nat, x \in 0 .. 19 : j <= n => j <= n + x
      OBVIOUS
    <3> QED  BY <3>1, <3>2, <1>1, <1>2, Zenon DEF RecEnd
  <2> QED  BY <2>1, <2>2, <1>4 DEF QuietAt
<1>7. CASE v.rec = <<>> /\ \A i \in 0 .. InFlight(v) : ~ph[i].inrec
  <2>1. NextStart(v, t) \in Int /\ NextStart(v, t) <= TO_THR + GAP + 2
    BY <1>3 DEF NextStart
  <2>2. 0 + NextStart(v, t) + MaxDelay <= QUIET
    BY <2>1, <1>3
  <2> QED  BY <2>2, <1>7 DEF QuietAt, NoRecord
<1> QED  BY <1>5, <1>6, <1>7

\* Without a record on the line or in the sequencer, only a trial's start makes one.
LEMMA NoRecordStep ==
  ASSUME IInv, Paced, LeavesInTime, NEW obs \in Octet, NEW ab \in BOOLEAN, NEW dn \in DutType, ClockStep(obs, ab, dn),
         NEW ph, NEW pn, Extends(pc, u, u', ph, pn), Shape(u', pn), NoRecord(u, ph), ~Starting
  PROVE  NoRecord(u', pn)
<1>1. u \in UartType /\ u' \in UartType
  BY CycleEdge DEF ClockStep
<1>2. InFlight(u) \in Nat /\ InFlight(u') \in Nat /\ One(Delivers(u)) \in 0 .. 1 /\ pushing(u') \in 0 .. 1
  BY <1>1, FlightTyped, OneTyped DEF Delivers
<1>3. Sends(u, u')
  BY SequencerStep DEF Starts, Starting
<1>4. u'.rec = <<>>
  BY <1>3 DEF NoRecord, Sends, Idles, SendsEsc, SendsRec, SendsData
<1>5. ~pn[InFlight(u')].inrec
  BY <1>4 DEF Shape, EndShape
<1>6. ASSUME NEW i \in 0 .. InFlight(u')  PROVE  ~pn[i].inrec
  <2> DEFINE d == One(Delivers(u))
  <2>1. CASE i + d <= InFlight(u)
    <3>1. i + d \in 0 .. InFlight(u) /\ pn[i] = ph[i + d]
      BY <2>1, <1>2 DEF Extends
    <3> QED  BY <3>1 DEF NoRecord
  <2>2. CASE ~(i + d <= InFlight(u))
    <3>1. (pushing(u') = 0 => InFlight(u') + d = InFlight(u)) /\ (pushing(u') = 1 => (InFlight(u') - 1) + d = InFlight(u))
      BY DEF Extends
    <3> HIDE DEF d
    <3>2. i = InFlight(u')
      BY <3>1, <2>2, <1>2 DEF d
    <3> QED  BY <3>2, <1>5
  <2> QED  BY <2>1, <2>2
<1> QED  BY <1>4, <1>6 DEF NoRecord

\* A trial that is over with its timeout stays so.
LEMMA QuiescentStep ==
  ASSUME IInv, Paced, LeavesInTime, NEW obs \in Octet, NEW ab \in BOOLEAN, NEW dn \in DutType, ClockStep(obs, ab, dn),
         Quiescent(u, dut)
  PROVE  Quiescent(u', dn) /\ ~Starting
<1>1. dut.run /\ u.rst_q /\ ~dut.to /\ u'.rst_q = dut.run
  BY SequencerStep DEF Quiescent
<1>2. dn.run /\ dn.to = dut.to
  BY <1>1 DEF ClockStep, TrialStep, Releases, Continues, Halts, CountsDown
<1> QED  BY <1>1, <1>2 DEF Quiescent, Starting

\* The time of a record still to come runs down as fast as the silence grows.
LEMMA RecordNearer ==
  ASSUME IInv, Paced, LeavesInTime, NEW obs \in Octet, NEW ab \in BOOLEAN, NEW dn \in DutType, ClockStep(obs, ab, dn),
         NEW ph, Reading(ph), Shape(u, ph), NEW pn, Extends(pc, u, u', ph, pn), Shape(u', pn), u.rec # <<>>
  PROVE  /\ Delay(u', RecEnd(u')) <= Delay(u, RecEnd(u)) - 1
         /\ u'.rec = <<>> => \E k \in 1 .. InFlight(u') : Ends(pn, k) /\ k = RecEnd(u')
<1> DEFINE d == One(Delivers(u))
           R == RecEnd(u)
           S == RecEnd(u')
           F == ph[InFlight(u)]
           G == pn[InFlight(u')]
<1>1. u \in UartType /\ u' \in UartType /\ LineMoves(u, u')
  BY CycleEdge DEF ClockStep
<1>2. /\ InFlight(u) \in Nat /\ InFlight(u') \in Nat /\ d \in 0 .. 1 /\ pushing(u') \in 0 .. 1
      /\ used(u) \in Nat /\ framed(u) \in 0 .. 1 /\ pushing(u) \in 0 .. 1
      /\ InFlight(u) = framed(u) + used(u) + pushing(u) /\ (pushing(u') = 1 <=> u'.push # NoByte)
  BY <1>1, FlightTyped, OneTyped DEF Delivers
<1>3. RecShape(u) /\ RecFits(u) /\ EndShape(u, F) /\ F \in ParserType /\ RecKept(F)
  <2>1. InFlight(u) \in 0 .. InFlight(u)
    BY <1>2
  <2> QED  BY <2>1 DEF Shape, RecShape, Reading
<1>4. ~Starting /\ Sends(u, u')
  BY SequencerStep DEF LeavesInTime, Starts
<1>5. ~SendsData(u, u') /\ (Idles(u, u') => full(u))
  BY DEF SendsData, Idles
<1>6. Idles(u, u') \/ SendsEsc(u, u') \/ SendsRec(u, u') \/ SendsData(u, u')
  BY <1>4 DEF Sends
<1>7. /\ Pushes(u) \in 1 .. 19 /\ Pushes(u') \in Nat
      /\ \/ Idles(u, u') /\ pushing(u') = 0 /\ Pushes(u') = Pushes(u)
         \/ pushing(u') = 1 /\ Pushes(u') <= Pushes(u) - 1
  <2>1. EscPush(u) \in 0 .. 1 /\ RecPushes(u) \in 1 .. 18
    <3>1. EscPush(u) \in 0 .. 1 /\ RecPushes(u) \in 0 .. 18 /\ RecPushes(u) >= 1
      BY <1>3, PushesTyped
    <3> QED  BY <3>1
  <2>2. Pushes(u) \in 1 .. 19
    BY <2>1 DEF Pushes
  <2>4. Pushes(u') \in Nat
    <3>1. RecFits(u')
      BY DEF Shape, RecShape
    <3>2. EscPush(u') \in 0 .. 1 /\ RecPushes(u') \in 0 .. 18
      BY <3>1, PushesTyped
    <3> QED  BY <3>2 DEF Pushes
  <2>3. \/ Idles(u, u') /\ pushing(u') = 0 /\ Pushes(u') = Pushes(u)
        \/ pushing(u') = 1 /\ Pushes(u') <= Pushes(u) - 1
    BY <1>1, <1>3, <1>5, <1>6, PushesOne
  <2> QED  BY <2>2, <2>3, <2>4
<1>8. /\ pushing(u') = 0 => InFlight(u') + d = InFlight(u) /\ G = F
      /\ pushing(u') = 1 => InFlight(u') >= 1 /\ (InFlight(u') - 1) + d = InFlight(u) /\ pn[InFlight(u') - 1] = F
  BY DEF Extends
<1>9. R = InFlight(u) + Pushes(u) /\ S = InFlight(u') + Pushes(u')
  BY DEF RecEnd
<1> HIDE DEF d, R, S, F, G
<1>10. S <= R - d /\ S \in Nat /\ R \in Nat /\ R >= 1
  <2>1. /\ InFlight(u) \in Nat /\ InFlight(u') \in Nat /\ d \in 0 .. 1 /\ Pushes(u) \in 1 .. 19 /\ Pushes(u') \in Nat
    BY <1>2, <1>7
  <2>2. R \in Nat /\ R >= 1 /\ S \in Nat
    <3>1. \A n \in Nat, x \in 1 .. 19 : n + x \in Nat /\ n + x >= 1
      OBVIOUS
    <3>2. \A n, x \in Nat : n + x \in Nat
      OBVIOUS
    <3> QED  BY <3>1, <3>2, <2>1, <1>9, Zenon
  <2>3. \/ InFlight(u') + d = InFlight(u) /\ Pushes(u') = Pushes(u)
        \/ (InFlight(u') - 1) + d = InFlight(u) /\ Pushes(u') <= Pushes(u) - 1
    BY <1>7, <1>8, Zenon
  <2>4. \A i, j, x, y \in Nat, e \in 0 .. 1 :
          (j + e = i /\ y = x) \/ ((j - 1) + e = i /\ y <= x - 1) => j + y <= (i + x) - e
    BY SMT
  <2>5. InFlight(u') + Pushes(u') <= (InFlight(u) + Pushes(u)) - d
    <3>1. Pushes(u) \in Nat
      BY <2>1
    <3> QED  BY <2>1, <2>3, <2>4, <3>1, Zenon
  <2> QED  BY <2>2, <2>5, <1>9, Zenon
<1>11. InFlight(u) >= 1 \/ pushing(u') = 1
  <2>1. ASSUME InFlight(u) = 0  PROVE  pushing(u') = 1
    <3>1. used(u) = 0
      BY <2>1, <1>2
    <3>2. ~full(u)
      BY <3>1, BoardUartAssumption DEF full
    <3> QED  BY <3>2, <1>5, <1>7
  <2> QED  BY <2>1, <1>2
<1>12. Delay(u', S) <= Delay(u, R) - 1
  <2>1. Delay(u', R - d) <= Delay(u, R) - 1
    BY <1>1, <1>10, <1>11, DelayStep DEF d
  <2>2. R - d \in Int /\ S \in Int /\ S <= R - d /\ R \in Int
    BY <1>2, <1>10
  <2> HIDE DEF d
  <2>3. Delay(u', S) <= Delay(u', R - d)
    BY <2>2, <1>1, DelayGrows
  <2>4. Delay(u', S) \in Int /\ Delay(u', R - d) \in Int /\ Delay(u, R) \in Int
    BY <2>2, <1>1, DelayGrows
  <2> QED  BY <2>1, <2>3, <2>4
<1>13. ASSUME u'.rec = <<>>
       PROVE  \E k \in 1 .. InFlight(u') : Ends(pn, k) /\ k = S
  <2>1. SendsRec(u, u') /\ Tail(u.rec) = <<>>
    BY <1>5, <1>6, <1>13 DEF Idles, SendsEsc, SendsRec
  <2>2. /\ Len(u.rec) = 1 /\ Head(u.rec) = u.rec[Len(u.rec)] /\ u.rec[Len(u.rec)] \in 0 .. 3
    <3>1. u.rec \in Seq(Char) /\ u.rec[Len(u.rec)] \in 0 .. 3
      BY <1>3 DEF RecFits
    <3>2. Len(u.rec) = 1 /\ Head(u.rec) = u.rec[1]
      BY <2>1, <3>1, TailFacts
    <3> QED  BY <3>1, <3>2
  <2>3. u'.push # NoByte /\ u'.esc = NoByte
    BY <2>1, <2>2, BytesAre DEF SendsRec, PushedAs
  <2>4. Pushes(u') = 0
    BY <2>3, <1>13 DEF Pushes, EscPush, RecPushes, One
  <2>5. F.inrec
    BY <2>2, <1>3 DEF EndShape
  <2>6. ~G.inrec
    BY <1>13 DEF Shape, EndShape, G
  <2>7. Ends(pn, InFlight(u')) /\ InFlight(u') >= 1
    BY <2>3, <2>5, <2>6, <1>2, <1>8 DEF Ends, G
  <2>8. InFlight(u') = S /\ InFlight(u') \in 1 .. InFlight(u')
    BY <2>4, <2>7, <1>2, <1>9
  <2> QED  BY <2>7, <2>8
<1> QED  BY <1>10, <1>12, <1>13 DEF R, S

\* A record on the line, too.
LEMMA EndNearer ==
  ASSUME IInv, NEW obs \in Octet, NEW ab \in BOOLEAN, NEW dn \in DutType, ClockStep(obs, ab, dn),
         NEW ph, Reading(ph), \A i \in 0 .. InFlight(u) : RecKept(ph[i]), NEW pn, Extends(pc, u, u', ph, pn),
         NEW k \in 1 .. InFlight(u), Ends(ph, k)
  PROVE  \/ /\ Delivers(u) /\ k = 1 /\ st = ph[0] /\ st.inrec /\ ~Byte(st, u.frame).inrec
            /\ u.frame \in Octet /\ st \in ParserType /\ RecKept(st)
         \/ \E j \in 1 .. InFlight(u') : Ends(pn, j) /\ Delay(u', j) <= Delay(u, k) - 1
<1> DEFINE d == One(Delivers(u))
           n == InFlight(u)
           m == InFlight(u')
<1>1. u \in UartType /\ u' \in UartType /\ LineMoves(u, u') /\ dut.run \in BOOLEAN
       /\ \E cn \in COUNTS : u' = Clocked(u, dut.run, obs, ab, cn)
  BY CycleEdge DEF ClockStep
<1>2. n \in Nat /\ m \in Nat /\ d \in 0 .. 1 /\ (d = 1 <=> Delivers(u)) /\ pushing(u') \in 0 .. 1
  BY <1>1, FlightTyped, OneTyped DEF Delivers
<1>3. /\ \A i \in 0 .. m : i + d <= n => pn[i] = ph[i + d]
      /\ pushing(u') = 0 => m + d = n
      /\ pushing(u') = 1 => (m - 1) + d = n
  BY DEF Extends
<1>4. Delay(u', k - d) <= Delay(u, k) - 1
  BY <1>1, <1>2, DelayStep
<1>5. d = 1 => ByteAt(u, 1) = u.frame
  <2>1. d = One(Delivers(u))
    OBVIOUS
  <2> HIDE DEF d
  <2>2. PICK cn \in COUNTS : u' = Clocked(u, dut.run, obs, ab, cn)
    BY <1>1
  <2> QED  BY <2>1, <2>2, <1>1, ByteShift
<1> HIDE DEF d, n, m
<1>6. CASE k - d >= 1
  <2>1. /\ k - d \in 1 .. m /\ k - d \in 0 .. m /\ (k - d) - 1 \in 0 .. m
        /\ (k - d) + d = k /\ ((k - d) - 1) + d = k - 1 /\ k <= n /\ k - 1 <= n
    BY <1>2, <1>3, <1>6 DEF n
  <2>2. pn[(k - d) - 1] = ph[k - 1] /\ pn[k - d] = ph[k]
    BY <2>1, <1>3
  <2>3. Ends(pn, k - d)
    BY <2>2 DEF Ends
  <2> QED  BY <2>1, <2>3, <1>4 DEF m
<1>7. CASE ~(k - d >= 1)
  <2>1. d = 1 /\ k = 1 /\ Delivers(u) /\ 1 \in 1 .. n /\ 0 \in 0 .. n /\ 1 - 1 = 0
    BY <1>2, <1>7 DEF n
  <2>2. /\ ph[0] = st /\ st \in ParserType /\ RecKept(st) /\ u.frame \in Octet
        /\ ph[1] = Hear(pc, st, u.frame) /\ st.inrec /\ ~ph[1].inrec
    <3>1. ph \in [0 .. n -> ParserType] /\ ph[0] = st /\ \A i \in 1 .. n : ph[i] = Hear(pc, ph[i - 1], ByteAt(u, i))
      BY DEF Reading, n
    <3>2. ph[0] \in ParserType /\ RecKept(ph[0])
      BY <3>1, <2>1 DEF n
    <3>3. ph[0].inrec /\ ~ph[1].inrec
      BY <2>1 DEF Ends
    <3>4. u.frame \in Octet
      BY <1>1 DEF UartType
    <3> QED  BY <3>1, <3>2, <3>3, <3>4, <2>1, <1>5
  <2>3. ~Byte(st, u.frame).inrec
    BY <2>2, HearTyped
  <2> QED  BY <2>1, <2>2, <2>3
<1> QED  BY <1>6, <1>7

\* What the cycle makes of the quiet time: it begins again with a record, or grows by 1.
LEMMA QuietCounts ==
  ASSUME IInv, HostInv, NEW obs, NEW ab, NEW dn, Cycle(obs, ab, dn), pc = "quiet"
  PROVE  q' \in Nat /\ (q' = 0 \/ (q' <= q + 1 /\ (Delivers(u) => Byte(st, u.frame).runs = <<>>)))
<1>1. q \in Nat /\ Waited \in Nat /\ Waited <= q + 1
  BY DEF HostInv, Waited
<1>2. CASE ~Delivers(u)
  <2>1. q' = Waited
    BY <1>2 DEF Cycle
  <2> QED  BY <2>1, <1>1, <1>2
<1>3. CASE Delivers(u)
  <2>1. q' = IF Byte(st, u.frame).runs # <<>> THEN 0 ELSE Waited
    BY <1>3 DEF Cycle, Received
  <2> QED  BY <2>1, <1>1, <1>3
<1> QED  BY <1>2, <1>3

\* While the host waits for silence, it cannot be had before it is there to stay.
LEMMA QuietStep ==
  ASSUME QuietFits, IInv, IInv', HostInv, Paced, Paced', LeavesInTime,
         NEW obs \in Octet, NEW ab \in BOOLEAN, NEW dn \in DutType, ClockStep(obs, ab, dn),
         NEW ph, Reading(ph), Shape(u, ph), NEW pn, Extends(pc, u, u', ph, pn), Shape(u', pn),
         pc = "quiet", QuietAt(u, dut, q, ph)
  PROVE  QuietAt(u', dn, q', pn)
<1>1. u \in UartType /\ u' \in UartType /\ dut' = dn
  BY CycleEdge DEF ClockStep
<1>2. /\ u'.nb <= LINE /\ used(u') < DEPTH /\ (u'.push # NoByte => used(u') < DEPTH - 1)
      /\ (~dn.run => dn.gap \in 1 .. GAP) /\ dn.cnt \in 0 .. TO_THR
  BY <1>1 DEF IInv, PushHasRoom, Paced, used
<1>3. q' \in Nat /\ (q' = 0 \/ (q' <= q + 1 /\ (Delivers(u) => Byte(st, u.frame).runs = <<>>)))
  BY QuietCounts DEF ClockStep
<1>4. QUIET \in Nat /\ MaxDelay \in Nat /\ TO_THR \in Nat /\ GAP \in Nat /\ q \in Nat
  BY QuietIsLong, BoardRunAssumption DEF HostInv
<1>5. RecFits(u') /\ InFlight(u') \in Nat /\ RecFits(u) /\ InFlight(u) \in Nat
  BY <1>1, FlightTyped DEF Shape, RecShape
<1>6. CASE q' = 0
  BY <1>1, <1>2, <1>6, QuietBegins
<1>7. ASSUME q' <= q + 1, Delivers(u) => Byte(st, u.frame).runs = <<>>
      PROVE  QuietAt(u', dn, q', pn)
  <2>1. ASSUME NEW k \in 1 .. InFlight(u), Ends(ph, k), q + Delay(u, k) <= QUIET
        PROVE  QuietAt(u', dn, q', pn)
    <3>1. CASE Delivers(u) /\ st.inrec /\ ~Byte(st, u.frame).inrec /\ u.frame \in Octet /\ st \in ParserType /\ RecKept(st)
      <4> DEFINE b == Byte(st, u.frame)
      <4>1. Parsed(st, u.frame, b) /\ b.runs = <<>> /\ st.runs \in Seq(RunType)
        BY <3>1, <1>7, ByteParsed DEF ParserType
      <4>2. ~b.inrec
        BY <3>1
      <4> HIDE DEF b
      <4>5. Len(st.rec) < 7 \/ Len(st.rec) = 7
        <5>1. \A n \in Nat : n <= 7 => n < 7 \/ n = 7
          OBVIOUS
        <5>2. Len(st.rec) \in Nat /\ Len(st.rec) <= 7
          BY <3>1 DEF RecKept, ParserType
        <5> QED  BY <5>1, <5>2, Zenon
      <4>3. \E x, y : Begins(st.runs, x, y, b.runs)
        BY <3>1, <4>1, <4>2, <4>5, Zenon DEF Parsed, Special
      <4>4. FALSE
        BY <4>1, <4>3 DEF Begins
      <4> QED  BY <4>4
    <3>2. CASE \E j \in 1 .. InFlight(u') : Ends(pn, j) /\ Delay(u', j) <= Delay(u, k) - 1
      <4>1. PICK j \in 1 .. InFlight(u') : Ends(pn, j) /\ Delay(u', j) <= Delay(u, k) - 1
        BY <3>2
      <4>2. Delay(u', j) \in Int /\ Delay(u, k) \in Int
        <5>1. j \in Nat /\ j >= 1 /\ k \in Nat /\ k >= 1
          BY <1>5, <4>1
        <5>2. Delay(u', j) \in Int
          BY <1>1, <1>2, <1>5, <5>1, DelayBounded
        <5>3. u.nb <= LINE /\ used(u) < DEPTH /\ (u.push # NoByte => used(u) < DEPTH - 1)
          BY DEF IInv, PushHasRoom, Paced
        <5>4. Delay(u, k) \in Int
          BY <1>1, <1>5, <5>1, <5>3, DelayBounded
        <5> QED  BY <5>2, <5>4
      <4>3. q' + Delay(u', j) <= QUIET
        BY <4>1, <4>2, <2>1, <1>3, <1>4, <1>7
      <4> QED  BY <4>1, <4>3 DEF QuietAt
    <3>3. \A i \in 0 .. InFlight(u) : RecKept(ph[i])
      BY DEF Shape
    <3> QED  BY <3>1, <3>2, <3>3, <2>1, EndNearer
  <2>2. ASSUME u.rec # <<>>, q + Delay(u, RecEnd(u)) <= QUIET
        PROVE  QuietAt(u', dn, q', pn)
    <3>1. /\ Delay(u', RecEnd(u')) <= Delay(u, RecEnd(u)) - 1
          /\ u'.rec = <<>> => \E k \in 1 .. InFlight(u') : Ends(pn, k) /\ k = RecEnd(u')
      BY <2>2, RecordNearer
    <3>2. Delay(u', RecEnd(u')) \in Int /\ Delay(u, RecEnd(u)) \in Int
      <4>1. RecEnd(u) \in Nat /\ RecEnd(u) >= 1
        <5>1. EscPush(u) \in 0 .. 1 /\ RecPushes(u) \in 0 .. 18 /\ RecPushes(u) >= 1
          BY <1>5, <2>2, PushesTyped
        <5> QED  BY <5>1, <1>5 DEF RecEnd, Pushes
      <4>2. RecEnd(u') \in Nat /\ RecEnd(u') >= 1
        <5>1. EscPush(u') \in 0 .. 1 /\ RecPushes(u') \in 0 .. 18 /\ (u'.rec # <<>> => RecPushes(u') >= 1)
          BY <1>5, PushesTyped
        <5>2. u'.rec = <<>> => RecEnd(u') \in 1 .. InFlight(u')
          BY <3>1
        <5>3. u'.rec # <<>> => EscPush(u') + RecPushes(u') >= 1
          BY <5>1
        <5>4. EscPush(u') + RecPushes(u') \in Nat /\ InFlight(u') \in Nat
          BY <5>1, <1>5
        <5>5. \A n, x \in Nat : n + x \in Nat /\ (x >= 1 => n + x >= 1) /\ (n + x \in 1 .. n => n + x >= 1)
          OBVIOUS
        <5> QED  BY <5>2, <5>3, <5>4, <5>5, Zenon DEF RecEnd, Pushes
      <4>3. u.nb <= LINE /\ used(u) < DEPTH /\ (u.push # NoByte => used(u) < DEPTH - 1)
        BY DEF IInv, PushHasRoom, Paced
      <4>4. Delay(u, RecEnd(u)) \in Int
        BY <1>1, <1>5, <4>1, <4>3, DelayBounded
      <4>5. Delay(u', RecEnd(u')) \in Int
        BY <1>1, <1>2, <1>5, <4>2, DelayBounded
      <4> QED  BY <4>4, <4>5
    <3>3. q' + Delay(u', RecEnd(u')) <= QUIET
      BY <3>1, <3>2, <2>2, <1>3, <1>4, <1>7
    <3> QED  BY <3>1, <3>3 DEF QuietAt
  <2>3. ASSUME NoRecord(u, ph), Quiescent(u, dut)
        PROVE  QuietAt(u', dn, q', pn)
    <3>1. Quiescent(u', dn) /\ ~Starting
      BY <2>3, QuiescentStep
    <3>2. NoRecord(u', pn)
      BY <2>3, <3>1, NoRecordStep
    <3> QED  BY <3>1, <3>2 DEF QuietAt
  <2>4. ASSUME NoRecord(u, ph), ~Quiescent(u, dut), q + NextStart(u, dut) + MaxDelay <= QUIET
        PROVE  QuietAt(u', dn, q', pn)
    <3>1. CASE Starting
      <4>1. NextStart(u, dut) = 1 /\ Starts(obs, ab)
        BY <3>1, SequencerStep DEF Starting, NextStart
      <4>2. u'.rec # <<>>
        <5>1. PICK cn \in COUNTS : u'.rec = Record(u, cn, FALSE)
          BY <4>1 DEF Starts, StartsTrial
        <5>2. u.trial \in TRIALS
          BY <1>1 DEF UartType
        <5> QED  BY <5>1, <5>2, RecordSome
      <4>3. Delay(u', RecEnd(u')) \in Int /\ Delay(u', RecEnd(u')) <= MaxDelay
        <5>1. EscPush(u') \in 0 .. 1 /\ RecPushes(u') \in 0 .. 18 /\ RecPushes(u') >= 1
          BY <1>5, <4>2, PushesTyped
        <5>2. RecEnd(u') \in Nat /\ RecEnd(u') >= 1 /\ RecEnd(u') <= RecEnd(u')
          BY <5>1, <1>5 DEF RecEnd, Pushes
        <5> QED  BY <1>1, <1>2, <1>5, <5>2, DelayBounded
      <4>4. q' + Delay(u', RecEnd(u')) <= QUIET
        BY <4>1, <4>3, <2>4, <1>3, <1>4, <1>7
      <4> QED  BY <4>2, <4>4 DEF QuietAt
    <3>2. CASE ~Starting
      <4>1. NoRecord(u', pn)
        BY <2>4, <3>2, NoRecordStep
      <4>2. u'.rst_q = dut.run
        BY SequencerStep
      <4>3. /\ dut.gap \in Int /\ (~dut.run => dut.gap \in 1 .. GAP) /\ dut.cnt \in 0 .. TO_THR
            /\ dut.run => u.rst_q /\ dut.to
        BY <2>4, <3>2 DEF Paced, Quiescent, Starting
      <4>4. NextStart(u, dut) = IF ~dut.run THEN dut.gap + 1 ELSE (TO_THR - dut.cnt) + GAP + 2
        BY <4>3 DEF NextStart
      <4>5. NextStart(u', dn) = IF ~dn.run THEN dn.gap + 1 ELSE IF ~dut.run THEN 1 ELSE (TO_THR - dn.cnt) + GAP + 2
        BY <4>2 DEF NextStart
      <4>6. \/ ~dut.run /\ dn.run
            \/ dut.run /\ dn.run /\ dut.cnt < TO_THR /\ dn.cnt = dut.cnt + 1
            \/ dut.run /\ ~dn.run /\ dn.gap = GAP
            \/ ~dut.run /\ ~dn.run /\ dn.gap = dut.gap - 1
        BY <4>3 DEF ClockStep, TrialStep, Releases, Continues, Halts, CountsDown
      <4>7. NextStart(u', dn) \in Int /\ NextStart(u, dut) \in Int /\ NextStart(u', dn) <= NextStart(u, dut) - 1
        BY <4>3, <4>4, <4>5, <4>6, <1>2, <1>4
      <4>8. q' + NextStart(u', dn) + MaxDelay <= QUIET
        BY <4>7, <2>4, <1>3, <1>4, <1>7
      <4> QED  BY <4>1, <4>8 DEF QuietAt
    <3> QED  BY <3>1, <3>2
  <2> QED  BY <2>1, <2>2, <2>3, <2>4 DEF QuietAt
<1> QED  BY <1>3, <1>6, <1>7

-----------------------------------------------------------------------------
(* A cycle during a campaign.                                                *)

\* What the sequencer's step makes of the parser at the end of the stream: a trial
\* starts, bytes of the trial under way move on, or its record does.
Moves(v, w, obs, ab, F, G) ==
  \/ Keeps(v, w, obs, ab) /\ v.rec = <<>> /\ w.rec = <<>> /\ BytesMove(v, w, F.runs, G.runs)
  \/ Keeps(v, w, obs, ab) /\ v.rec # <<>> /\ ~take_d(v) /\ RecordMoves(v, w, F, G)
Opens(v, w, obs, ab, F, G) ==
  /\ obs = NoByte /\ ~ab /\ G = F /\ StartsTrial(v, w)
  /\ v.rec = <<>> /\ v.esc = NoByte /\ v.dbuf = NoByte
  /\ w.rec # <<>> /\ PendTrial(w, G) = v.trial /\ w.rec[Len(w.rec)] = Flags(v, FALSE)

LEMMA StreamMoves ==
  ASSUME IInv, Paced, LeavesInTime, NEW obs \in Octet, NEW ab \in BOOLEAN, NEW dn \in DutType, ClockStep(obs, ab, dn),
         NEW F \in ParserType, RecKept(F), RecShape(u), EndShape(u, F),
         NEW G, G = IF u'.push = NoByte THEN F ELSE Byte(F, u'.push)
  PROVE  /\ G \in ParserType
         /\ IF Starting THEN Opens(u, u', obs, ab, F, G) ELSE Moves(u, u', obs, ab, F, G)
<1>1. u \in UartType /\ u' \in UartType
  BY CycleEdge DEF ClockStep
<1>2. G \in ParserType
  <2>1. u'.push \in Octet
    BY <1>1 DEF UartType
  <2> QED  BY <2>1, ByteParsed
<1>3. CASE Starting
  <2>1. Starts(obs, ab)
    BY <1>3, SequencerStep
  <2>2. /\ obs = NoByte /\ ~ab /\ StartsTrial(u, u') /\ u.rec = <<>> /\ u.esc = NoByte /\ u.dbuf = NoByte
        /\ G = F
    BY <2>1 DEF Starts, StartsTrial
  <2>3. PendTrial(u', F) = u.trial /\ u'.rec[Len(u'.rec)] = Flags(u, FALSE)
    BY <2>2, <1>1, EndStarts
  <2>4. u'.rec # <<>>
    BY <2>2, <1>1, EndStarts
  <2> QED  BY <2>2, <2>3, <2>4, <1>2, <1>3, Zenon DEF Opens
<1>4. CASE ~Starting
  <2>1. Keeps(u, u', obs, ab) /\ (Idles(u, u') \/ SendsEsc(u, u') \/ SendsRec(u, u') \/ SendsData(u, u'))
    BY <1>4, SequencerStep DEF Sends, Starts, Starting
  <2>2. CASE u.rec = <<>>
    <3>1. u'.rec = <<>> /\ BytesMove(u, u', F.runs, G.runs)
      BY <2>1, <2>2, <1>1, DataMoves
    <3> QED  BY <3>1, <2>1, <2>2, <1>2, <1>4 DEF Moves
  <2>3. CASE u.rec # <<>>
    <3>1. ~take_d(u) /\ RecordMoves(u, u', F, G)
      BY <2>1, <2>3, <1>1, RecMoves
    <3> QED  BY <3>1, <2>1, <2>3, <1>2, <1>4 DEF Moves
  <2> QED  BY <2>2, <2>3
<1> QED  BY <1>3, <1>4

\* The number of the last run.
LEMMA NumStep ==
  ASSUME NEW v, NEW w, NEW obs, NEW ab, NEW F \in ParserType, NEW G \in ParserType,
         Opens(v, w, obs, ab, F, G) \/ Moves(v, w, obs, ab, F, G), NEW f, NumIs(v, f, F)
  PROVE  NumIs(w, f, G)
<1>1. F.runs \in Seq(RunType) /\ G.runs \in Seq(RunType)
  BY DEF ParserType
<1>2. CASE Opens(v, w, obs, ab, F, G)
  <2>1. v.trial = NumAfter(f, F.runs)
    BY <1>2 DEF Opens, NumIs
  <2> QED  BY <2>1, <1>2 DEF Opens, StartsTrial, NumIs
<1>3. CASE v.rec = <<>> /\ w.rec = <<>> /\ BytesMove(v, w, F.runs, G.runs) /\ w.trial = v.trial
  <2>1. NumAfter(f, G.runs) = NumAfter(f, F.runs)
    <3>1. CASE F.runs = <<>>
      <4>1. G.runs = <<>>
        BY <3>1, <1>1, <1>3 DEF BytesMove
      <4> QED  BY <3>1, <4>1
    <3>2. CASE F.runs # <<>>
      <4>1. Len(F.runs) \in 1 .. Len(F.runs) /\ Len(G.runs) = Len(F.runs)
        BY <3>2, <1>1, <1>3 DEF BytesMove
      <4>2. G.runs # <<>>
        BY <4>1
      <4>3. G.runs[Len(G.runs)].trial = F.runs[Len(F.runs)].trial
        BY <4>1, <1>3 DEF BytesMove
      <4> QED  BY <4>2, <4>3, <3>2 DEF NumAfter
    <3> QED  BY <3>1, <3>2
  <2> QED  BY <2>1, <1>3 DEF NumIs
<1>4. CASE v.rec # <<>> /\ RecordMoves(v, w, F, G) /\ w.trial = v.trial
  <2>1. PendTrial(v, F) = NumAfter(f, F.runs) /\ v.trial = NextTrial(PendTrial(v, F))
    BY <1>4 DEF NumIs
  <2>2. CASE w.rec # <<>>
    BY <2>1, <2>2, <1>4 DEF RecordMoves, NumIs
  <2>3. CASE w.rec = <<>>
    <3>1. Begins(F.runs, PendTrial(v, F), v.rec[Len(v.rec)], G.runs)
      BY <2>3, <1>4 DEF RecordMoves
    <3>2. Len(G.runs) = Len(F.runs) + 1 /\ G.runs[Len(F.runs) + 1].trial = PendTrial(v, F) /\ Len(F.runs) \in Nat
      BY <3>1, <1>1 DEF Begins
    <3>3. NumAfter(f, G.runs) = NextTrial(PendTrial(v, F))
      BY <3>2, <1>1 DEF NumAfter
    <3> QED  BY <3>3, <2>1, <2>3, <1>4 DEF NumIs
  <2> QED  BY <2>2, <2>3
<1> QED  BY <1>2, <1>3, <1>4 DEF Moves, Keeps

\* The numbers of the runs.
LEMMA NumberedStep ==
  ASSUME NEW v, NEW w, NEW obs, NEW ab, NEW F \in ParserType, NEW G \in ParserType,
         Opens(v, w, obs, ab, F, G) \/ Moves(v, w, obs, ab, F, G), NEW f, NumIs(v, f, F), Numbered(f, F.runs)
  PROVE  Numbered(f, G.runs)
<1>1. Len(F.runs) \in Nat /\ F.runs \in Seq(RunType)
  BY DEF ParserType
<1>2. CASE G.runs = F.runs
  BY <1>2
<1>3. CASE BytesMove(v, w, F.runs, G.runs)
  <2> DEFINE n == Len(F.runs)
             r == F.runs
             s == G.runs
  <2>1. Len(s) = n /\ (\A j \in 1 .. n : s[j].trial = r[j].trial)
    BY <1>3 DEF BytesMove
  <2>2. \A j \in 1 .. n : r[j].trial = IF j = 1 THEN f ELSE NextTrial(r[j - 1].trial)
    BY DEF Numbered
  <2> HIDE DEF n, r, s
  <2>3. ASSUME NEW j \in 1 .. n  PROVE  s[j].trial = IF j = 1 THEN f ELSE NextTrial(s[j - 1].trial)
    <3>1. n \in Nat
      BY <1>1 DEF n
    <3>2. j # 1 => j - 1 \in 1 .. n
      BY <3>1
    <3> QED  BY <3>2, <2>1, <2>2
  <2> QED  BY <2>1, <2>3 DEF Numbered, s
<1>4. CASE v.rec # <<>> /\ Begins(F.runs, PendTrial(v, F), v.rec[Len(v.rec)], G.runs)
  <2> DEFINE n == Len(F.runs)
             r == F.runs
             s == G.runs
  <2>1. Len(s) = n + 1 /\ (\A j \in 1 .. n : s[j] = r[j]) /\ s[n + 1].trial = PendTrial(v, F)
    BY <1>4 DEF Begins
  <2>2. PendTrial(v, F) = IF n = 0 THEN f ELSE NextTrial(r[n].trial)
    <3>1. r = <<>> <=> n = 0
      BY <1>1
    <3> QED  BY <3>1, <1>4 DEF NumIs, NumAfter
  <2>3. \A j \in 1 .. n : r[j].trial = IF j = 1 THEN f ELSE NextTrial(r[j - 1].trial)
    BY DEF Numbered
  <2> HIDE DEF n, r, s
  <2>4. ASSUME NEW j \in 1 .. n + 1  PROVE  s[j].trial = IF j = 1 THEN f ELSE NextTrial(s[j - 1].trial)
    <3>0. n \in Nat
      BY <1>1 DEF n
    <3>1. CASE j \in 1 .. n
      <4>1. j # 1 => j - 1 \in 1 .. n
        BY <3>0, <3>1
      <4> QED  BY <4>1, <3>1, <2>1, <2>3
    <3>2. CASE j = n + 1
      <4>1. j # 1 => n \in 1 .. n /\ j - 1 = n /\ n # 0
        BY <3>0, <3>2
      <4>2. j = 1 => n = 0
        BY <3>0, <3>2
      <4> QED  BY <4>1, <4>2, <3>2, <2>1, <2>2
    <3> QED  BY <3>0, <3>1, <3>2
  <2> QED  BY <2>1, <2>4 DEF Numbered, s
<1> QED  BY <1>2, <1>3, <1>4 DEF Opens, Moves, RecordMoves

\* The log: the entry of the trial under way grows by what the cycle brings.
Grows(e, obs, ab, new) == new \in LogType /\ new.out = e.out \o Waiting(obs) /\ (new.abort <=> e.abort \/ ab)
LogGrows(lg, now, obs, ab, ln) ==
  /\ ln \in [1 .. N -> LogType]
  /\ \A j \in 1 .. N : IF j = now THEN Grows(lg[j], obs, ab, ln[j]) ELSE ln[j] = lg[j]

LEMMA LogStep ==
  ASSUME HostInv, NEW obs \in Octet, NEW ab \in BOOLEAN, NEW dn, Cycle(obs, ab, dn)
  PROVE  LogGrows(log, dut.now, obs, ab, log')
<1> DEFINE k == dut.now
           e == log[k]
           r == [e EXCEPT !.out = IF obs = NoByte THEN @ ELSE Append(@, obs), !.abort = @ \/ ab]
<1>1. log \in [1 .. N -> LogType] /\ N \in Nat
  BY BoardRunAssumption DEF HostInv
<1>2. log' = IF k = 0 THEN log ELSE [log EXCEPT ![k] = r]
  BY DEF Cycle
<1>3. ASSUME k \in 1 .. N  PROVE  Grows(e, obs, ab, r)
  <2>1. e \in LogType
    BY <1>1, <1>3
  <2> HIDE DEF e
  <2>2. e.out \in Seq(Octet) /\ e.abort \in BOOLEAN
    BY <2>1 DEF LogType
  <2> DEFINE out == IF obs = NoByte THEN e.out ELSE Append(e.out, obs)
             abort == e.abort \/ ab
  <2>3. r = [e EXCEPT !.out = out, !.abort = abort]
    OBVIOUS
  <2>4. abort \in BOOLEAN
    BY <2>2
  <2> HIDE DEF out, abort, r
  <2>40. r.out = out /\ r.abort = abort /\ r = [out |-> out, abort |-> abort]
    BY <2>1, <2>3 DEF LogType
  <2> USE DEF out
  <2>5. e.out \o Waiting(obs) = out
    <3>1. e.out \o <<>> = e.out /\ e.out \o <<obs>> = Append(e.out, obs)
      BY <2>2
    <3> QED  BY <3>1, Zenon DEF Waiting
  <2>6. out \in Seq(Octet)
    BY <2>2
  <2> HIDE DEF out
  <2>7. r \in LogType
    BY <2>40, <2>4, <2>6, Zenon DEF LogType
  <2> QED  BY <2>40, <2>5, <2>7, Zenon DEF Grows, abort
<1> HIDE DEF r, e
<1>4. CASE k \in 1 .. N
  <2>1. log' = [log EXCEPT ![k] = r] /\ r \in LogType
    BY <1>1, <1>2, <1>3, <1>4 DEF Grows
  <2>2. log' \in [1 .. N -> LogType] /\ \A j \in 1 .. N : log'[j] = IF j = k THEN r ELSE log[j]
    BY <2>1, <1>1
  <2>3. ASSUME NEW j \in 1 .. N  PROVE  IF j = k THEN Grows(log[j], obs, ab, log'[j]) ELSE log'[j] = log[j]
    BY <2>2, <1>3, <1>4 DEF e
  <2> QED  BY <2>2, <2>3, Zenon DEF LogGrows
<1>5. CASE k \notin 1 .. N
  <2>1. log' = log
    <3>1. [log EXCEPT ![k] = r] = log
      BY <1>1, <1>5
    <3> QED  BY <3>1, <1>2
  <2> QED  BY <2>1, <1>1, <1>5, Zenon DEF LogGrows
<1> QED  BY <1>4, <1>5

\* The trial under way: a byte of the DUT waits in the data register, is dropped with
\* a flag, or there is none.
LEMMA UnderWayStep ==
  ASSUME NEW v \in UartType, NEW w \in UartType, NEW obs \in Octet, NEW ab, Keeps(v, w, obs, ab),
         NEW b \in Seq(Octet), NEW e \in LogType, UnderWay(v, b \o Left(v), e), NEW en, Grows(e, obs, ab, en)
  PROVE  UnderWay(w, b \o Waiting(w.dbuf), en)
<1>1. v.dbuf \in Octet /\ w.dbuf \in Octet /\ e.out \in Seq(Octet)
  BY DEF UartType, LogType
<1>2. w.f_abort <=> en.abort
  BY Zenon DEF UnderWay, Keeps, Grows
<1>3. ASSUME ~w.f_lost  PROVE  b \o Waiting(w.dbuf) = en.out
  <2>1. ~v.f_lost /\ ~lost(v, obs)
    BY <1>3, Zenon DEF Keeps
  <2>2. Waiting(obs) \in Seq(Octet) /\ Left(v) \in Seq(Octet)
    <3>1. Waiting(obs) \in Seq(Octet) /\ Waiting(v.dbuf) \in Seq(Octet) /\ <<>> \in Seq(Octet)
      BY <1>1, EscapesTyped
    <3> QED  BY <3>1, Zenon DEF Left
  <2>3. Waiting(w.dbuf) = Left(v) \o Waiting(obs)
    <3>1. CASE obs = NoByte
      <4>1. Waiting(w.dbuf) = Left(v)
        BY <3>1, Zenon DEF Keeps, Left, Waiting
      <4>2. Waiting(obs) = <<>>
        BY <3>1 DEF Waiting
      <4> QED  BY <4>1, <4>2, <2>2
    <3>2. CASE obs # NoByte
      <4>1. w.dbuf = obs
        BY <3>2, <2>1, Zenon DEF Keeps
      <4>2. Left(v) = <<>>
        BY <3>2, <2>1, Zenon DEF lost, Left, Waiting
      <4> QED  BY <4>1, <4>2, <2>2
    <3> QED  BY <3>1, <3>2
  <2>4. b \o Waiting(w.dbuf) = (b \o Left(v)) \o Waiting(obs)
    BY <2>2, <2>3, ConcatAssociative
  <2>5. e.out = b \o Left(v) /\ en.out = e.out \o Waiting(obs)
    BY <2>1, Zenon DEF UnderWay, Grows
  <2> QED  BY <2>4, <2>5
<1> QED  BY <1>2, <1>3, Zenon DEF UnderWay

\* A trial that starts has its record loaded; nothing else loads one.
LEMMA LoadedStep ==
  ASSUME NEW v, NEW w, NEW obs, NEW ab, NEW F \in ParserType, NEW G \in ParserType, NEW b \in BOOLEAN,
         IF b THEN Opens(v, w, obs, ab, F, G) ELSE Moves(v, w, obs, ab, F, G)
  PROVE  Loaded(v, F) \in Nat /\ Loaded(w, G) = Loaded(v, F) + One(b) /\ Len(G.runs) >= Len(F.runs)
<1> DEFINE n == Len(F.runs)
           m == Len(G.runs)
           x == One(v.rec # <<>>)
           y == One(w.rec # <<>>)
<1>1. n \in Nat /\ m \in Nat
  <2>1. F.runs \in Seq(RunType) /\ G.runs \in Seq(RunType)
    BY DEF ParserType
  <2> QED  BY <2>1
<1>2. x \in 0 .. 1 /\ (x = 1 <=> v.rec # <<>>) /\ y \in 0 .. 1 /\ (y = 1 <=> w.rec # <<>>)
  BY OneTyped
<1>3. CASE b
  <2>1. v.rec = <<>> /\ w.rec # <<>> /\ m = n
    BY <1>3 DEF Opens
  <2>2. One(b) = 1
    BY <1>3 DEF One
  <2> HIDE DEF n, m, x, y
  <2> QED  BY <2>1, <2>2, <1>1, <1>2 DEF Loaded, n, m, x, y
<1>4. CASE ~b
  <2>1. \/ v.rec = <<>> /\ w.rec = <<>> /\ m = n
        \/ v.rec # <<>> /\ w.rec # <<>> /\ m = n
        \/ v.rec # <<>> /\ w.rec = <<>> /\ m = n + 1
    BY <1>4 DEF Moves, BytesMove, RecordMoves, Begins
  <2>2. One(b) = 0
    BY <1>4 DEF One
  <2> HIDE DEF n, m, x, y
  <2>3. x \in Int /\ y \in Int /\ m + y = n + x /\ m >= n
    BY <2>1, <1>1, <1>2
  <2> QED  BY <2>2, <2>3, <1>1, <1>2 DEF Loaded, n, m, x, y
<1> QED  BY <1>3, <1>4

LEMMA CountStep ==
  ASSUME IInv, Paced, LeavesInTime, NEW obs \in Octet, NEW ab \in BOOLEAN, NEW dn \in DutType, ClockStep(obs, ab, dn),
         NEW F \in ParserType, NEW G \in ParserType,
         IF Starting THEN Opens(u, u', obs, ab, F, G) ELSE Moves(u, u', obs, ab, F, G),
         NEW r \in BOOLEAN, CountIs(u, dut, r, F)
  PROVE  CountIs(u', dn, r, G)
<1> DEFINE s == Started(u, dut, F)
           t == Started(u', dn, G)
           on == dn.run /\ ~dut.run
<1>1. u \in UartType /\ u' \in UartType /\ u'.rst_q = dut.run /\ dut \in DutType /\ Starting \in BOOLEAN
  <2>1. u \in UartType /\ dut \in DutType
    BY Zenon DEF IInv, TypeOK
  <2>2. Starting \in BOOLEAN
    BY <2>1, Zenon DEF Starting
  <2>3. u' \in UartType /\ u'.rst_q = dut.run
    BY CycleEdge DEF ClockStep, Edge
  <2> QED  BY <2>1, <2>2, <2>3
<1>2. s \in Nat /\ t = s + One(on)
  <2>1. Loaded(u, F) \in Nat /\ Loaded(u', G) = Loaded(u, F) + One(Starting)
    BY <1>1, LoadedStep
  <2>2. s = Loaded(u, F) + One(Starting) /\ t = Loaded(u', G) + One(on)
    <3>1. s = Loaded(u, F) + One(Starting)
      BY Zenon DEF Started, Starting
    <3>2. t = Loaded(u', G) + One(on)
      BY <1>1, Zenon DEF Started
    <3> QED  BY <3>1, <3>2
  <2>3. One(Starting) \in 0 .. 1 /\ One(on) \in 0 .. 1
    BY DEF One
  <2> HIDE DEF s, t, on
  <2> QED  BY <2>1, <2>2, <2>3
<1>3. N \in Nat /\ N > 0 /\ One(TRUE) = 1 /\ One(FALSE) = 0
  BY BoardRunAssumption DEF One
<1>4. IF s = 0 THEN dut.now = 0 /\ dut.next = One(r) /\ (~r => Quiescent(u, dut))
      ELSE r /\ IF s <= N THEN dut.now = s /\ dut.next = s + 1 ELSE dut.now = 0 /\ dut.next = 0
  BY DEF CountIs
<1>5. CASE Releases(dn)
  <2>1. /\ dn.now = IF dut.next \in 1 .. N THEN dut.next ELSE 0
        /\ dn.next = IF dut.next \in 1 .. N THEN dut.next + 1 ELSE 0
        /\ dn.run /\ ~dut.run
    BY <1>5 DEF Releases
  <2>2. One(on) = 1
    BY <2>1, <1>3
  <2>3. r
    BY <2>1, <1>4 DEF Quiescent
  <2>4. s = 0 => dut.next = 1
    BY <2>3, <1>3, <1>4
  <2> HIDE DEF s, t, on
  <2>5. t = s + 1
    BY <2>2, <1>2
  <2>6. IF t <= N THEN dn.now = t /\ dn.next = t + 1 ELSE dn.now = 0 /\ dn.next = 0
    BY <2>1, <2>4, <2>5, <1>2, <1>3, <1>4
  <2>7. t # 0
    BY <2>5, <1>2
  <2> QED  BY <2>3, <2>6, <2>7 DEF CountIs, t
<1>6. CASE ~Releases(dn)
  <2>1. dn.now = dut.now /\ dn.next = dut.next /\ ~on
    BY <1>6 DEF ClockStep, TrialStep, Continues, Halts, CountsDown
  <2>2. t = s
    <3>1. One(on) = 0
      BY <2>1, <1>3
    <3> HIDE DEF s, t, on
    <3> QED  BY <3>1, <1>2
  <2>3. Quiescent(u, dut) => Quiescent(u', dn)
    BY QuiescentStep
  <2> HIDE DEF s, t, on
  <2> QED  BY <2>1, <2>2, <2>3, <1>4 DEF CountIs, t
<1> QED  BY <1>5, <1>6

\* The flags of a record tell of the trial before it.
LEMMA FlagsTell ==
  ASSUME NEW v, NEW run, NEW e, UnderWay(v, run.data, e)
  PROVE  Faithful(run, Flags(v, FALSE), e)
<1>1. CASE v.f_lost
  <2>1. Flags(v, FALSE) >= 2
    BY <1>1 DEF Flags
  <2> QED  BY <2>1 DEF Faithful
<1>2. CASE ~v.f_lost
  <2>1. Flags(v, FALSE) = IF v.f_abort THEN 1 ELSE 0
    BY <1>2 DEF Flags
  <2>2. Flags(v, FALSE) % 2 = 1 <=> v.f_abort
    <3>1. 1 % 2 = 1 /\ 0 % 2 # 1
      OBVIOUS
    <3>2. CASE v.f_abort
      <4>1. Flags(v, FALSE) = 1
        BY <2>1, <3>2, Zenon
      <4> QED  BY <4>1, <3>1, <3>2, Zenon
    <3>3. CASE ~v.f_abort
      <4>1. Flags(v, FALSE) = 0
        BY <2>1, <3>3, Zenon
      <4> QED  BY <4>1, <3>1, <3>3, Zenon
    <3> QED  BY <3>2, <3>3
  <2>3. run.data = e.out /\ (v.f_abort <=> e.abort)
    BY <1>2, Zenon DEF UnderWay
  <2> QED  BY <2>2, <2>3, Zenon DEF Faithful
<1> QED  BY <1>1, <1>2

\* A cycle without a byte and without an abort leaves the log as it is.
LEMMA LogRests ==
  ASSUME NEW lg \in [1 .. N -> LogType], NEW now, NEW ln, LogGrows(lg, now, NoByte, FALSE, ln)
  PROVE  ln = lg
<1>1. ASSUME NEW j \in 1 .. N  PROVE  ln[j] = lg[j]
  <2>1. CASE j = now
    <3> DEFINE e == lg[j]
               n == ln[j]
    <3>1. Grows(e, NoByte, FALSE, n) /\ e \in LogType
      BY <2>1 DEF LogGrows
    <3> HIDE DEF e, n
    <3>2. n \in LogType /\ n.out = e.out \o <<>> /\ (n.abort <=> e.abort)
      BY <3>1, Zenon DEF Grows, Waiting
    <3>3. e.out \in Seq(Octet) /\ e.abort \in BOOLEAN /\ n.abort \in BOOLEAN
      BY <3>1, <3>2 DEF LogType
    <3>4. n.out = e.out
      BY <3>2, <3>3
    <3>5. n.abort = e.abort
      BY <3>2, <3>3
    <3>6. n = [out |-> n.out, abort |-> n.abort] /\ e = [out |-> e.out, abort |-> e.abort]
      BY <3>1, <3>2 DEF LogType
    <3>7. n = e
      BY <3>4, <3>5, <3>6, Zenon
    <3> QED  BY <3>7 DEF n, e
  <2>2. CASE j # now
    BY <2>2 DEF LogGrows
  <2> QED  BY <2>1, <2>2
<1>2. DOMAIN ln = 1 .. N /\ DOMAIN lg = 1 .. N /\ ln = [j \in 1 .. N |-> ln[j]] /\ lg = [j \in 1 .. N |-> lg[j]]
  BY DEF LogGrows
<1> QED  BY <1>1, <1>2, Zenon

\* The runs of trials that are over stay faithful.
LEMMA FaithfulRests ==
  ASSUME NEW lg, NEW now \in Int, NEW obs, NEW ab, NEW ln, LogGrows(lg, now, obs, ab, ln),
         NEW k \in Nat, now = 0 \/ now >= k,
         NEW rs, Len(rs) \in Nat, Len(rs) <= k, FaithfulRuns(lg, rs)
  PROVE  FaithfulRuns(ln, rs)
<1> SUFFICES ASSUME NEW j \in 1 .. Len(rs) - 1, j <= N
             PROVE  Faithful(rs[j], rs[j + 1].flags_prev, ln[j])
  BY DEF FaithfulRuns
<1>1. N \in Nat
  BY BoardRunAssumption
<1>2. j \in 1 .. N /\ j # now
  BY <1>1
<1>3. ln[j] = lg[j]
  BY <1>2 DEF LogGrows
<1> QED  BY <1>3 DEF FaithfulRuns

\* The trial that runs is the last one with a record.
NowIs(v, now, F) == LET k == Loaded(v, F) IN now = IF k \in 1 .. N THEN k ELSE 0

\* A trial starts: its predecessor's record says how that one ended.
LEMMA DataOpens ==
  ASSUME NEW v \in UartType, NEW w \in UartType, NEW F \in ParserType, NEW lg \in [1 .. N -> LogType],
         Opens(v, w, NoByte, FALSE, F, F), DataIs(v, lg, F), FutureIs(v, lg, F)
  PROVE  DataIs(w, lg, F) /\ FutureIs(w, lg, F)
<1> DEFINE k == Len(F.runs)
<1>1. /\ v.rec = <<>> /\ v.esc = NoByte /\ v.dbuf = NoByte /\ w.rec # <<>> /\ w.rec[Len(w.rec)] = Flags(v, FALSE)
      /\ w.dbuf = NoByte /\ ~w.f_lost /\ ~w.f_abort
  BY DEF Opens, StartsTrial
<1>2. k \in Nat /\ Loaded(v, F) = k /\ Loaded(w, F) = k + 1
  <2>1. k \in Nat
    BY DEF ParserType
  <2>2. One(v.rec # <<>>) = 0 /\ One(w.rec # <<>>) = 1
    BY <1>1 DEF One
  <2> QED  BY <2>1, <2>2 DEF Loaded
<1>3. ASSUME k \in 1 .. N  PROVE  Faithful(F.runs[k], w.rec[Len(w.rec)], lg[k])
  <2> DEFINE run == F.runs[k]
             e == lg[k]
  <2>1. UnderWay(v, run.data \o Escaping(v.esc) \o Waiting(v.dbuf), e)
    BY <1>1, <1>3 DEF DataIs
  <2>2. run.data \in Seq(Octet)
    <3>1. run \in RunType
      BY <1>3 DEF ParserType
    <3> QED  BY <3>1, Zenon DEF RunType
  <2> HIDE DEF run, e
  <2>3. run.data \o Escaping(v.esc) \o Waiting(v.dbuf) = run.data
    <3>1. Escaping(v.esc) = <<>> /\ Waiting(v.dbuf) = <<>>
      BY <1>1 DEF Escaping, Waiting
    <3> QED  BY <3>1, <2>2
  <2>4. Faithful(run, Flags(v, FALSE), e)
    BY <2>1, <2>3, FlagsTell
  <2> QED  BY <2>4, <1>1 DEF run, e
<1>4. ASSUME k + 1 \in 1 .. N  PROVE  UnderWay(w, Waiting(w.dbuf), lg[k + 1])
  <2>1. lg[k + 1] = [out |-> <<>>, abort |-> FALSE]
    <3>1. k + 1 > Loaded(v, F)
      BY <1>2
    <3> HIDE DEF k
    <3> QED  BY <3>1, <1>4, Zenon DEF FutureIs
  <2>2. lg[k + 1].out = <<>> /\ ~lg[k + 1].abort
    BY <2>1
  <2> QED  BY <2>2, <1>1, Zenon DEF UnderWay, Waiting
<1>5. FutureIs(w, lg, F)
  <2>1. \A j \in 1 .. N : j > k + 1 => j > k
    BY <1>2
  <2> QED  BY <2>1, <1>2 DEF FutureIs
<1> QED  BY <1>1, <1>3, <1>4, <1>5 DEF DataIs

\* A byte of the trial under way moves on.
LEMMA DataMovesOn ==
  ASSUME NEW v \in UartType, NEW w \in UartType, NEW F \in ParserType, NEW G \in ParserType, NEW lg \in [1 .. N -> LogType],
         NEW obs \in Octet, NEW ab, Keeps(v, w, obs, ab), v.rec = <<>>, w.rec = <<>>, BytesMove(v, w, F.runs, G.runs),
         NEW now, NowIs(v, now, F), NEW ln, LogGrows(lg, now, obs, ab, ln),
         DataIs(v, lg, F), FutureIs(v, lg, F)
  PROVE  DataIs(w, ln, G) /\ FutureIs(w, ln, G)
<1> DEFINE k == Len(F.runs)
<1>1. k \in Nat /\ Len(G.runs) = k /\ Loaded(v, F) = k /\ Loaded(w, G) = k
  <2>1. k \in Nat
    BY DEF ParserType
  <2>2. One(v.rec # <<>>) = 0 /\ One(w.rec # <<>>) = 0
    BY DEF One
  <2>3. Len(G.runs) = k
    BY DEF BytesMove
  <2> QED  BY <2>1, <2>2, <2>3 DEF Loaded
<1>2. now = IF k \in 1 .. N THEN k ELSE 0
  BY <1>1 DEF NowIs
<1>3. ASSUME k \in 1 .. N  PROVE  UnderWay(w, G.runs[k].data \o Escaping(w.esc) \o Waiting(w.dbuf), ln[k])
  <2> DEFINE b == G.runs[k].data \o Escaping(w.esc)
             e == lg[k]
             en == ln[k]
             old == F.runs[k].data \o Escaping(v.esc) \o Waiting(v.dbuf)
  <2>1. UnderWay(v, old, e)
    BY <1>3 DEF DataIs
  <2>2. b \o Left(v) = old
    <3>1. k \in 1 .. Len(F.runs)
      BY <1>3
    <3> QED  BY <3>1 DEF BytesMove
  <2>3. b \in Seq(Octet)
    <3>1. G.runs[k] \in RunType
      BY <1>1, <1>3 DEF ParserType
    <3>2. G.runs[k].data \in Seq(Octet)
      BY <3>1, Zenon DEF RunType
    <3>3. Escaping(w.esc) \in Seq(Octet)
      BY EscapesTyped DEF UartType
    <3> QED  BY <3>2, <3>3
  <2>4. e \in LogType /\ Grows(e, obs, ab, en)
    BY <1>2, <1>3 DEF LogGrows
  <2> HIDE DEF b, e, en, old
  <2>5. UnderWay(v, b \o Left(v), e)
    BY <2>1, <2>2
  <2>6. UnderWay(w, b \o Waiting(w.dbuf), en)
    BY <2>3, <2>4, <2>5, UnderWayStep
  <2> QED  BY <2>6 DEF b, en
<1>4. FutureIs(w, ln, G)
  <2>1. \A j \in 1 .. N : j > k => j # now
    BY <1>1, <1>2
  <2>2. \A j \in 1 .. N : j > k => ln[j] = lg[j]
    BY <2>1 DEF LogGrows
  <2> QED  BY <2>2, <1>1 DEF FutureIs
<1>5. DataIs(w, ln, G) <=> (k \in 1 .. N => UnderWay(w, G.runs[k].data \o Escaping(w.esc) \o Waiting(w.dbuf), ln[k]))
  <2>1. Len(G.runs) = k
    BY <1>1
  <2> HIDE DEF k
  <2> QED  BY <2>1, Zenon DEF DataIs
<1> QED  BY <1>3, <1>4, <1>5

\* A byte of the record moves on; the trial under way waits.
LEMMA DataWaits ==
  ASSUME NEW v \in UartType, NEW w \in UartType, NEW F \in ParserType, NEW G \in ParserType, NEW lg \in [1 .. N -> LogType],
         NEW obs \in Octet, NEW ab, Keeps(v, w, obs, ab), v.rec # <<>>, ~take_d(v), RecordMoves(v, w, F, G),
         NEW now, NowIs(v, now, F), NEW ln, LogGrows(lg, now, obs, ab, ln),
         DataIs(v, lg, F), FutureIs(v, lg, F)
  PROVE  DataIs(w, ln, G) /\ FutureIs(w, ln, G)
<1> DEFINE k == Len(F.runs)
<1>1. k \in Nat /\ Loaded(v, F) = k + 1 /\ Loaded(w, G) = k + 1
  <2>1. k \in Nat
    BY DEF ParserType
  <2>2. One(v.rec # <<>>) = 1
    BY DEF One
  <2>3. CASE w.rec # <<>>
    <3>1. One(w.rec # <<>>) = 1
      BY <2>3 DEF One
    <3>2. Len(G.runs) = k
      BY <2>3 DEF RecordMoves
    <3> QED  BY <2>1, <2>2, <3>1, <3>2 DEF Loaded
  <2>4. CASE w.rec = <<>>
    <3>1. One(w.rec # <<>>) = 0
      BY <2>4 DEF One
    <3>2. Len(G.runs) = k + 1
      BY <2>4 DEF RecordMoves, Begins
    <3> QED  BY <2>1, <2>2, <3>1, <3>2 DEF Loaded
  <2> QED  BY <2>3, <2>4
<1>2. now = IF k + 1 \in 1 .. N THEN k + 1 ELSE 0
  BY <1>1 DEF NowIs
<1>3. ASSUME k + 1 \in 1 .. N  PROVE  UnderWay(w, Waiting(w.dbuf), ln[k + 1])
  <2> DEFINE e == lg[k + 1]
             en == ln[k + 1]
  <2>1. UnderWay(v, Waiting(v.dbuf), e)
    BY <1>3 DEF DataIs
  <2>2. e \in LogType /\ Grows(e, obs, ab, en)
    BY <1>2, <1>3 DEF LogGrows
  <2>3. Left(v) = Waiting(v.dbuf)
    BY DEF Left
  <2>4. <<>> \in Seq(Octet) /\ Waiting(v.dbuf) \in Seq(Octet) /\ Waiting(w.dbuf) \in Seq(Octet)
    BY EscapesTyped DEF UartType
  <2>5. <<>> \o Left(v) = Waiting(v.dbuf) /\ <<>> \o Waiting(w.dbuf) = Waiting(w.dbuf)
    BY <2>3, <2>4
  <2> HIDE DEF e, en
  <2>6. UnderWay(v, <<>> \o Left(v), e)
    BY <2>1, <2>5
  <2>7. UnderWay(w, <<>> \o Waiting(w.dbuf), en)
    BY <2>2, <2>4, <2>6, UnderWayStep
  <2> QED  BY <2>5, <2>7 DEF en
<1>4. FutureIs(w, ln, G)
  <2>1. \A j \in 1 .. N : j > k + 1 => j # now
    BY <1>1, <1>2
  <2>2. \A j \in 1 .. N : j > k + 1 => ln[j] = lg[j]
    BY <2>1 DEF LogGrows
  <2> QED  BY <2>2, <1>1 DEF FutureIs
<1>5. CASE w.rec # <<>>
  <2>1. Len(G.runs) = k /\ G.runs = F.runs /\ w.rec[Len(w.rec)] = v.rec[Len(v.rec)]
    BY <1>5 DEF RecordMoves
  <2>2. ASSUME k \in 1 .. N  PROVE  Faithful(G.runs[k], w.rec[Len(w.rec)], ln[k])
    <3>1. k # now
      <4> HIDE DEF k
      <4> QED  BY <2>2, <1>1, <1>2
    <3>2. ln[k] = lg[k]
      BY <3>1, <2>2 DEF LogGrows
    <3>3. Faithful(F.runs[k], v.rec[Len(v.rec)], lg[k])
      BY <2>2 DEF DataIs
    <3> QED  BY <2>1, <3>2, <3>3
  <2> HIDE DEF k
  <2>3. DataIs(w, ln, G)
    BY <2>1, <2>2, <1>3, <1>5, Zenon DEF DataIs
  <2> QED  BY <2>3, <1>4
<1>6. CASE w.rec = <<>>
  <2>1. Begins(F.runs, PendTrial(v, F), v.rec[Len(v.rec)], G.runs) /\ w.esc = NoByte
    BY <1>6 DEF RecordMoves
  <2>2. Len(G.runs) = k + 1 /\ G.runs[k + 1].data = <<>>
    BY <2>1 DEF Begins
  <2>3. <<>> \o Escaping(w.esc) \o Waiting(w.dbuf) = Waiting(w.dbuf)
    <3>1. Escaping(w.esc) = <<>>
      BY <2>1 DEF Escaping
    <3>2. Waiting(w.dbuf) \in Seq(Octet)
      BY EscapesTyped DEF UartType
    <3> QED  BY <3>1, <3>2
  <2> HIDE DEF k
  <2>4. DataIs(w, ln, G)
    BY <2>2, <2>3, <1>3, <1>6, Zenon DEF DataIs
  <2> QED  BY <2>4, <1>4
<1> QED  BY <1>5, <1>6

\* The runs stay faithful, and so is the one that a record closes.
LEMMA FaithfulStep ==
  ASSUME NEW v, NEW w, NEW F \in ParserType, NEW G \in ParserType, NEW lg \in [1 .. N -> LogType],
         NEW obs, NEW ab, Moves(v, w, obs, ab, F, G),
         NEW now, NowIs(v, now, F), NEW ln, LogGrows(lg, now, obs, ab, ln),
         DataIs(v, lg, F), FaithfulRuns(lg, F.runs)
  PROVE  /\ FaithfulRuns(ln, G.runs)
         /\ \A s \in ParserType : Len(s.runs) <= Len(F.runs) /\ FaithfulRuns(lg, s.runs) => FaithfulRuns(ln, s.runs)
<1> DEFINE k == Len(F.runs)
           r == F.runs
           s == G.runs
<1>1. k \in Nat /\ N \in Nat /\ (\A p \in ParserType : Len(p.runs) \in Nat)
  BY BoardRunAssumption DEF ParserType
<1>2. now \in Int /\ (now = 0 \/ now >= k) /\ (v.rec # <<>> => now # k \/ k = 0)
  <2>1. One(v.rec # <<>>) \in 0 .. 1 /\ (v.rec # <<>> => One(v.rec # <<>>) = 1)
    BY DEF One
  <2>2. Loaded(v, F) = k + One(v.rec # <<>>)
    BY DEF Loaded
  <2> HIDE DEF k
  <2> QED  BY <2>1, <2>2, <1>1 DEF NowIs
<1>3. \A p \in ParserType : Len(p.runs) <= k /\ FaithfulRuns(lg, p.runs) => FaithfulRuns(ln, p.runs)
  BY <1>1, <1>2, FaithfulRests
<1>4. FaithfulRuns(ln, r)
  BY <1>1, <1>3
<1>5. CASE BytesMove(v, w, F.runs, G.runs)
  <2>1. /\ Len(s) = k
        /\ \A j \in 1 .. k : s[j].flags_prev = r[j].flags_prev /\ (j # k => s[j].data = r[j].data)
    BY <1>5 DEF BytesMove
  <2> HIDE DEF k, r, s
  <2>2. ASSUME NEW j \in 1 .. k - 1, j <= N  PROVE  Faithful(s[j], s[j + 1].flags_prev, ln[j])
    <3>1. j \in 1 .. k /\ j + 1 \in 1 .. k /\ j # k
      BY <1>1
    <3>2. Faithful(r[j], r[j + 1].flags_prev, ln[j])
      BY <2>2, <1>4 DEF FaithfulRuns, k, r
    <3>3. s[j].data = r[j].data /\ s[j + 1].flags_prev = r[j + 1].flags_prev
      BY <3>1, <2>1
    <3> QED  BY <3>2, <3>3, Zenon DEF Faithful
  <2>3. FaithfulRuns(ln, s)
    BY <2>1, <2>2 DEF FaithfulRuns
  <2> QED  BY <2>3, <1>3 DEF k, s
<1>6. CASE G.runs = F.runs
  BY <1>3, <1>4, <1>6
<1>7. CASE v.rec # <<>> /\ Begins(F.runs, PendTrial(v, F), v.rec[Len(v.rec)], G.runs)
  <2>1. Len(s) = k + 1 /\ (\A j \in 1 .. k : s[j] = r[j]) /\ s[k + 1].flags_prev = v.rec[Len(v.rec)]
    BY <1>7 DEF Begins
  <2>2. k \in 1 .. N => Faithful(r[k], v.rec[Len(v.rec)], lg[k])
    BY <1>7 DEF DataIs
  <2> HIDE DEF k, r, s
  <2>3. ASSUME NEW j \in 1 .. k, j <= N  PROVE  Faithful(s[j], s[j + 1].flags_prev, ln[j])
    <3>1. CASE j = k
      <4>1. k \in 1 .. N /\ k # now
        BY <3>1, <2>3, <1>1, <1>2, <1>7
      <4>2. ln[k] = lg[k]
        BY <4>1 DEF LogGrows
      <4> QED  BY <4>1, <4>2, <3>1, <2>1, <2>2
    <3>2. CASE j # k
      <4>1. j \in 1 .. k - 1 /\ j + 1 \in 1 .. k
        BY <3>2, <1>1
      <4>2. Faithful(r[j], r[j + 1].flags_prev, ln[j])
        BY <4>1, <2>3, <1>4 DEF FaithfulRuns, k, r
      <4> QED  BY <4>1, <4>2, <2>1
    <3> QED  BY <3>1, <3>2
  <2>4. FaithfulRuns(ln, s)
    <3>1. (k + 1) - 1 = k
      BY <1>1
    <3> QED  BY <3>1, <2>1, <2>3 DEF FaithfulRuns
  <2> QED  BY <2>4, <1>3 DEF k, s
<1> QED  BY <1>5, <1>6, <1>7 DEF Moves, RecordMoves

\* No trial is starting: the one that runs has its record.
LEMMA NowOf ==
  ASSUME NEW F \in ParserType, NEW r, CountIs(u, dut, r, F), ~Starting
  PROVE  NowIs(u, dut.now, F)
<1>1. Started(u, dut, F) = Loaded(u, F) + 0
  BY DEF Started, Starting, One
<1>2. Loaded(u, F) \in Nat /\ N \in Nat
  <2>1. Len(F.runs) \in Nat
    BY DEF ParserType
  <2>2. One(u.rec # <<>>) \in 0 .. 1
    BY DEF One
  <2> QED  BY <2>1, <2>2, BoardRunAssumption DEF Loaded
<1>3. Started(u, dut, F) = Loaded(u, F)
  BY <1>1, <1>2
<1> QED  BY <1>2, <1>3 DEF CountIs, NowIs

\* A cycle during a campaign: the runs that the host has and will have are the trials'.
LEMMA CampaignStep ==
  ASSUME IInv, HostInv, Paced, LeavesInTime, NEW obs \in Octet, NEW ab \in BOOLEAN, NEW dn \in DutType, ClockStep(obs, ab, dn),
         NEW F \in ParserType, RecKept(F), RecShape(u), EndShape(u, F),
         NEW G, G = IF u'.push = NoByte THEN F ELSE Byte(F, u'.push),
         CampaignIs(u, dut, reached, first, log, F), RunsAre(first, log, F, F)
  PROVE  /\ CampaignIs(u', dn, reached, first, log', G) /\ RunsAre(first, log', G, G)
         /\ \A s \in ParserType : RunsAre(first, log, F, s) => RunsAre(first, log', G, s)
<1>1. /\ u \in UartType /\ u' \in UartType /\ dut.now \in Int /\ reached \in BOOLEAN /\ Starting \in BOOLEAN
      /\ log \in [1 .. N -> LogType] /\ LogGrows(log, dut.now, obs, ab, log')
  <2>1. u \in UartType /\ u' \in UartType
    BY CycleEdge DEF ClockStep
  <2>2. dut.now \in Int /\ Starting \in BOOLEAN
    BY DEF IInv, TypeOK, DutType, Number, Starting
  <2>3. LogGrows(log, dut.now, obs, ab, log')
    BY LogStep DEF ClockStep
  <2> QED  BY <2>1, <2>2, <2>3 DEF HostInv
<1>2. G \in ParserType /\ IF Starting THEN Opens(u, u', obs, ab, F, G) ELSE Moves(u, u', obs, ab, F, G)
  BY StreamMoves
<1>3. NumIs(u, first, F) /\ CountIs(u, dut, reached, F) /\ DataIs(u, log, F) /\ FutureIs(u, log, F)
  BY DEF CampaignIs
<1>4. Numbered(first, F.runs) /\ FaithfulRuns(log, F.runs) /\ Len(F.runs) \in Nat /\ Len(G.runs) \in Nat
  BY <1>2 DEF RunsAre, ParserType
<1>5. NumIs(u', first, G)
  BY <1>2, <1>3, NumStep
<1>6. Numbered(first, G.runs)
  BY <1>2, <1>3, <1>4, NumberedStep
<1>7. CountIs(u', dn, reached, G)
  BY <1>1, <1>2, <1>3, CountStep
<1>8. Len(G.runs) >= Len(F.runs)
  BY <1>1, <1>2, LoadedStep
<1>9. /\ DataIs(u', log', G) /\ FutureIs(u', log', G) /\ FaithfulRuns(log', G.runs)
      /\ \A s \in ParserType : Len(s.runs) <= Len(F.runs) /\ FaithfulRuns(log, s.runs) => FaithfulRuns(log', s.runs)
  <2>1. CASE Starting
    <3>1. obs = NoByte /\ ab = FALSE /\ G = F /\ Opens(u, u', obs, ab, F, G)
      BY <2>1, <1>2 DEF Opens
    <3>2. Opens(u, u', NoByte, FALSE, F, F)
      BY <3>1, Zenon
    <3>3. log' = log
      BY <3>1, <1>1, LogRests, Zenon
    <3>4. DataIs(u', log, F) /\ FutureIs(u', log, F)
      BY <3>2, <1>1, <1>3, DataOpens
    <3> QED  BY <3>1, <3>3, <3>4, <1>4, Zenon
  <2>2. CASE ~Starting
    <3>1. Moves(u, u', obs, ab, F, G)
      BY <2>2, <1>2
    <3>2. NowIs(u, dut.now, F)
      BY <2>2, <1>3, NowOf
    <3>3. DataIs(u', log', G) /\ FutureIs(u', log', G)
      BY <3>1, <3>2, <1>1, <1>2, <1>3, DataMovesOn, DataWaits DEF Moves
    <3>4. /\ FaithfulRuns(log', G.runs)
          /\ \A s \in ParserType : Len(s.runs) <= Len(F.runs) /\ FaithfulRuns(log, s.runs) => FaithfulRuns(log', s.runs)
      BY <3>1, <3>2, <1>1, <1>2, <1>3, <1>4, FaithfulStep
    <3> QED  BY <3>3, <3>4
  <2> QED  BY <2>1, <2>2
<1>10. ASSUME NEW s \in ParserType, RunsAre(first, log, F, s)  PROVE  RunsAre(first, log', G, s)
  <2>1. Numbered(first, s.runs) /\ FaithfulRuns(log, s.runs) /\ Len(s.runs) <= Len(F.runs) /\ Len(s.runs) \in Nat
    BY <1>10 DEF RunsAre, ParserType
  <2>2. FaithfulRuns(log', s.runs)
    BY <2>1, <1>9
  <2>3. Len(s.runs) <= Len(G.runs)
    BY <2>1, <1>4, <1>8
  <2> QED  BY <2>1, <2>2, <2>3 DEF RunsAre
<1>11. Len(G.runs) <= Len(G.runs)
  BY <1>4
<1> QED  BY <1>5, <1>6, <1>7, <1>9, <1>10, <1>11 DEF CampaignIs, RunsAre

LEMMA WaitStep ==
  ASSUME IInv, HostInv, Paced, LeavesInTime, NEW obs \in Octet, NEW ab \in BOOLEAN, NEW dn \in DutType, ClockStep(obs, ab, dn),
         NEW ph, Reading(ph), Shape(u, ph), NEW pn, Extends(pc, u, u', ph, pn), WaitInv(ph)
  PROVE  WaitInv(pn)'
<1> SUFFICES ASSUME pc = "wait"
             PROVE  /\ \A i \in 0 .. InFlight(u') : RunsAre(first, log', pn[InFlight(u')], pn[i])
                    /\ CampaignIs(u', dn, reached, first, log', pn[InFlight(u')])
  BY CycleEdge DEF WaitInv, ClockStep
<1> DEFINE d == One(Delivers(u))
           n == InFlight(u)
           m == InFlight(u')
           F == ph[n]
           G == pn[m]
<1>1. u \in UartType /\ u' \in UartType
  BY CycleEdge DEF ClockStep
<1>2. n \in Nat /\ m \in Nat /\ d \in 0 .. 1 /\ pushing(u') \in 0 .. 1
  BY <1>1, FlightTyped, OneTyped DEF Delivers
<1>3. n \in 0 .. n
  BY <1>2
<1>4. F \in ParserType /\ RecKept(F) /\ RecShape(u) /\ EndShape(u, F)
  BY <1>3 DEF Reading, Shape
<1>5. G = IF u'.push = NoByte THEN F ELSE Byte(F, u'.push)
  BY <1>1, <1>4, EndFollows
<1>6. CampaignIs(u, dut, reached, first, log, F) /\ \A i \in 0 .. n : RunsAre(first, log, F, ph[i])
  BY DEF WaitInv
<1>7. /\ \A i \in 0 .. m : i + d <= n => pn[i] = ph[i + d]
      /\ pushing(u') = 0 => m + d = n
      /\ pushing(u') = 1 => m >= 1 /\ (m - 1) + d = n
  BY DEF Extends
<1>8. \A i \in 0 .. n : ph[i] \in ParserType
  BY DEF Reading
<1> HIDE DEF F, G, d, n, m
<1>9. /\ CampaignIs(u', dn, reached, first, log', G) /\ RunsAre(first, log', G, G)
      /\ \A s \in ParserType : RunsAre(first, log, F, s) => RunsAre(first, log', G, s)
  <2>1. RunsAre(first, log, F, F)
    BY <1>3, <1>6 DEF F
  <2> QED  BY <2>1, <1>4, <1>5, <1>6, CampaignStep
<1>10. ASSUME NEW i \in 0 .. m  PROVE  RunsAre(first, log', G, pn[i])
  <2>1. CASE i + d <= n
    <3>1. i + d \in 0 .. n /\ pn[i] = ph[i + d]
      BY <2>1, <1>2, <1>7
    <3> QED  BY <3>1, <1>6, <1>8, <1>9
  <2>2. CASE ~(i + d <= n)
    <3>1. i = m
      BY <2>2, <1>2, <1>7
    <3> QED  BY <3>1, <1>9 DEF G
  <2> QED  BY <2>1, <2>2
<1> QED  BY <1>9, <1>10 DEF G, m

\* What the verdicts are on, a cycle does not change.
LEMMA VerdictsKept ==
  ASSUME IInv, HostInv, Verdicts, NEW obs \in Octet, NEW ab \in BOOLEAN, NEW dn \in DutType, ClockStep(obs, ab, dn)
  PROVE  Verdicts'
<1>1. verdict' = verdict /\ pc' = pc /\ golden' = golden /\ dut' = dn
  BY CycleEdge DEF ClockStep
<1>2. LogGrows(log, dut.now, obs, ab, log')
  BY LogStep DEF ClockStep
<1>3. /\ DOMAIN verdict \subseteq 1 .. N
      /\ \A j \in DOMAIN verdict :
           /\ verdict[j] \in {"LOST", Reference(golden, log[j].out, log[j].abort)}
           /\ dut.now = 0 \/ dut.now > j
           /\ dut.next = 0 \/ dut.next > j
      /\ pc \notin {"pause", "done"} => DOMAIN verdict = {}
  BY DEF Verdicts
<1>4. dut.now \in Int /\ dut.next \in Int /\ N \in Nat
  BY BoardRunAssumption DEF IInv, TypeOK, DutType, Number
<1>5. ASSUME NEW j \in DOMAIN verdict
      PROVE  log'[j] = log[j] /\ (dn.now = 0 \/ dn.now > j) /\ (dn.next = 0 \/ dn.next > j)
  <2>1. j \in 1 .. N /\ j # dut.now
    BY <1>3, <1>4
  <2>2. log'[j] = log[j]
    BY <2>1, <1>2 DEF LogGrows
  <2>3. CASE Releases(dn)
    <3>1. /\ dn.now = IF dut.next \in 1 .. N THEN dut.next ELSE 0
          /\ dn.next = IF dut.next \in 1 .. N THEN dut.next + 1 ELSE 0
      BY <2>3 DEF Releases
    <3>2. dut.next = 0 \/ dut.next > j
      BY <1>3
    <3> QED  BY <3>1, <3>2, <2>1, <2>2, <1>4
  <2>4. CASE ~Releases(dn)
    <3>1. dn.now = dut.now /\ dn.next = dut.next
      BY <2>4 DEF ClockStep, TrialStep
    <3> QED  BY <3>1, <2>2, <1>3
  <2> QED  BY <2>3, <2>4
<1> QED  BY <1>1, <1>3, <1>5 DEF Verdicts

LEMMA HostKept ==
  ASSUME IInv, HostInv, NEW obs \in Octet, NEW ab \in BOOLEAN, NEW dn \in DutType, ClockStep(obs, ab, dn),
         NEW ph, Reading(ph), Shape(u, ph), LoadInv(ph)
  PROVE  HostInv'
<1>1. pc' = pc /\ golden' = golden /\ reached' = reached /\ dut' = dn
  BY CycleEdge DEF ClockStep
<1>2. /\ q \in Nat /\ reached \in BOOLEAN /\ log \in [1 .. N -> LogType]
      /\ pc # "wait" => st.runs = <<>>
      /\ pc \in {"quiet", "load"} => dut.now = 0 /\ dut.next = 0 /\ log = NoLog
      /\ pc \notin {"args", "exit"} => upto_marker(golden, N_END)[2]
  BY DEF HostInv
<1>3. LogGrows(log, dut.now, obs, ab, log')
  BY LogStep DEF ClockStep
<1>4. Waited \in Nat /\ st \in ParserType /\ RecKept(st) /\ (pc = "load" => ~st.inrec)
  <2>1. Waited \in Nat
    BY <1>2 DEF Waited
  <2>2. InFlight(u) \in Nat
    BY FlightTyped DEF IInv, TypeOK
  <2>3. 0 \in 0 .. InFlight(u) /\ ph[0] = st
    BY <2>2 DEF Reading
  <2> QED  BY <2>1, <2>3 DEF Reading, Shape, LoadInv, NoRecord
<1>5. q' \in Nat /\ (pc # "wait" => st'.runs = <<>>)
  <2>1. CASE ~Delivers(u)
    BY <2>1, <1>2, <1>4 DEF ClockStep, Cycle
  <2>2. CASE Delivers(u)
    <3> DEFINE b == Byte(st, u.frame)
    <3>1. u.frame \in Octet
      BY DEF IInv, TypeOK, UartType
    <3>2. b \in ParserType
      BY <3>1, <1>4, ByteParsed
    <3>3. pc = "load" => b.runs = <<>>
      BY <3>1, <1>2, <1>4, NoRunBegins
    <3>4. IF pc \in {"load", "wait"} THEN st' = b /\ q' = 0
          ELSE st' = [b EXCEPT !.runs = <<>>] /\ q' = IF b.runs # <<>> THEN 0 ELSE Waited
      BY <2>2 DEF ClockStep, Cycle, Received
    <3> HIDE DEF b
    <3>5. [b EXCEPT !.runs = <<>>].runs = <<>>
      BY <3>2 DEF ParserType
    <3>6. CASE pc \in {"load", "wait"}
      <4>1. st' = b /\ q' = 0 /\ (pc = "load" \/ pc = "wait")
        BY <3>4, <3>6
      <4> QED  BY <4>1, <3>3
    <3>7. CASE pc \notin {"load", "wait"}
      <4>1. st' = [b EXCEPT !.runs = <<>>] /\ (q' = 0 \/ q' = Waited)
        BY <3>4, <3>7
      <4> QED  BY <4>1, <3>5, <1>4
    <3> QED  BY <3>6, <3>7
  <2> QED  BY <2>1, <2>2
<1>6. ASSUME pc \in {"quiet", "load"}  PROVE  dn.now = 0 /\ dn.next = 0 /\ log' = NoLog
  <2>1. dut.now = 0 /\ dut.next = 0 /\ log = NoLog
    BY <1>2, <1>6
  <2>2. 0 \notin 1 .. N
    BY BoardRunAssumption
  <2>3. dn.now = 0 /\ dn.next = 0
    BY <2>1, <2>2 DEF ClockStep, TrialStep, Releases
  <2>4. log' = log
    BY <2>1 DEF ClockStep, Cycle
  <2> QED  BY <2>1, <2>3, <2>4
<1>7. log' \in [1 .. N -> LogType]
  BY <1>3 DEF LogGrows
<1> QED  BY <1>1, <1>2, <1>5, <1>6, <1>7 DEF HostInv

\* A cycle of the board keeps the invariant.
LEMMA BoardClock ==
  ASSUME QuietFits, BoardInv, LeavesInTime, Clock
  PROVE  BoardInv'
<1>1. IInv /\ HostInv /\ Paced /\ Verdicts
  BY DEF BoardInv
<1>2. PICK ph : Reading(ph) /\ Shape(u, ph) /\ QuietInv(ph) /\ LoadInv(ph) /\ WaitInv(ph)
  BY DEF BoardInv, StreamInv
<1>3. PICK obs \in Octet, ab \in BOOLEAN, dn \in DutType : ClockStep(obs, ab, dn)
  BY <1>1, ClockIsStep
<1>4. Cycle(obs, ab, dn) /\ pc' = pc /\ dut' = dn
  BY <1>1, <1>3, CycleEdge DEF ClockStep
<1>5. IInv' /\ Paced' /\ HostInv' /\ Verdicts'
  <2>1. IInv'
    BY <1>1, <1>4, CycleKeepsInv
  <2>2. Paced'
    BY <1>1, <1>3, PacedKept
  <2>3. HostInv'
    BY <1>1, <1>2, <1>3, HostKept
  <2>4. Verdicts'
    BY <1>1, <1>3, VerdictsKept
  <2> QED  BY <2>1, <2>2, <2>3, <2>4
<1>6. \A i \in 0 .. InFlight(u) : RecKept(ph[i])
  BY <1>2 DEF Shape
<1>7. PICK pn : /\ Reading(pn)' /\ Extends(pc, u, u', ph, pn)
                /\ \A i \in 0 .. InFlight(u') : RecKept(pn[i])
  BY <1>1, <1>2, <1>4, <1>6, ReadingStep
<1>8. Shape(u', pn)
  BY <1>1, <1>2, <1>3, <1>7, ShapeStep
<1>9. ASSUME pc = "quiet"  PROVE  QuietAt(u', dn, q', pn)
  <2>1. QuietAt(u, dut, q, ph)
    BY <1>2, <1>9 DEF QuietInv
  <2> QED  BY <2>1, <1>1, <1>2, <1>3, <1>5, <1>7, <1>8, <1>9, QuietStep
<1>10. ASSUME pc = "load"  PROVE  NoRecord(u', pn) /\ Quiescent(u', dn)
  <2>1. NoRecord(u, ph) /\ Quiescent(u, dut)
    BY <1>2, <1>10 DEF LoadInv
  <2>2. Quiescent(u', dn) /\ ~Starting
    BY <2>1, <1>1, <1>3, QuiescentStep
  <2>3. NoRecord(u', pn)
    BY <2>1, <2>2, <1>1, <1>3, <1>7, <1>8, NoRecordStep
  <2> QED  BY <2>2, <2>3
<1>11. WaitInv(pn)'
  BY <1>1, <1>2, <1>3, <1>7, WaitStep
<1>12. QuietInv(pn)' /\ LoadInv(pn)'
  BY <1>4, <1>9, <1>10 DEF QuietInv, LoadInv
<1>13. StreamInv'
  BY <1>7, <1>8, <1>11, <1>12 DEF StreamInv
<1> QED  BY <1>5, <1>13 DEF BoardInv

-----------------------------------------------------------------------------
(* The host's steps.                                                         *)

LEMMA ByteTyped ==
  ASSUME NEW v \in UartType, NEW i \in 1 .. InFlight(v)
  PROVE  ByteAt(v, i) \in Octet
<1>1. v.frame \in Octet /\ v.push \in Octet /\ v.fifo \in Seq(Octet)
  BY DEF UartType
<1>2. used(v) = Len(v.fifo) /\ used(v) \in Nat /\ framed(v) \in 0 .. 1 /\ InFlight(v) \in Nat
  BY FlightTyped DEF used
<1>3. i > framed(v) /\ i <= framed(v) + used(v) => i - framed(v) \in 1 .. Len(v.fifo)
  BY <1>2
<1>4. i > framed(v) /\ i <= framed(v) + used(v) => v.fifo[i - framed(v)] \in Octet
  BY <1>1, <1>3
<1> QED  BY <1>1, <1>2, <1>4 DEF ByteAt

LEMMA SameReading ==
  ASSUME NEW ph, Reading(ph), u' = u, st' = st, pc # "wait", pc' # "wait"
  PROVE  Reading(ph)'
<1>1. \A i \in 1 .. InFlight(u) : ph[i] = Hear(pc', ph[i - 1], ByteAt(u, i))
  BY DEF Reading, Hear
<1> QED  BY <1>1, Zenon DEF Reading

\* Outside a campaign no parser in the reading keeps a run.
LEMMA NoRuns ==
  ASSUME IInv, HostInv, NEW ph, Reading(ph), \A i \in 0 .. InFlight(u) : RecKept(ph[i]), pc # "wait"
  PROVE  \A i \in 0 .. InFlight(u) : ph[i].runs = <<>>
<1> SUFFICES ASSUME NEW i \in 0 .. InFlight(u)  PROVE  ph[i].runs = <<>>
  OBVIOUS
<1>1. u \in UartType /\ InFlight(u) \in Nat
  BY FlightTyped DEF IInv, TypeOK
<1>2. CASE i = 0
  BY <1>2 DEF Reading, HostInv
<1>3. CASE i # 0
  <2>1. i \in 1 .. InFlight(u) /\ i - 1 \in 0 .. InFlight(u)
    BY <1>1, <1>3
  <2>2. ph[i] = Hear(pc, ph[i - 1], ByteAt(u, i)) /\ ph[i - 1] \in ParserType /\ ph[i] \in ParserType
    BY <2>1 DEF Reading
  <2>3. ph[i] = [Byte(ph[i - 1], ByteAt(u, i)) EXCEPT !.runs = <<>>]
    BY <2>2 DEF Hear, Bare
  <2> DEFINE b == Byte(ph[i - 1], ByteAt(u, i))
  <2>4. ByteAt(u, i) \in Octet
    BY <1>1, <2>1, ByteTyped
  <2>5. b \in ParserType
    BY <2>1, <2>2, <2>4, ByteParsed
  <2> HIDE DEF b
  <2> QED  BY <2>3, <2>5, BareTyped DEF b, Bare
<1> QED  BY <1>2, <1>3

\* The steps before a campaign and those that end the session look at nothing.
LEMMA HostRests ==
  ASSUME BoardInv, Args \/ BadArgs \/ Connect \/ OcdExits \/ GiveUp \/ FiError
  PROVE  HostInv' /\ Verdicts' /\ StreamInv'
<1>1. /\ u' = u /\ dut' = dut /\ st' = st /\ golden' = golden /\ reached' = reached /\ verdict' = verdict
      /\ log' = log /\ first' = first /\ q' = q
  BY DEF Args, BadArgs, Connect, OcdExits, GiveUp, FiError, Stay, board, history
<1>2. /\ pc \in {"args", "ocd", "quiet", "load"} /\ pc' \in {"ocd", "exit", "pause", "gave up"}
      /\ pc' = "exit" \/ upto_marker(golden, N_END)[2]
  BY DEF BoardInv, HostInv, Args, BadArgs, Connect, OcdExits, GiveUp, FiError, Go
<1>3. HostInv'
  BY <1>1, <1>2 DEF BoardInv, HostInv
<1>4. Verdicts'
  <2>1. pc \notin {"pause", "done"}
    BY <1>2
  <2>2. DOMAIN verdict = {} /\ DOMAIN verdict \subseteq 1 .. N
    BY <2>1 DEF BoardInv, Verdicts
  <2> QED  BY <2>2, <1>1 DEF Verdicts
<1>5. PICK ph : Reading(ph) /\ Shape(u, ph)
  BY DEF BoardInv, StreamInv
<1>6. Reading(ph)'
  BY <1>1, <1>2, <1>5, SameReading
<1>7. Shape(u, ph)' /\ QuietInv(ph)' /\ LoadInv(ph)' /\ WaitInv(ph)'
  BY <1>1, <1>2, <1>5 DEF QuietInv, LoadInv, WaitInv
<1> QED  BY <1>3, <1>4, <1>6, <1>7 DEF StreamInv

\* The host pauses the wrapper and begins to wait.
LEMMA HostPauses ==
  ASSUME QuietFits, BoardInv, Pause
  PROVE  HostInv' /\ Verdicts' /\ StreamInv'
<1>1. /\ u' = u /\ st' = st /\ golden' = golden /\ reached' = reached /\ verdict' = <<>>
      /\ log' = NoLog /\ q' = 0 /\ dut' = Paused /\ pc = "pause" /\ pc' = "quiet"
  BY DEF Pause, Go
<1>2. dut \in DutType /\ dut' \in DutType /\ u \in UartType
  <2>1. dut \in DutType /\ u \in UartType
    BY DEF BoardInv, IInv, TypeOK
  <2>2. (dut.to /\ ~reached) \in BOOLEAN /\ 0 \in Number
    BY DEF Number
  <2> QED  BY <2>1, <2>2, <1>1 DEF Paused, DutType
<1>3. dut'.run = dut.run /\ dut'.cnt = dut.cnt /\ dut'.gap = dut.gap /\ dut'.now = 0 /\ dut'.next = 0
  BY <1>1, <1>2 DEF Paused, DutType
<1>4. NoLog \in [1 .. N -> LogType]
  <2>1. [out |-> <<>>, abort |-> FALSE] \in LogType
    BY DEF LogType
  <2> QED  BY <2>1 DEF NoLog
<1>5. HostInv'
  BY <1>1, <1>3, <1>4 DEF BoardInv, HostInv
<1>6. Verdicts'
  <2>1. DOMAIN <<>> = {}
    OBVIOUS
  <2> QED  BY <2>1, <1>1 DEF Verdicts
<1>7. PICK ph : Reading(ph) /\ Shape(u, ph)
  BY DEF BoardInv, StreamInv
<1>8. Reading(ph)'
  BY <1>1, <1>7, SameReading
<1>9. QuietAt(u, dut', 0, ph)
  <2>1. /\ u.nb <= LINE /\ used(u) < DEPTH /\ (u.push # NoByte => used(u) < DEPTH - 1)
        /\ (~dut'.run => dut'.gap \in 1 .. GAP) /\ dut'.cnt \in 0 .. TO_THR
    BY <1>3 DEF BoardInv, IInv, PushHasRoom, Paced
  <2> QED  BY <2>1, <1>2, <1>7, QuietBegins
<1>10. Shape(u, ph)' /\ QuietInv(ph)' /\ LoadInv(ph)' /\ WaitInv(ph)'
  BY <1>1, <1>7, <1>9 DEF QuietInv, LoadInv, WaitInv
<1> QED  BY <1>5, <1>6, <1>8, <1>10 DEF StreamInv

\* The silence is long enough: there is no record and there will be none.
LEMMA HostLoads ==
  ASSUME QuietFits, BoardInv, Quiet
  PROVE  HostInv' /\ Verdicts' /\ StreamInv'
<1>1. /\ u' = u /\ dut' = dut /\ st' = st /\ golden' = golden /\ reached' = reached /\ verdict' = verdict
      /\ log' = log /\ q' = q /\ pc = "quiet" /\ pc' = "load" /\ q >= QUIET
  BY DEF Quiet, Go, Stay, board, history
<1>2. HostInv'
  BY <1>1 DEF BoardInv, HostInv
<1>3. Verdicts'
  <2>1. DOMAIN verdict = {} /\ DOMAIN verdict \subseteq 1 .. N
    BY <1>1 DEF BoardInv, Verdicts
  <2> QED  BY <2>1, <1>1 DEF Verdicts
<1>4. PICK ph : Reading(ph) /\ Shape(u, ph) /\ QuietInv(ph)
  BY DEF BoardInv, StreamInv
<1>5. Reading(ph)'
  BY <1>1, <1>4, SameReading
<1>6. /\ u \in UartType /\ RecFits(u) /\ u.nb <= LINE /\ used(u) < DEPTH /\ (u.push # NoByte => used(u) < DEPTH - 1)
      /\ InFlight(u) \in Nat
  BY <1>4, FlightTyped DEF BoardInv, IInv, TypeOK, PushHasRoom, Paced, Shape, RecShape
<1>7. QUIET \in Nat /\ MaxDelay \in Nat /\ q \in Nat /\ TO_THR \in Nat /\ GAP \in Nat
  BY QuietIsLong, BoardRunAssumption DEF BoardInv, HostInv
<1>8. \A k \in Nat : k >= 1 => ~(q + Delay(u, k) <= QUIET)
  <2> SUFFICES ASSUME NEW k \in Nat, k >= 1  PROVE  ~(q + Delay(u, k) <= QUIET)
    OBVIOUS
  <2>1. Delay(u, k) \in Int /\ Delay(u, k) >= 1
    BY <1>6, DelayBounded
  <2> QED  BY <2>1, <1>1, <1>7
<1>9. u.rec # <<>> => RecEnd(u) \in Nat /\ RecEnd(u) >= 1
  <2>1. EscPush(u) \in 0 .. 1 /\ RecPushes(u) \in 0 .. 18 /\ (u.rec # <<>> => RecPushes(u) >= 1)
    BY <1>6, PushesTyped
  <2>2. \A n \in Nat, e \in 0 .. 1, r \in 0 .. 18 : n + (e + r) \in Nat /\ (r >= 1 => n + (e + r) >= 1)
    BY SMT
  <2> QED  BY <2>1, <2>2, <1>6, Zenon DEF RecEnd, Pushes
<1>10. ~(q + NextStart(u, dut) + MaxDelay <= QUIET)
  <2>1. dut.gap \in Int /\ (~dut.run => dut.gap \in 1 .. GAP) /\ dut.cnt \in 0 .. TO_THR
    BY DEF BoardInv, Paced
  <2>2. NextStart(u, dut) \in Int /\ NextStart(u, dut) >= 1
    BY <2>1, <1>7 DEF NextStart
  <2> QED  BY <2>2, <1>1, <1>7
<1>11. NoRecord(u, ph) /\ Quiescent(u, dut)
  <2>1. QuietAt(u, dut, q, ph)
    BY <1>1, <1>4 DEF QuietInv
  <2>2. \A k \in 1 .. InFlight(u) : k \in Nat /\ k >= 1
    BY <1>6
  <2> QED  BY <2>1, <2>2, <1>8, <1>9, <1>10 DEF QuietAt
<1>12. Shape(u, ph)' /\ QuietInv(ph)' /\ LoadInv(ph)' /\ WaitInv(ph)'
  BY <1>1, <1>4, <1>11 DEF QuietInv, LoadInv, WaitInv
<1> QED  BY <1>2, <1>3, <1>5, <1>12 DEF StreamInv

\* fi_campaign starts a campaign on a board without a record.
LEMMA HostStarts ==
  ASSUME BoardInv, FiCampaign
  PROVE  HostInv' /\ Verdicts' /\ StreamInv'
<1>1. /\ u' = u /\ st' = st /\ golden' = golden /\ reached' = reached /\ verdict' = verdict
      /\ log' = log /\ q' = q /\ first' = u.trial /\ pc = "load" /\ pc' = "wait"
      /\ dut' = IF reached THEN [dut EXCEPT !.to = TRUE, !.next = 1] ELSE dut
  BY DEF FiCampaign, Go
<1>2. u \in UartType /\ dut \in DutType /\ IInv /\ HostInv /\ InFlight(u) \in Nat
  BY FlightTyped DEF BoardInv, IInv, TypeOK
<1>3. dut.now = 0 /\ dut.next = 0 /\ log = NoLog /\ st.runs = <<>>
  BY <1>1 DEF BoardInv, HostInv
<1>4. HostInv'
  BY <1>1 DEF BoardInv, HostInv
<1>5. Verdicts'
  <2>1. DOMAIN verdict = {} /\ DOMAIN verdict \subseteq 1 .. N
    BY <1>1 DEF BoardInv, Verdicts
  <2> QED  BY <2>1, <1>1 DEF Verdicts
<1>6. PICK ph : Reading(ph) /\ Shape(u, ph) /\ LoadInv(ph)
  BY DEF BoardInv, StreamInv
<1>7. NoRecord(u, ph) /\ Quiescent(u, dut)
  BY <1>1, <1>6 DEF LoadInv
<1>8. /\ \A i \in 0 .. InFlight(u) : RecKept(ph[i]) /\ ph[i] \in ParserType /\ ~ph[i].inrec
      /\ ph \in [0 .. InFlight(u) -> ParserType] /\ ph[0] = st
  BY <1>6, <1>7 DEF Shape, Reading, NoRecord
<1>9. \A i \in 0 .. InFlight(u) : ph[i].runs = <<>>
  BY <1>1, <1>2, <1>6, <1>8, NoRuns
<1>10. Reading(ph)'
  <2>1. ASSUME NEW i \in 1 .. InFlight(u)  PROVE  ph[i] = Hear("wait", ph[i - 1], ByteAt(u, i))
    <3> DEFINE s == ph[i - 1]
               b == Byte(s, ByteAt(u, i))
    <3>1. i - 1 \in 0 .. InFlight(u)
      BY <1>2
    <3>2. ByteAt(u, i) \in Octet /\ s \in ParserType /\ RecKept(s) /\ ~s.inrec /\ s.runs = <<>>
      BY <3>1, <1>2, <1>8, <1>9, ByteTyped
    <3>3. b \in ParserType /\ b.runs = <<>>
      BY <3>2, ByteParsed, NoRunBegins
    <3>4. ph[i] = Hear(pc, s, ByteAt(u, i))
      BY <1>6 DEF Reading
    <3>5. ph[i] = Bare(b)
      BY <3>4, <1>1 DEF Hear
    <3> HIDE DEF b, s
    <3>6. ph[i] = b
      BY <3>3, <3>5, BareTyped
    <3> QED  BY <3>6 DEF Hear, b, s
  <2> QED  BY <2>1, <1>1, <1>8, Zenon DEF Reading
<1>11. /\ dut'.run = dut.run /\ dut'.now = 0 /\ dut'.next = One(reached)
       /\ ~reached => dut' = dut
  <2>1. CASE reached
    <3>1. dut' = [dut EXCEPT !.to = TRUE, !.next = 1] /\ One(reached) = 1
      BY <2>1, <1>1 DEF One
    <3> QED  BY <3>1, <2>1, <1>2, <1>3 DEF DutType
  <2>2. CASE ~reached
    <3>1. One(reached) = 0
      BY <2>2 DEF One
    <3> QED  BY <3>1, <2>2, <1>1, <1>3
  <2> QED  BY <2>1, <2>2
<1> DEFINE F == ph[InFlight(u)]
<1>12. InFlight(u) \in 0 .. InFlight(u) /\ F.runs = <<>> /\ u.rec = <<>>
  BY <1>2, <1>7, <1>9 DEF NoRecord
<1> HIDE DEF F
<1>13. \A i \in 0 .. InFlight(u) : RunsAre(u.trial, log, F, ph[i])
  <2>1. Len(<<>>) = 0 /\ (\A j \in 1 .. 0 : FALSE) /\ (\A j \in 1 .. 0 - 1 : FALSE) /\ 0 <= 0
    OBVIOUS
  <2>2. Numbered(u.trial, <<>>) /\ FaithfulRuns(log, <<>>)
    BY <2>1 DEF Numbered, FaithfulRuns
  <2> QED  BY <2>1, <2>2, <1>9, <1>12 DEF RunsAre
<1>14. CampaignIs(u, dut', reached, u.trial, log, F)
  <2>1. Len(F.runs) = 0 /\ Loaded(u, F) = 0
    BY <1>12 DEF Loaded, One
  <2>2. Started(u, dut', F) = 0
    <3>1. dut.run /\ u.rst_q
      BY <1>7 DEF Quiescent
    <3> QED  BY <3>1, <2>1, <1>11 DEF Started, One
  <2>3. NumIs(u, u.trial, F)
    BY <1>12 DEF NumIs, NumAfter
  <2>4. CountIs(u, dut', reached, F)
    BY <2>2, <1>7, <1>11 DEF CountIs
  <2>5. DataIs(u, log, F)
    <3>1. 0 \notin 1 .. N
      BY BoardRunAssumption
    <3> QED  BY <3>1, <2>1, <1>12, Zenon DEF DataIs
  <2>6. FutureIs(u, log, F)
    BY <1>3 DEF FutureIs, NoLog
  <2> QED  BY <2>3, <2>4, <2>5, <2>6 DEF CampaignIs
<1>15. Shape(u, ph)' /\ QuietInv(ph)' /\ LoadInv(ph)' /\ WaitInv(ph)'
  BY <1>1, <1>6, <1>13, <1>14 DEF QuietInv, LoadInv, WaitInv, F
<1> QED  BY <1>4, <1>5, <1>10, <1>15 DEF StreamInv

-----------------------------------------------------------------------------
(* The classification: what classify does with slices and counts is what the *)
(* tool's documentation says of newlines and places.                         *)

\* A set of natural numbers has a least one.
LEMMA Least ==
  ASSUME NEW T, T \subseteq Nat, T # {}
  PROVE  \E x \in T : \A y \in T : x <= y
<1> DEFINE down(x) == 0 .. x - 1
           D == {down(x) : x \in T}
<1>1. \A x \in Nat : down(x) \in FiniteSubsetsOf(Nat)
  <2> TAKE x \in Nat
  <2>1. IsFiniteSet(down(x)) /\ down(x) \subseteq Nat
    BY FS_Interval
  <2> QED  BY <2>1 DEF FiniteSubsetsOf
<1>2. D \subseteq FiniteSubsetsOf(Nat) /\ D # {}
  BY <1>1
<1>3. PICK d \in D : \A e \in D : ~(<<e, d>> \in StrictSubsetOrdering(Nat))
  <2> HIDE DEF D
  <2> QED  BY <1>2, WFMin, FS_StrictSubsetOrderingWellFounded, Zenon
<1>4. PICK x \in T : d = down(x)
  OBVIOUS
<1>5. ASSUME NEW y \in T, y < x  PROVE  FALSE
  <2>1. down(y) \in D /\ down(y) \subseteq down(x) /\ y \in down(x) /\ y \notin down(y) /\ x \in Nat
    BY <1>5
  <2>2. down(y) # down(x)
    BY <2>1, Zenon
  <2>3. down(y) \subseteq Nat /\ down(x) \subseteq Nat
    OBVIOUS
  <2>4. <<down(y), down(x)>> \in StrictSubsetOrdering(Nat)
    BY <2>1, <2>2, <2>3 DEF StrictSubsetOrdering
  <2> QED  BY <1>3, <1>4, <2>1, <2>4, Zenon
<1> QED  BY <1>5

\* The newlines up to a place.
Upto(s, k) == {i \in Newlines(s) : i <= k}
Lines(s, k) == Cardinality(Upto(s, k))

LEMMA LinesGrow ==
  ASSUME NEW s \in Seq(Octet)
  PROVE  /\ IsFiniteSet(Newlines(s)) /\ Newlines(s) \subseteq 1 .. Len(s) /\ Len(s) \in Nat
         /\ \A k \in Int : Lines(s, k) \in Nat /\ Lines(s, k) <= Cardinality(Newlines(s))
         /\ \A k, l \in Int : k <= l => Lines(s, k) <= Lines(s, l)
         /\ \A k, l \in Int : k < l /\ l \in Newlines(s) => Lines(s, k) < Lines(s, l)
         /\ \A k \in Int : Lines(s, k) <= Lines(s, k - 1) + 1 /\ (k \notin Newlines(s) => Lines(s, k) = Lines(s, k - 1))
         /\ Lines(s, 0) = 0 /\ Lines(s, Len(s)) = Cardinality(Newlines(s))
<1>1. Len(s) \in Nat /\ Newlines(s) \subseteq 1 .. Len(s)
  BY DEF Newlines
<1>2. IsFiniteSet(Newlines(s)) /\ Newlines(s) \subseteq Int
  <2>1. IsFiniteSet(1 .. Len(s))
    BY <1>1, FS_Interval
  <2>2. IsFiniteSet(Newlines(s))
    BY <2>1, <1>1, FS_Subset
  <2> QED  BY <2>2, <1>1
<1>3. \A k \in Int : Upto(s, k) \in SUBSET Newlines(s) /\ IsFiniteSet(Upto(s, k)) /\ Lines(s, k) \in Nat
                     /\ Lines(s, k) <= Cardinality(Newlines(s))
  <2> TAKE k \in Int
  <2>1. Upto(s, k) \in SUBSET Newlines(s)
    BY DEF Upto
  <2>2. IsFiniteSet(Upto(s, k)) /\ Cardinality(Upto(s, k)) <= Cardinality(Newlines(s))
    BY <2>1, <1>2, FS_Subset
  <2> QED  BY <2>1, <2>2, FS_CardinalityType DEF Lines
<1>4. ASSUME NEW k \in Int, NEW l \in Int, k <= l
      PROVE  Lines(s, k) <= Lines(s, l) /\ (k < l /\ l \in Newlines(s) => Lines(s, k) < Lines(s, l))
  <2>1. Upto(s, k) \in SUBSET Upto(s, l)
    BY <1>2, <1>4 DEF Upto
  <2>2. Lines(s, k) <= Lines(s, l) /\ (Lines(s, l) = Lines(s, k) => Upto(s, l) = Upto(s, k))
    BY <2>1, <1>3, FS_Subset DEF Lines
  <2>3. k < l /\ l \in Newlines(s) => l \in Upto(s, l) /\ l \notin Upto(s, k)
    BY DEF Upto
  <2> QED  BY <2>2, <2>3, <1>3
<1>5. ASSUME NEW k \in Int
      PROVE  Lines(s, k) <= Lines(s, k - 1) + 1 /\ (k \notin Newlines(s) => Lines(s, k) = Lines(s, k - 1))
  <2>1. k - 1 \in Int
    OBVIOUS
  <2>2. CASE k \in Newlines(s)
    <3>1. Upto(s, k) = Upto(s, k - 1) \cup {k}
      BY <2>2, <1>2 DEF Upto
    <3>2. Cardinality(Upto(s, k - 1) \cup {k}) =
            IF k \in Upto(s, k - 1) THEN Lines(s, k - 1) ELSE Lines(s, k - 1) + 1
      BY <2>1, <1>3, FS_AddElement, Zenon DEF Lines
    <3>3. Lines(s, k) = IF k \in Upto(s, k - 1) THEN Lines(s, k - 1) ELSE Lines(s, k - 1) + 1
      BY <3>1, <3>2, Zenon DEF Lines
    <3>4. Lines(s, k - 1) \in Nat
      BY <2>1, <1>3
    <3> QED  BY <3>3, <3>4, <2>2
  <2>3. CASE k \notin Newlines(s)
    <3>1. Upto(s, k) = Upto(s, k - 1)
      BY <2>3, <1>2 DEF Upto
    <3>2. Lines(s, k) = Lines(s, k - 1)
      BY <3>1, Zenon DEF Lines
    <3> QED  BY <3>2, <2>1, <1>3
  <2> QED  BY <2>2, <2>3
<1>6. Lines(s, 0) = 0
  <2>1. Upto(s, 0) = {}
    BY <1>1 DEF Upto
  <2> QED  BY <2>1, FS_EmptySet DEF Lines
<1>7. Lines(s, Len(s)) = Cardinality(Newlines(s))
  <2>1. Upto(s, Len(s)) = Newlines(s)
    BY <1>1 DEF Upto
  <2> QED  BY <2>1, Zenon DEF Lines
<1>8. /\ \A k, l \in Int : k <= l => Lines(s, k) <= Lines(s, l)
      /\ \A k, l \in Int : k < l /\ l \in Newlines(s) => Lines(s, k) < Lines(s, l)
  <2>1. \A k, l \in Int : k < l => k <= l
    OBVIOUS
  <2> QED  BY <2>1, <1>4, Zenon
<1>9. \A k \in Int : Lines(s, k) \in Nat /\ Lines(s, k) <= Cardinality(Newlines(s))
  BY <1>3, Zenon
<1> QED  BY <1>1, <1>2, <1>5, <1>6, <1>7, <1>8, <1>9, Zenon

\* The marker is the n-th newline.
LEMMA MarkerIs ==
  ASSUME NEW s \in Seq(Octet), NEW n \in Nat, n >= 1
  PROVE  /\ upto_marker(s, n)[2] <=> Cardinality(Newlines(s)) >= n
         /\ upto_marker(s, n)[2] => \E e \in Newlines(s) : Lines(s, e) = n /\ upto_marker(s, n)[1] = SubSeq(s, 1, e)
<1> DEFINE ends == {i \in Newlines(s) : Lines(s, i) = n}
<1>1. upto_marker(s, n) = IF ends = {} THEN <<s, FALSE>> ELSE <<SubSeq(s, 1, CHOOSE i \in ends : TRUE), TRUE>>
  BY Zenon DEF upto_marker, Lines, Upto
<1>2. upto_marker(s, n)[2] <=> ends # {}
  <2> HIDE DEF ends
  <2> QED  BY <1>1
<1>3. Newlines(s) \subseteq 1 .. Len(s) /\ Len(s) \in Nat /\ Cardinality(Newlines(s)) \in Nat /\ Newlines(s) \subseteq Int
  <2>1. IsFiniteSet(Newlines(s)) /\ Newlines(s) \subseteq 1 .. Len(s) /\ Len(s) \in Nat
    BY LinesGrow
  <2> QED  BY <2>1, FS_CardinalityType
<1>4. ASSUME NEW e \in ends  PROVE  Cardinality(Newlines(s)) >= n
  <2>1. e \in Int /\ Lines(s, e) = n
    BY <1>3
  <2>2. Lines(s, e) <= Cardinality(Newlines(s))
    BY <2>1, LinesGrow
  <2> QED  BY <2>1, <2>2, <1>3
<1>5. ASSUME Cardinality(Newlines(s)) >= n  PROVE  ends # {}
  <2> DEFINE T == {k \in 0 .. Len(s) : Lines(s, k) >= n}
  <2>1. Len(s) \in T
    <3>1. Lines(s, Len(s)) >= n
      BY <1>5, LinesGrow
    <3> QED  BY <3>1, <1>3
  <2>2. T \subseteq Nat
    OBVIOUS
  <2>3. PICK e \in T : \A y \in T : e <= y
    <3> HIDE DEF T
    <3> QED  BY <2>1, <2>2, Least
  <2>4. e \in 0 .. Len(s) /\ Lines(s, e) >= n /\ e # 0
    <3>1. e \in 0 .. Len(s) /\ Lines(s, e) >= n
      OBVIOUS
    <3>2. Lines(s, 0) = 0
      BY LinesGrow
    <3> QED  BY <3>1, <3>2
  <2>5. e - 1 \in 0 .. Len(s) /\ e \in Int /\ e - 1 \in Int
    BY <2>4, <1>3
  <2>6. Lines(s, e) \in Nat /\ Lines(s, e - 1) \in Nat
    BY <2>5, LinesGrow
  <2>7. Lines(s, e - 1) < n
    <3>1. e - 1 \notin T
      <4>1. ~(e <= e - 1)
        BY <2>5
      <4> QED  BY <4>1, <2>3
    <3>2. ~(Lines(s, e - 1) >= n)
      BY <3>1, <2>5
    <3> QED  BY <3>2, <2>6
  <2>8. Lines(s, e) <= Lines(s, e - 1) + 1 /\ (e \notin Newlines(s) => Lines(s, e) = Lines(s, e - 1))
    BY <2>5, LinesGrow
  <2> HIDE DEF T
  <2>9. Lines(s, e) = n /\ e \in Newlines(s)
    BY <2>4, <2>6, <2>7, <2>8
  <2> QED  BY <2>9
<1>6. ASSUME ends # {}  PROVE  \E e \in Newlines(s) : Lines(s, e) = n /\ upto_marker(s, n)[1] = SubSeq(s, 1, e)
  <2> DEFINE e == CHOOSE i \in ends : TRUE
  <2>1. e \in ends
    BY <1>6
  <2>2. upto_marker(s, n)[1] = SubSeq(s, 1, e)
    <3> HIDE DEF ends, e
    <3>1. upto_marker(s, n) = <<SubSeq(s, 1, e), TRUE>>
      BY <1>1, <1>6, Zenon DEF e
    <3>2. \A x, y : <<x, y>>[1] = x
      OBVIOUS
    <3> QED  BY <3>1, <3>2, Zenon
  <2> HIDE DEF e
  <2>3. e \in Newlines(s) /\ Lines(s, e) = n
    BY <2>1
  <2> QED  BY <2>2, <2>3
<1> HIDE DEF ends
<1>7. ends # {} <=> Cardinality(Newlines(s)) >= n
  BY <1>4, <1>5
<1> QED  BY <1>2, <1>6, <1>7, Zenon

\* Reference's part of an output that is before the marker.
HeadOf(s) == {k \in DOMAIN s : Cardinality({i \in Newlines(s) : i < k}) < N_END}

LEMMA HeadIs ==
  ASSUME NEW s \in Seq(Octet), NEW e \in Newlines(s), Lines(s, e) = N_END
  PROVE  HeadOf(s) = 1 .. e /\ e \in 1 .. Len(s)
<1>1. Len(s) \in Nat /\ e \in 1 .. Len(s) /\ Newlines(s) \subseteq Int /\ DOMAIN s = 1 .. Len(s) /\ e \in Int
  <2>1. Newlines(s) \subseteq 1 .. Len(s) /\ Len(s) \in Nat
    BY LinesGrow
  <2> QED  BY <2>1
<1>2. N_END \in Nat
  BY <1>1, LinesGrow
<1>3. ASSUME NEW k \in 1 .. Len(s)
      PROVE  Cardinality({i \in Newlines(s) : i < k}) < N_END <=> k <= e
  <2>1. {i \in Newlines(s) : i < k} = Upto(s, k - 1)
    BY <1>1 DEF Upto
  <2>2. Cardinality({i \in Newlines(s) : i < k}) = Lines(s, k - 1)
    BY <2>1, Zenon DEF Lines
  <2>3. k - 1 \in Int /\ e \in Int /\ Lines(s, k - 1) \in Nat
    BY <1>1, LinesGrow
  <2>4. k <= e => Lines(s, k - 1) < Lines(s, e)
    <3>1. k <= e => k - 1 < e
      BY <1>1
    <3> QED  BY <3>1, <2>3, LinesGrow
  <2>5. ~(k <= e) => Lines(s, e) <= Lines(s, k - 1)
    <3>1. ~(k <= e) => e <= k - 1
      BY <1>1
    <3> QED  BY <3>1, <2>3, LinesGrow
  <2> QED  BY <2>2, <2>3, <2>4, <2>5, <1>2
<1>4. HeadOf(s) = {k \in 1 .. Len(s) : k <= e}
  <2>1. HeadOf(s) = {k \in 1 .. Len(s) : Cardinality({i \in Newlines(s) : i < k}) < N_END}
    BY <1>1, Zenon DEF HeadOf
  <2> QED  BY <2>1, <1>3
<1> QED  BY <1>1, <1>4

\* Where Reference finds a text.
FoundAt(p, s) == {k \in HeadOf(s) : \A i \in DOMAIN p : k + i - 1 \in HeadOf(s) /\ s[k + i - 1] = p[i]}

LEMMA FoundIs ==
  ASSUME NEW s \in Seq(Octet), NEW e \in 1 .. Len(s), HeadOf(s) = 1 .. e, NEW p \in Seq(Octet)
  PROVE  /\ p # <<>> => FoundAt(p, s) = Occurrences(SubSeq(s, 1, e), p)
         /\ FoundAt(p, s) # {} <=> Occurrences(SubSeq(s, 1, e), p) # {}
<1> DEFINE d == SubSeq(s, 1, e)
           n == Len(p)
           occ == Occurrences(d, p)
<1>1. /\ Len(s) \in Nat /\ e \in Nat /\ e >= 1 /\ e <= Len(s) /\ n \in Nat /\ DOMAIN p = 1 .. n
      /\ p = <<>> <=> n = 0
  OBVIOUS
<1>2. d \in Seq(Octet) /\ Len(d) = e /\ \A i \in 1 .. e : d[i] = s[i]
  BY <1>1
<1> HIDE DEF d
<1>3. ASSUME NEW k \in 1 .. (e - n) + 1
      PROVE  SubSeq(d, k, k + n - 1) = p <=> \A i \in 1 .. n : s[k + i - 1] = p[i]
  <2> DEFINE x == SubSeq(d, k, k + n - 1)
  <2>1. k \in Nat /\ k >= 1 /\ k + n - 1 <= Len(d) /\ k + n - 1 \in Int /\ k + n - 1 >= k - 1
    BY <1>1, <1>2
  <2>2. x \in Seq(Octet) /\ Len(x) = n /\ \A i \in 1 .. n : x[i] = d[k + i - 1]
    <3>1. k \in 1 .. Len(d) + 1 /\ k + n - 1 \in k - 1 .. Len(d) /\ ((k + n - 1) - k) + 1 = n
      BY <2>1, <1>1, <1>2
    <3> HIDE DEF n
    <3> QED  BY <3>1, <1>2, SubSeqProperties
  <2>3. \A i \in 1 .. n : k + i - 1 \in 1 .. e
    BY <1>1
  <2> HIDE DEF x
  <2>4. \A i \in 1 .. n : x[i] = s[k + i - 1]
    BY <2>2, <2>3, <1>2
  <2>5. x = p <=> \A i \in 1 .. n : x[i] = p[i]
    <3>1. x = [i \in 1 .. n |-> x[i]] /\ p = [i \in 1 .. n |-> p[i]]
      BY <2>2
    <3> QED  BY <3>1, Zenon
  <2> QED  BY <2>4, <2>5 DEF x
<1>4. occ = {k \in 1 .. (e - n) + 1 : \A i \in 1 .. n : s[k + i - 1] = p[i]}
  <2>1. occ = {k \in 1 .. (e - n) + 1 : SubSeq(d, k, k + n - 1) = p}
    BY <1>2 DEF Occurrences
  <2> HIDE DEF n, occ
  <2> QED  BY <2>1, <1>3
<1>5. FoundAt(p, s) = {k \in 1 .. e : \A i \in 1 .. n : k + i - 1 \in 1 .. e /\ s[k + i - 1] = p[i]}
  BY <1>1, Zenon DEF FoundAt
<1> HIDE DEF n, occ
<1>6. CASE n = 0
  <2>1. 1 \in occ /\ 1 \in FoundAt(p, s)
    <3>1. \A i \in 1 .. n : FALSE
      BY <1>6
    <3>2. 1 \in 1 .. (e - n) + 1 /\ 1 \in 1 .. e
      BY <1>1, <1>6
    <3> QED  BY <3>1, <3>2, <1>4, <1>5
  <2> QED  BY <2>1, <1>1, <1>6 DEF occ, d
<1>7. CASE n # 0
  <2>1. ASSUME NEW k \in 1 .. e, \A i \in 1 .. n : k + i - 1 \in 1 .. e  PROVE  k \in 1 .. (e - n) + 1
    <3>1. n \in 1 .. n
      BY <1>1, <1>7
    <3>2. k + n - 1 \in 1 .. e
      BY <3>1, <2>1
    <3> QED  BY <3>2, <1>1
  <2>2. \A k \in 1 .. (e - n) + 1 : k \in 1 .. e /\ \A i \in 1 .. n : k + i - 1 \in 1 .. e
    BY <1>1, <1>7
  <2>3. \A k : k \in FoundAt(p, s) <=> k \in occ
    BY <2>1, <2>2, <1>4, <1>5
  <2>4. FoundAt(p, s) = occ
    BY <2>3
  <2> QED  BY <2>4 DEF occ, d
<1> QED  BY <1>6, <1>7

\* The golden output's first line ends with its only newline.
FirstLine(s) == [i \in {k \in DOMAIN s : \A x \in Newlines(s) : k <= x} |-> s[i]]

LEMMA FirstLineIs ==
  ASSUME NEW s \in Seq(Octet), Newlines(s) # {}
  PROVE  LET p == FirstLine(s)
         IN  /\ upto_marker(s, 1)[1] = p /\ p \in Seq(Octet) /\ p # <<>>
             /\ \A i \in 1 .. Len(p) : p[i] = NL <=> i = Len(p)
<1> DEFINE p == FirstLine(s)
<1>1. IsFiniteSet(Newlines(s)) /\ Newlines(s) \subseteq 1 .. Len(s) /\ Len(s) \in Nat /\ Newlines(s) \subseteq Int
  <2>1. IsFiniteSet(Newlines(s)) /\ Newlines(s) \subseteq 1 .. Len(s) /\ Len(s) \in Nat
    BY LinesGrow
  <2> QED  BY <2>1
<1>2. Cardinality(Newlines(s)) >= 1
  <2>1. Cardinality(Newlines(s)) \in Nat /\ (Cardinality(Newlines(s)) = 0 <=> Newlines(s) = {})
    BY <1>1, FS_CardinalityType, FS_EmptySet
  <2> QED  BY <2>1
<1>3. PICK e \in Newlines(s) : Lines(s, e) = 1 /\ upto_marker(s, 1)[1] = SubSeq(s, 1, e)
  BY <1>2, MarkerIs
<1>4. \A x \in Newlines(s) : e <= x
  <2> SUFFICES ASSUME NEW x \in Newlines(s), x < e  PROVE  FALSE
    BY <1>1
  <2>1. x \in Int /\ e \in Int /\ x - 1 \in Int /\ x - 1 < x
    BY <1>1
  <2>2. Lines(s, x) < Lines(s, e) /\ Lines(s, x - 1) < Lines(s, x) /\ Lines(s, x) \in Nat /\ Lines(s, x - 1) \in Nat
    BY <2>1, LinesGrow
  <2> QED  BY <2>2, <1>3
<1>5. e \in 1 .. Len(s) /\ s[e] = NL /\ \A i \in 1 .. e : s[i] = NL <=> i = e
  <2>1. e \in 1 .. Len(s) /\ s[e] = NL
    BY <1>1 DEF Newlines
  <2>2. \A i \in 1 .. e : i \in DOMAIN s
    BY <2>1
  <2>3. \A i \in 1 .. e : s[i] = NL => e <= i
    BY <2>2, <1>4, Zenon DEF Newlines
  <2>4. \A i \in 1 .. e : s[i] = NL => i = e
    BY <2>1, <2>3
  <2> QED  BY <2>1, <2>4
<1> DEFINE d == SubSeq(s, 1, e)
<1>6. d \in Seq(Octet) /\ Len(d) = e /\ \A i \in 1 .. e : d[i] = s[i]
  BY <1>1, <1>5
<1>7. d = p
  <2>1. {k \in DOMAIN s : \A x \in Newlines(s) : k <= x} = 1 .. e
    <3>1. \A k \in DOMAIN s : (\A x \in Newlines(s) : k <= x) <=> k <= e
      <4> SUFFICES ASSUME NEW k \in DOMAIN s, k <= e, NEW x \in Newlines(s)  PROVE  k <= x
        OBVIOUS
      <4>1. k \in Int /\ e \in Int /\ x \in Int /\ e <= x
        BY <1>1, <1>4, <1>5
      <4> QED  BY <4>1
    <3>2. {k \in DOMAIN s : k <= e} = 1 .. e
      BY <1>1, <1>5
    <3> QED  BY <3>1, <3>2
  <2>2. p = [i \in 1 .. e |-> s[i]]
    BY <2>1, Zenon DEF FirstLine
  <2> HIDE DEF d, p
  <2>3. d = [i \in 1 .. e |-> d[i]]
    BY <1>6
  <2>4. [i \in 1 .. e |-> d[i]] = [i \in 1 .. e |-> s[i]]
    BY <1>6
  <2> QED  BY <2>2, <2>3, <2>4, Zenon
<1> HIDE DEF d, p
<1>8. upto_marker(s, 1)[1] = p /\ p \in Seq(Octet) /\ Len(p) = e /\ \A i \in 1 .. e : p[i] = s[i]
  BY <1>3, <1>6, <1>7 DEF d
<1>9. p # <<>>
  BY <1>5, <1>8
<1> QED  BY <1>5, <1>8, <1>9 DEF p

\* Two occurrences of a line do not overlap.
LEMMA LinesApart ==
  ASSUME NEW d \in Seq(Octet), NEW p \in Seq(Octet), p # <<>>, \A i \in 1 .. Len(p) : p[i] = NL <=> i = Len(p)
  PROVE  CountsTwo(d, p) <=> Cardinality(Occurrences(d, p)) > 1
<1> DEFINE occ == Occurrences(d, p)
           n == Len(p)
           m == Len(d)
<1>1. n \in Nat /\ n >= 1 /\ m \in Nat
  OBVIOUS
<1>2. \A k \in occ : k \in 1 .. (m - n) + 1 /\ SubSeq(d, k, k + n - 1) = p
  BY DEF Occurrences
<1> HIDE DEF occ
<1>3. ASSUME NEW k \in occ, NEW i \in 1 .. n  PROVE  p[i] = d[k + i - 1]
  <2>1. k \in 1 .. (m - n) + 1 /\ SubSeq(d, k, k + n - 1) = p
    BY <1>2
  <2>0. \A j \in 1 .. m : d[j] \in Octet
    OBVIOUS
  <2> HIDE DEF n, m
  <2>2. k \in Int /\ k + n - 1 \in Int /\ ((k + n - 1) - k) + 1 = n /\ \A j \in k .. k + n - 1 : j \in 1 .. m
    BY <2>1, <1>1
  <2>3. \A j \in k .. k + n - 1 : d[j] \in Octet
    BY <2>0, <2>2
  <2>4. \A j \in 1 .. ((k + n - 1) - k) + 1 : SubSeq(d, k, k + n - 1)[j] = d[k + j - 1]
    BY <2>2, <2>3, SubSeqProperties
  <2> QED  BY <2>1, <2>2, <2>4
<1>4. \A k \in occ : k \in Int
  BY <1>2
<1>5. ASSUME NEW i \in occ, NEW j \in occ, i < j, ~(i + n <= j)  PROVE  FALSE
  <2> DEFINE x == (i + n) - j
  <2>1. i \in Int /\ j \in Int
    BY <1>4
  <2>2. x \in 1 .. n /\ x # n /\ n \in 1 .. n /\ j + x - 1 = i + n - 1
    BY <2>1, <1>1, <1>5
  <2>3. p[x] = d[j + x - 1] /\ p[n] = d[i + n - 1]
    BY <2>2, <1>3
  <2>4. p[n] = NL /\ ~(p[x] = NL)
    BY <2>2
  <2> HIDE DEF x, n
  <2> QED  BY <2>2, <2>3, <2>4
<1>6. CountsTwo(d, p) <=> \E i, j \in occ : i # j
  <2>1. CountsTwo(d, p) <=> \E i, j \in occ : i + n <= j
    BY Zenon DEF CountsTwo, occ
  <2>2. ASSUME NEW i \in occ, NEW j \in occ, i # j  PROVE  \E a, b \in occ : a + n <= b
    <3>1. i \in Int /\ j \in Int
      BY <1>4
    <3>2. i < j \/ j < i
      BY <3>1, <2>2
    <3> QED  BY <3>2, <1>5
  <2>3. ASSUME NEW i \in occ, NEW j \in occ, i + n <= j  PROVE  i # j
    BY <2>3, <1>1, <1>4
  <2> QED  BY <2>1, <2>2, <2>3
<1>7. IsFiniteSet(occ) /\ Cardinality(occ) \in Nat
  <2>1. occ \in SUBSET (1 .. (m - n) + 1) /\ IsFiniteSet(1 .. (m - n) + 1)
    <3>1. (m - n) + 1 \in Int
      BY <1>1
    <3> HIDE DEF n, m
    <3> QED  BY <3>1, <1>2, FS_Interval
  <2>2. IsFiniteSet(occ)
    BY <2>1, FS_Subset
  <2> QED  BY <2>2, FS_CardinalityType
<1>8. Cardinality(occ) > 1 <=> \E i, j \in occ : i # j
  <2>1. Cardinality(occ) = 0 <=> occ = {}
    BY <1>7, FS_EmptySet
  <2>2. Cardinality(occ) = 1 <=> \E x : occ = {x}
    BY <1>7, FS_Singleton
  <2>3. (\E i, j \in occ : i # j) <=> ~(occ = {} \/ \E x : occ = {x})
    <3>1. ASSUME NEW i \in occ, NEW j \in occ, i # j  PROVE  ~(occ = {} \/ \E x : occ = {x})
      BY <3>1
    <3>2. ASSUME occ # {}, ~\E x : occ = {x}  PROVE  \E i, j \in occ : i # j
      <4>1. PICK i \in occ : TRUE
        BY <3>2
      <4>2. occ # {i}
        BY <3>2
      <4>3. PICK j \in occ : j # i
        BY <4>1, <4>2
      <4> QED  BY <4>3
    <3> QED  BY <3>1, <3>2, Zenon
  <2>4. Cardinality(occ) > 1 <=> ~(Cardinality(occ) = 0 \/ Cardinality(occ) = 1)
    BY <1>7
  <2> QED  BY <2>1, <2>2, <2>3, <2>4, Zenon
<1> QED  BY <1>6, <1>8 DEF occ

\* The host's classification is the documented one.
LEMMA ClassifyIsReference ==
  ASSUME NEW ref \in Seq(Octet), NEW out \in Seq(Octet), NEW a \in BOOLEAN, upto_marker(ref, N_END)[2]
  PROVE  classify(out, ref, a) = Reference(ref, out, a)
<1> DEFINE dm == upto_marker(out, N_END)
           gm == upto_marker(ref, N_END)
           line == FirstLine(ref)
           crash == \E c \in CRASH : Occurrences(dm[1], c) # {}
           two == CountsTwo(dm[1], upto_marker(ref, 1)[1])
           few == Cardinality(Newlines(out)) < N_END
           rcrash == \E c \in CRASH : FoundAt(c, out) # {}
           rtwo == Cardinality(FoundAt(line, out)) > 1
           same == [k \in HeadOf(out) |-> out[k]] = [k \in HeadOf(ref) |-> ref[k]]
<1>1. classify(out, ref, a) =
        IF a \/ ~dm[2] \/ crash \/ two THEN "DUE" ELSE IF dm[1] = gm[1] THEN "Masked" ELSE "SDC"
  <2>1. classify(out, ref, a) =
          CASE a -> "DUE" [] ~a /\ ~dm[2] -> "DUE" [] ~a /\ dm[2] /\ (crash \/ two) -> "DUE"
            [] OTHER -> IF dm[1] = gm[1] THEN "Masked" ELSE "SDC"
    BY Zenon DEF classify
  <2> HIDE DEF dm, gm, crash, two
  <2> QED  BY <2>1
<1>2. Reference(ref, out, a) =
        IF a \/ few \/ rcrash \/ rtwo THEN "DUE" ELSE IF same THEN "Masked" ELSE "SDC"
  <2>1. Reference(ref, out, a) =
          IF \/ a \/ few
             \/ rcrash \/ rtwo
          THEN "DUE" ELSE IF same THEN "Masked" ELSE "SDC"
    BY Zenon DEF Reference, Newlines, FoundAt, FirstLine, HeadOf
  <2> HIDE DEF few, rcrash, rtwo, same
  <2> QED  BY <2>1
<1>3. N_END \in Nat /\ N_END >= 1 /\ Newlines(ref) # {}
  <2> DEFINE ends == {i \in Newlines(ref) : Lines(ref, i) = N_END}
  <2>1. gm = IF ends = {} THEN <<ref, FALSE>> ELSE <<SubSeq(ref, 1, CHOOSE i \in ends : TRUE), TRUE>>
    BY Zenon DEF upto_marker, Lines, Upto
  <2>2. ends # {}
    <3>1. \A x : <<x, FALSE>>[2] = FALSE
      OBVIOUS
    <3> HIDE DEF ends
    <3> QED  BY <2>1, <3>1, Zenon
  <2>3. PICK e \in ends : TRUE
    BY <2>2
  <2>4. e \in Newlines(ref) /\ Lines(ref, e) = N_END /\ e \in Int /\ 0 < e /\ 0 \in Int
    BY LinesGrow
  <2>5. Lines(ref, 0) < Lines(ref, e) /\ Lines(ref, 0) = 0 /\ Lines(ref, e) \in Nat
    BY <2>4, LinesGrow
  <2> QED  BY <2>4, <2>5
<1>4. dm[2] <=> ~few
  <2>1. dm[2] <=> Cardinality(Newlines(out)) >= N_END
    BY <1>3, MarkerIs
  <2>2. IsFiniteSet(Newlines(out))
    BY LinesGrow
  <2>3. Cardinality(Newlines(out)) \in Nat
    BY <2>2, FS_CardinalityType
  <2> HIDE DEF dm
  <2> QED  BY <2>1, <2>3, <1>3
<1>5. ASSUME dm[2]  PROVE  (crash <=> rcrash) /\ (two <=> rtwo) /\ (same <=> dm[1] = gm[1])
  <2>1. PICK e \in Newlines(out) : Lines(out, e) = N_END /\ dm[1] = SubSeq(out, 1, e)
    BY <1>3, <1>5, MarkerIs
  <2>2. PICK f \in Newlines(ref) : Lines(ref, f) = N_END /\ gm[1] = SubSeq(ref, 1, f)
    BY <1>3, MarkerIs
  <2>3. HeadOf(out) = 1 .. e /\ e \in 1 .. Len(out) /\ HeadOf(ref) = 1 .. f /\ f \in 1 .. Len(ref)
    BY <2>1, <2>2, HeadIs
  <2>4. \A p \in Seq(Octet) : /\ p # <<>> => FoundAt(p, out) = Occurrences(SubSeq(out, 1, e), p)
                              /\ FoundAt(p, out) # {} <=> Occurrences(SubSeq(out, 1, e), p) # {}
    BY <2>3, FoundIs
  <2>5. CRASH \subseteq Seq(Octet)
    <3>1. Char \subseteq Octet /\ CRASH \subseteq Seq(Char)
      BY BoardRunAssumption DEF Char, Octet
    <3> QED  BY <3>1
  <2>6. crash <=> rcrash
    BY <2>1, <2>4, <2>5, Zenon
  <2>7. /\ upto_marker(ref, 1)[1] = line /\ line \in Seq(Octet) /\ line # <<>>
        /\ \A i \in 1 .. Len(line) : line[i] = NL <=> i = Len(line)
    BY <1>3, FirstLineIs
  <2>8. SubSeq(out, 1, e) \in Seq(Octet)
    BY <2>3
  <2>9. two <=> rtwo
    <3> HIDE DEF line
    <3>1. CountsTwo(SubSeq(out, 1, e), line) <=> Cardinality(Occurrences(SubSeq(out, 1, e), line)) > 1
      BY <2>7, <2>8, LinesApart
    <3>2. FoundAt(line, out) = Occurrences(SubSeq(out, 1, e), line)
      BY <2>4, <2>7
    <3> QED  BY <3>1, <3>2, <2>1, <2>7, Zenon
  <2>10. same <=> dm[1] = gm[1]
    <3>1. SubSeq(out, 1, e) = [k \in 1 .. e |-> out[k]] /\ SubSeq(ref, 1, f) = [k \in 1 .. f |-> ref[k]]
      BY <2>3
    <3> QED  BY <3>1, <2>1, <2>2, <2>3, Zenon
  <2> QED  BY <2>6, <2>9, <2>10
<1> HIDE DEF dm, gm, crash, two, few, rcrash, rtwo, same
<1> QED  BY <1>1, <1>2, <1>4, <1>5

-----------------------------------------------------------------------------
(* The end of a campaign, and the theorems.                                  *)

\* The parser reads on the same way when the host forgets the runs.
LEMMA BareHears ==
  ASSUME NEW s \in ParserType, RecKept(s), NEW x \in Octet
  PROVE  Bare(Byte(Bare(s), x)) = Bare(Byte(s, x))
<1> DEFINE r == Bare(s)
           a == Byte(s, x)
           b == Byte(r, x)
<1>1. r \in ParserType /\ RecKept(r) /\ r.inrec = s.inrec /\ r.rec = s.rec /\ r.esc = s.esc
  BY BareTyped DEF RecKept
<1> HIDE DEF r
<1>2. Parsed(s, x, a) /\ Parsed(r, x, b) /\ a \in ParserType /\ b \in ParserType
  BY <1>1, ByteParsed
<1>3. Unescaped(s, x) = Unescaped(r, x) /\ C0 # DB /\ Special = {C0, DB} /\ s.inrec \in BOOLEAN
  BY <1>1, BytesAre DEF Unescaped, Special, ParserType
<1> HIDE DEF a, b
<1>4. (a.inrec <=> b.inrec) /\ (a.esc <=> b.esc) /\ a.rec = b.rec
  <2>1. Len(s.rec) < 7 \/ Len(s.rec) = 7
    <3>1. \A n \in Nat : n <= 7 => n < 7 \/ n = 7
      OBVIOUS
    <3>2. Len(s.rec) \in Nat /\ Len(s.rec) <= 7
      BY DEF RecKept, ParserType
    <3> QED  BY <3>1, <3>2, Zenon
  <2> QED  BY <2>1, <1>1, <1>2, <1>3, Zenon DEF Parsed
<1>5. /\ Bare(a) \in ParserType /\ Bare(a).runs = <<>> /\ Bare(a).esc = a.esc /\ Bare(a).inrec = a.inrec /\ Bare(a).rec = a.rec
      /\ Bare(b) \in ParserType /\ Bare(b).runs = <<>> /\ Bare(b).esc = b.esc /\ Bare(b).inrec = b.inrec /\ Bare(b).rec = b.rec
  BY <1>2, BareTyped
<1>6. a.inrec = b.inrec /\ a.esc = b.esc
  BY <1>2, <1>4 DEF ParserType
<1>7. \A p \in ParserType : p = [esc |-> p.esc, inrec |-> p.inrec, rec |-> p.rec, runs |-> p.runs]
  BY DEF ParserType
<1>8. Bare(a) = Bare(b)
  <2>1. /\ Bare(a) = [esc |-> a.esc, inrec |-> a.inrec, rec |-> a.rec, runs |-> <<>>]
        /\ Bare(b) = [esc |-> b.esc, inrec |-> b.inrec, rec |-> b.rec, runs |-> <<>>]
    BY <1>5, <1>7, Zenon
  <2> QED  BY <2>1, <1>4, <1>6, Zenon
<1> QED  BY <1>8 DEF a, b, r

\* A verdict that the host gives is on a trial that is over.
LEMMA CollectVerdict ==
  ASSUME BoardInv, pc = "wait", NEW j \in 1 .. N, j + 1 <= Len(st.runs)
  PROVE  /\ VerdictOn(st.runs[j], st.runs[j + 1], golden) \in {"LOST", Reference(golden, log[j].out, log[j].abort)}
         /\ dut.now = 0 \/ dut.now > j
         /\ dut.next = 0 \/ dut.next > j
<1>1. u \in UartType /\ InFlight(u) \in Nat /\ N \in Nat /\ j \in Nat /\ j <= N
  BY FlightTyped, BoardRunAssumption DEF BoardInv, IInv, TypeOK
<1>2. PICK ph : Reading(ph) /\ Shape(u, ph) /\ WaitInv(ph)
  BY DEF BoardInv, StreamInv
<1> DEFINE F == ph[InFlight(u)]
<1>3. InFlight(u) \in 0 .. InFlight(u) /\ 0 \in 0 .. InFlight(u)
  BY <1>1
<1>4. st \in ParserType /\ F \in ParserType /\ RunsAre(first, log, F, st) /\ CampaignIs(u, dut, reached, first, log, F)
  BY <1>2, <1>3 DEF Reading, WaitInv
<1> HIDE DEF F
<1>5. Len(st.runs) \in Nat /\ Len(F.runs) \in Nat /\ st.runs \in Seq(RunType)
  BY <1>4 DEF ParserType
<1>6. FaithfulRuns(log, st.runs) /\ Len(st.runs) <= Len(F.runs)
  BY <1>4 DEF RunsAre
<1>7. (dut.now = 0 \/ dut.now > j) /\ (dut.next = 0 \/ dut.next > j)
  <2>1. Started(u, dut, F) \in Nat /\ Started(u, dut, F) > j
    <3>1. One(u.rec # <<>>) \in 0 .. 1 /\ One(dut.run /\ ~u.rst_q) \in 0 .. 1
      BY DEF One
    <3> QED  BY <3>1, <1>1, <1>5, <1>6 DEF Started, Loaded
  <2>2. CountIs(u, dut, reached, F)
    BY <1>4 DEF CampaignIs
  <2> QED  BY <2>1, <2>2, <1>1 DEF CountIs
<1> DEFINE run == st.runs[j]
           nxt == st.runs[j + 1]
           e == log[j]
<1>8. Faithful(run, nxt.flags_prev, e) /\ run \in RunType /\ nxt \in RunType /\ e \in LogType
  <2>1. j \in 1 .. Len(st.runs) - 1 /\ j \in 1 .. Len(st.runs) /\ j + 1 \in 1 .. Len(st.runs)
    BY <1>1, <1>5
  <2>2. Faithful(run, nxt.flags_prev, e)
    BY <2>1, <1>1, <1>6 DEF FaithfulRuns
  <2>3. e \in LogType
    BY DEF BoardInv, HostInv
  <2> QED  BY <2>1, <2>2, <2>3, <1>5
<1>9. golden \in Seq(Octet) /\ upto_marker(golden, N_END)[2]
  <2>1. golden \in Seq(Char) /\ Char \subseteq Octet
    BY BytesAre DEF BoardInv, IInv, TypeOK
  <2> QED  BY <2>1 DEF BoardInv, HostInv
<1> HIDE DEF run, nxt, e
<1>10. CASE Lossy(run, nxt)
  BY <1>10, <1>7 DEF VerdictOn, run, nxt
<1>11. CASE ~Lossy(run, nxt)
  <2>1. VerdictOn(run, nxt, golden) = classify(run.data, golden, Aborted(nxt))
    BY <1>11 DEF VerdictOn
  <2>2. run.data = e.out /\ (Aborted(nxt) <=> e.abort)
    BY <1>8, <1>11, Zenon DEF Lossy, Faithful, Aborted
  <2>3. e.out \in Seq(Octet) /\ e.abort \in BOOLEAN
    BY <1>8 DEF LogType
  <2>4. Aborted(nxt) \in BOOLEAN
    BY DEF Aborted
  <2>5. Aborted(nxt) = e.abort
    BY <2>2, <2>3, <2>4
  <2>6. classify(e.out, golden, e.abort) = Reference(golden, e.out, e.abort)
    BY <2>3, <1>9, ClassifyIsReference
  <2>7. VerdictOn(run, nxt, golden) = Reference(golden, e.out, e.abort)
    BY <2>1, <2>2, <2>5, <2>6
  <2> QED  BY <2>7, <1>7 DEF run, nxt, e
<1> QED  BY <1>10, <1>11

\* The host takes the verdicts and forgets the runs.
LEMMA HostCollects ==
  ASSUME BoardInv, Done \/ Timeout
  PROVE  HostInv' /\ Verdicts' /\ StreamInv'
<1>1. /\ u' = u /\ dut' = dut /\ golden' = golden /\ reached' = reached /\ log' = log /\ q' = q
      /\ pc = "wait" /\ pc' \in {"pause", "done"} /\ st' = [st EXCEPT !.runs = <<>>]
      /\ verdict' = [j \in {i \in 1 .. N : i + 1 <= Len(st.runs)} |-> VerdictOn(st.runs[j], st.runs[j + 1], golden)]
  BY DEF Done, Timeout, Collect, board, history
<1>2. u \in UartType /\ InFlight(u) \in Nat /\ 0 \in 0 .. InFlight(u) /\ InFlight(u) \in 0 .. InFlight(u)
  <2>1. u \in UartType
    BY DEF BoardInv, IInv, TypeOK
  <2>2. InFlight(u) \in Nat
    BY <2>1, FlightTyped
  <2> QED  BY <2>1, <2>2
<1>3. PICK ph : Reading(ph) /\ Shape(u, ph)
  BY DEF BoardInv, StreamInv
<1>4. \A i \in 0 .. InFlight(u) : ph[i] \in ParserType /\ RecKept(ph[i])
  BY <1>3 DEF Reading, Shape
<1>5. st \in ParserType /\ st = ph[0] /\ st' = Bare(st)
  BY <1>1, <1>2, <1>3, <1>4 DEF Reading, Bare
<1>6. HostInv'
  <2>1. st'.runs = <<>>
    BY <1>5, BareTyped
  <2> QED  BY <2>1, <1>1 DEF BoardInv, HostInv
<1>7. Verdicts'
  <2> DEFINE D == {i \in 1 .. N : i + 1 <= Len(st.runs)}
  <2>1. DOMAIN verdict' = D /\ \A j \in D : verdict'[j] = VerdictOn(st.runs[j], st.runs[j + 1], golden)
    BY <1>1, Zenon
  <2>2. \A j \in D : /\ VerdictOn(st.runs[j], st.runs[j + 1], golden) \in {"LOST", Reference(golden, log[j].out, log[j].abort)}
                     /\ dut.now = 0 \/ dut.now > j
                     /\ dut.next = 0 \/ dut.next > j
    BY <1>1, CollectVerdict
  <2>3. D \subseteq 1 .. N
    OBVIOUS
  <2> HIDE DEF D
  <2> QED  BY <2>1, <2>2, <2>3, <1>1, Zenon DEF Verdicts
<1>80. PICK pb : pb = [i \in 0 .. InFlight(u) |-> Bare(ph[i])]
  OBVIOUS
<1>8. \A i \in 0 .. InFlight(u) : pb[i] = Bare(ph[i])
  BY <1>80
<1>9. /\ pb \in [0 .. InFlight(u) -> ParserType]
      /\ \A i \in 0 .. InFlight(u) :
           pb[i].inrec = ph[i].inrec /\ pb[i].esc = ph[i].esc /\ pb[i].rec = ph[i].rec
  BY <1>4, <1>80, BareTyped
<1>10. Reading(pb)'
  <2>1. ASSUME NEW i \in 1 .. InFlight(u)  PROVE  pb[i] = Hear(pc', pb[i - 1], ByteAt(u, i))
    <3>1. i \in 0 .. InFlight(u) /\ i - 1 \in 0 .. InFlight(u)
      BY <1>2
    <3>2. ByteAt(u, i) \in Octet
      BY <1>2, ByteTyped
    <3>3. ph[i] = Byte(ph[i - 1], ByteAt(u, i))
      BY <1>1, <1>3 DEF Reading, Hear
    <3>4. Bare(Byte(Bare(ph[i - 1]), ByteAt(u, i))) = Bare(Byte(ph[i - 1], ByteAt(u, i)))
      BY <3>1, <3>2, <1>4, BareHears
    <3>5. pb[i] = Bare(Byte(pb[i - 1], ByteAt(u, i)))
      BY <3>1, <3>3, <3>4, <1>8
    <3> QED  BY <3>5, <1>1 DEF Hear
  <2>2. pb[0] = st'
    BY <1>2, <1>5, <1>8
  <2> QED  BY <2>1, <2>2, <1>1, <1>9, Zenon DEF Reading
<1>11. Shape(u, pb)
  <2>1. RecShape(u) /\ EndShape(u, pb[InFlight(u)])
    BY <1>2, <1>3, <1>9 DEF Shape, EndShape
  <2>2. \A i \in 0 .. InFlight(u) : RecKept(pb[i])
    BY <1>4, <1>9 DEF RecKept
  <2>3. InRecEnds(u, pb)
    <3>1. \A i \in 0 .. InFlight(u) : \A k \in i + 1 .. InFlight(u) : Ends(ph, k) => Ends(pb, k)
      <4> SUFFICES ASSUME NEW i \in 0 .. InFlight(u), NEW k \in i + 1 .. InFlight(u), Ends(ph, k)  PROVE  Ends(pb, k)
        OBVIOUS
      <4>1. k \in 0 .. InFlight(u) /\ k - 1 \in 0 .. InFlight(u)
        BY <1>2
      <4> QED  BY <4>1, <1>9 DEF Ends
    <3>2. InRecEnds(u, ph)
      BY <1>3 DEF Shape
    <3> QED  BY <3>1, <3>2, <1>9 DEF InRecEnds
  <2> QED  BY <2>1, <2>2, <2>3 DEF Shape
<1>12. Shape(u, pb)' /\ QuietInv(pb)' /\ LoadInv(pb)' /\ WaitInv(pb)'
  <2>1. Shape(u, pb)'
    BY <1>1, <1>11
  <2>2. pc' # "quiet" /\ pc' # "load" /\ pc' # "wait"
    BY <1>1
  <2> QED  BY <2>1, <2>2 DEF QuietInv, LoadInv, WaitInv
<1> QED  BY <1>6, <1>7, <1>10, <1>12 DEF StreamInv

LEMMA BoardHosts ==
  ASSUME QuietFits, BoardInv, Host \/ Timeout \/ UNCHANGED vars
  PROVE  BoardInv'
<1>1. IInv' /\ Paced'
  <2>1. IInv'
    BY NextKeepsInv DEF BoardInv, Next
  <2>2. Paced'
    <3>1. u' = u /\ dut'.run = dut.run /\ dut'.cnt = dut.cnt /\ dut'.gap = dut.gap
      BY HostLeavesBoard DEF BoardInv
    <3> QED  BY <3>1 DEF BoardInv, Paced, Starting
  <2> QED  BY <2>1, <2>2
<1>2. CASE UNCHANGED vars
  <2>1. /\ u' = u /\ dut' = dut /\ pc' = pc /\ st' = st /\ golden' = golden /\ q' = q /\ reached' = reached
        /\ session' = session /\ verdict' = verdict /\ log' = log /\ first' = first
    BY <1>2 DEF vars, board, history
  <2>2. HostInv' /\ Verdicts'
    BY <2>1 DEF BoardInv, HostInv, Verdicts
  <2>3. PICK ph : Reading(ph) /\ Shape(u, ph) /\ QuietInv(ph) /\ LoadInv(ph) /\ WaitInv(ph)
    BY DEF BoardInv, StreamInv
  <2>4. Reading(ph)' /\ Shape(u, ph)' /\ QuietInv(ph)' /\ LoadInv(ph)' /\ WaitInv(ph)'
    BY <2>1, <2>3 DEF Reading, QuietInv, LoadInv, WaitInv
  <2> QED  BY <1>1, <2>2, <2>4 DEF BoardInv, StreamInv
<1>3. CASE Host \/ Timeout
  BY <1>1, <1>3, HostRests, HostPauses, HostLoads, HostStarts, HostCollects DEF Host, BoardInv
<1> QED  BY <1>2, <1>3

LEMMA PacedInit == Init => Paced
<1> SUFFICES ASSUME Init PROVE Paced
  OBVIOUS
<1>1. u.rst_q = TRUE /\ u.nb = 0
  BY DEF Init, Reset
<1>2. dut.run = TRUE /\ dut.gap = 0 /\ dut.cnt = TO_THR
  BY DEF Init
<1> QED  BY <1>1, <1>2, BoardRunAssumption, BoardUartAssumption DEF Paced, Starting

\* A cycle notices a trial that starts late.
LEMMA ClockNotices ==
  ASSUME Clock
  PROVE  in_time' => in_time /\ LeavesInTime
<1>1. PICK obs, ab, d : Cycle(obs, ab, d)
  BY Zenon DEF Clock, Output, Idle, Abort, Window, StartTrial
<1>2. in_time' = (in_time /\ (trial_start(u, dut.run) => Through(u)))
  BY <1>1 DEF Cycle
<1> QED  BY <1>2 DEF LeavesInTime, Starting, trial_start

LEMMA BoardInit == Init => BoardInv
<1> SUFFICES ASSUME Init PROVE BoardInv
  OBVIOUS
<1>1. IInv
  BY InitInv
<1>2. Paced
  BY PacedInit
<1>3. /\ u = [Reset(Trial0) EXCEPT !.rst_q = TRUE] /\ pc = "args" /\ st = Fresh /\ q = 0 /\ reached \in BOOLEAN
      /\ verdict = <<>> /\ log = NoLog
  BY DEF Init
<1>4. /\ u.rec = <<>> /\ u.esc = NoByte /\ u.dbuf = NoByte /\ u.push = NoByte /\ u.nb = 0 /\ u.fifo = <<>>
  BY <1>3 DEF Reset
<1>5. InFlight(u) = 0
  <2>1. used(u) = 0 /\ framed(u) = 0 /\ pushing(u) = 0
    BY <1>4 DEF used, framed, pushing, One
  <2> QED  BY <2>1 DEF InFlight
<1>6. st \in ParserType /\ ~st.inrec /\ ~st.esc /\ st.rec = <<>> /\ st.runs = <<>>
  <2>1. <<>> \in Seq(Octet) /\ <<>> \in Seq(RunType)
    OBVIOUS
  <2> QED  BY <2>1, <1>3 DEF Fresh, ParserType
<1>7. HostInv
  <2>1. NoLog \in [1 .. N -> LogType]
    <3>1. [out |-> <<>>, abort |-> FALSE] \in LogType
      BY DEF LogType
    <3> QED  BY <3>1 DEF NoLog
  <2> QED  BY <2>1, <1>3, <1>6 DEF HostInv
<1>8. Verdicts
  <2>1. DOMAIN <<>> = {}
    OBVIOUS
  <2> QED  BY <2>1, <1>3 DEF Verdicts
<1> DEFINE ph == [i \in 0 .. 0 |-> st]
<1>9. Reading(ph)
  <2>1. ph[0] = st /\ ph \in [0 .. 0 -> ParserType] /\ \A i \in 1 .. 0 : FALSE
    BY <1>6
  <2> HIDE DEF ph
  <2> QED  BY <2>1, <1>5 DEF Reading
<1>10. Shape(u, ph)
  <2>1. ph[0] = st /\ \A i \in 0 .. 0 : i = 0
    OBVIOUS
  <2> HIDE DEF ph
  <2>2. RecShape(u)
    BY <1>4 DEF RecShape, RecFits, RecLen
  <2>3. EndShape(u, st)
    BY <1>4, <1>6 DEF EndShape, One
  <2>4. RecKept(st)
    BY <1>6 DEF RecKept, One
  <2>5. InRecEnds(u, ph)
    BY <2>1, <1>5, <1>6 DEF InRecEnds
  <2> QED  BY <2>1, <2>2, <2>3, <2>4, <2>5, <1>5 DEF Shape
<1>11. QuietInv(ph) /\ LoadInv(ph) /\ WaitInv(ph)
  BY <1>3 DEF QuietInv, LoadInv, WaitInv
<1>12. StreamInv
  BY <1>9, <1>10, <1>11 DEF StreamInv
<1> QED  BY <1>1, <1>2, <1>7, <1>8, <1>12 DEF BoardInv

\* The invariant of the trials, as long as none has started late.
InTimeInv == IInv /\ (in_time => BoardInv)

LEMMA InTimeKept ==
  ASSUME QuietFits
  PROVE  InTimeInv /\ [Next]_vars => InTimeInv'
<1> SUFFICES ASSUME InTimeInv, [Next]_vars PROVE InTimeInv'
  OBVIOUS
<1>1. IInv'
  BY NextKeepsInv DEF InTimeInv
<1>2. CASE Clock
  <2>1. ASSUME in_time'  PROVE  BoardInv'
    <3>1. in_time /\ LeavesInTime
      BY <1>2, <2>1, ClockNotices
    <3> QED  BY <3>1, <1>2, BoardClock DEF InTimeInv
  <2> QED  BY <2>1, <1>1 DEF InTimeInv
<1>3. CASE Host \/ Timeout \/ UNCHANGED vars
  <2>1. in_time' = in_time
    BY <1>3, HostLeavesBoard DEF InTimeInv
  <2>2. ASSUME in_time'  PROVE  BoardInv'
    BY <2>1, <2>2, <1>3, BoardHosts DEF InTimeInv
  <2> QED  BY <2>2, <1>1 DEF InTimeInv
<1> QED  BY <1>2, <1>3 DEF Next

LEMMA InTimeAlways ==
  ASSUME QuietFits
  PROVE  Spec => []InTimeInv
<1>1. Init => InTimeInv
  BY InitInv, BoardInit DEF InTimeInv
<1>2. InTimeInv /\ [Next]_vars => InTimeInv'
  BY InTimeKept
<1> QED  BY <1>1, <1>2, PTL DEF Spec

-----------------------------------------------------------------------------
(* A trial starts late only after the FIFO has been full.                    *)

\* What the sequencer holds fits into what is left of the reset window.
RoomInv ==
  /\ IInv /\ Paced /\ RecFits(u) /\ in_time
  /\ ~dut.run => Backlog(u) <= dut.gap
  /\ Starting => Backlog(u) = 0

LEMMA BacklogTyped ==
  ASSUME NEW v, RecFits(v)
  PROVE  Backlog(v) \in 0 .. 21 /\ (Backlog(v) = 0 => Through(v))
<1>1. /\ EscPush(v) \in 0 .. 1 /\ DataPushes(v) \in 0 .. 2 /\ RecPushes(v) \in 0 .. 18
      /\ v.rec # <<>> => RecPushes(v) >= 1
  BY PushesTyped
<1>2. (v.esc # NoByte => EscPush(v) = 1) /\ (v.dbuf # NoByte => DataPushes(v) >= 1)
  BY DEF EscPush, DataPushes, One
<1>3. \A e \in 0 .. 1, d \in 0 .. 2, r \in 0 .. 18 :
        (e + r) + d \in 0 .. 21 /\ ((e + r) + d = 0 => e = 0 /\ d = 0 /\ r = 0)
  BY SMT
<1>4. Backlog(v) = (EscPush(v) + RecPushes(v)) + DataPushes(v)
  BY DEF Backlog, Pushes
<1>5. Backlog(v) \in 0 .. 21 /\ (Backlog(v) = 0 => EscPush(v) = 0 /\ DataPushes(v) = 0 /\ RecPushes(v) = 0)
  BY <1>1, <1>3, <1>4, Zenon
<1>6. EscPush(v) = 0 /\ DataPushes(v) = 0 /\ RecPushes(v) = 0 => v.rec = <<>> /\ v.esc = NoByte /\ v.dbuf = NoByte
  BY <1>1, <1>2
<1> QED  BY <1>5, <1>6, Zenon DEF Through

\* In the reset window a cycle takes a push off the backlog, unless the FIFO is full.
LEMMA BacklogFalls ==
  ASSUME NEW v \in UartType, RecFits(v), ~full(v), NEW w, RecFits(w), Edge(v, FALSE, NoByte, FALSE, w)
  PROVE  Backlog(w) <= IF Backlog(v) = 0 THEN 0 ELSE Backlog(v) - 1
<1>1. ~new_rec(v, FALSE) /\ ~lost(v, NoByte)
  BY DEF new_rec, trial_start, lost
<1>2. w.dbuf = IF take_d(v) THEN NoByte ELSE v.dbuf
  BY DEF Edge
<1>3. Idles(v, w) \/ SendsEsc(v, w) \/ SendsRec(v, w) \/ SendsData(v, w)
  BY <1>1, SequencerCases
<1>4. \/ Idles(v, w) /\ Pushes(w) = Pushes(v)
      \/ (SendsEsc(v, w) \/ SendsRec(v, w)) /\ Pushes(w) <= Pushes(v) - 1
      \/ SendsData(v, w) /\ Pushes(v) = 0 /\ Pushes(w) = DataPushes(v) - 1
  BY <1>3, PushesOne
<1>5. DataPushes(v) \in 0 .. 2 /\ DataPushes(w) \in 0 .. 2 /\ Pushes(v) \in 0 .. 19 /\ Pushes(w) \in 0 .. 19
  <2>1. /\ EscPush(v) \in 0 .. 1 /\ DataPushes(v) \in 0 .. 2 /\ RecPushes(v) \in 0 .. 18
        /\ EscPush(w) \in 0 .. 1 /\ DataPushes(w) \in 0 .. 2 /\ RecPushes(w) \in 0 .. 18
    BY PushesTyped
  <2>2. \A e \in 0 .. 1, r \in 0 .. 18 : e + r \in 0 .. 19
    BY SMT
  <2> QED  BY <2>1, <2>2, Zenon DEF Pushes
<1>6. Backlog(v) = Pushes(v) + DataPushes(v) /\ Backlog(w) = Pushes(w) + DataPushes(w)
  BY DEF Backlog
<1>7. CASE Idles(v, w)
  <2>1. v.esc = NoByte /\ v.rec = <<>> /\ v.dbuf = NoByte /\ w.esc = NoByte /\ w.rec = <<>> /\ w.dbuf = NoByte
    BY <1>2, <1>7 DEF Idles
  <2>2. /\ EscPush(v) = 0 /\ RecPushes(v) = 0 /\ DataPushes(v) = 0
        /\ EscPush(w) = 0 /\ RecPushes(w) = 0 /\ DataPushes(w) = 0
    BY <2>1 DEF EscPush, RecPushes, DataPushes, One
  <2> QED  BY <2>2, <1>6 DEF Pushes
<1>8. CASE (SendsEsc(v, w) \/ SendsRec(v, w)) /\ Pushes(w) <= Pushes(v) - 1
  <2>1. w.dbuf = v.dbuf
    BY <1>2, <1>8 DEF SendsEsc, SendsRec
  <2>2. DataPushes(w) = DataPushes(v)
    BY <2>1 DEF DataPushes
  <2>3. \A a, b \in 0 .. 19, d \in 0 .. 2 : b <= a - 1 => b + d <= IF a + d = 0 THEN 0 ELSE (a + d) - 1
    BY SMT
  <2> QED  BY <2>2, <2>3, <1>5, <1>6, <1>8, Zenon
<1>9. CASE SendsData(v, w) /\ Pushes(v) = 0 /\ Pushes(w) = DataPushes(v) - 1
  <2>1. w.dbuf = NoByte
    BY <1>2, <1>9 DEF SendsData
  <2>2. DataPushes(w) = 0
    BY <2>1 DEF DataPushes
  <2>3. \A b \in 0 .. 19, d \in 0 .. 2 : b = d - 1 => b + 0 <= IF 0 + d = 0 THEN 0 ELSE (0 + d) - 1
    BY SMT
  <2> QED  BY <2>2, <2>3, <1>5, <1>6, <1>9, Zenon
<1> QED  BY <1>4, <1>7, <1>8, <1>9

LEMMA RoomStep ==
  ASSUME GAP >= 21, RoomInv, ~full(u), Clock
  PROVE  RoomInv'
<1>1. PICK obs \in Octet, ab \in BOOLEAN, d \in DutType : ClockStep(obs, ab, d)
  BY ClockIsStep DEF RoomInv
<1>2. /\ u \in UartType /\ u' \in UartType /\ dut.run \in BOOLEAN
      /\ Edge(u, dut.run, obs, ab, u') /\ dut' = d
  BY <1>1, CycleEdge DEF ClockStep, RoomInv
<1>3. IInv' /\ Paced'
  BY <1>1, CycleKeepsInv, PacedKept DEF ClockStep, RoomInv
<1>4. RecFits(u')
  BY <1>2, RecordFits DEF RoomInv
<1>5. /\ Backlog(u) \in 0 .. 21 /\ (Backlog(u) = 0 => Through(u))
      /\ Backlog(u') \in 0 .. 21
  BY <1>4, BacklogTyped DEF RoomInv
<1>6. in_time'
  <2>1. Cycle(obs, ab, d)
    BY <1>1 DEF ClockStep
  <2>2. Starting => Through(u)
    BY <1>5 DEF RoomInv
  <2> QED  BY <2>1, <2>2 DEF Cycle, RoomInv, Starting, trial_start
<1>7. u'.rst_q = dut.run
  BY <1>2 DEF Edge
<1>8. CASE dut.run
  <2>1. ~Starting'
    BY <1>7, <1>8 DEF Starting
  <2>2. ~d.run => d.gap = GAP
    BY <1>1, <1>8 DEF ClockStep, TrialStep, Releases, Continues, Halts, CountsDown
  <2>3. ~d.run => Backlog(u') <= d.gap
    <3>1. GAP \in Nat
      BY BoardRunAssumption
    <3>2. \A b \in 0 .. 21, g \in Nat : g >= 21 => b <= g
      BY SMT
    <3> QED  BY <3>1, <3>2, <2>2, <1>5, Zenon
  <2> QED  BY <2>1, <2>3, <1>2, <1>3, <1>4, <1>6 DEF RoomInv
<1>9. CASE ~dut.run
  <2>1. obs = NoByte /\ ~ab
    BY <1>1, <1>9 DEF ClockStep
  <2>2. Edge(u, FALSE, NoByte, FALSE, u')
    <3>1. dut.run = FALSE /\ ab = FALSE
      BY <2>1, <1>2, <1>9
    <3> QED  BY <3>1, <2>1, <1>2, Zenon
  <2>3. Backlog(u') <= IF Backlog(u) = 0 THEN 0 ELSE Backlog(u) - 1
    BY <2>2, <1>2, <1>4, BacklogFalls DEF RoomInv
  <2>4. dut.gap \in 1 .. GAP /\ Backlog(u) <= dut.gap /\ GAP \in Nat
    BY <1>9, BoardRunAssumption DEF RoomInv, Paced
  <2>5. \/ d.run /\ dut.gap <= 1
        \/ ~d.run /\ d.gap = dut.gap - 1 /\ dut.gap > 1
    BY <1>1, <1>9 DEF ClockStep, TrialStep, Releases, Continues, Halts, CountsDown
  <2>6. Backlog(u') <= dut.gap - 1 /\ Backlog(u') >= 0
    <3>1. \A b, c \in 0 .. 21, g \in Nat :
            (c <= IF b = 0 THEN 0 ELSE b - 1) /\ b <= g /\ g >= 1 => c <= g - 1 /\ c >= 0
      BY SMT
    <3>2. dut.gap \in Nat /\ dut.gap >= 1
      BY <2>4
    <3> QED  BY <3>1, <3>2, <2>3, <2>4, <1>5, Zenon
  <2>7. ~d.run => Backlog(u') <= d.gap
    BY <2>5, <2>6
  <2>8. d.run => Backlog(u') = 0
    <3>1. \A b \in 0 .. 21, g \in Nat : g >= 1 /\ g <= 1 /\ b <= g - 1 => b = 0
      BY SMT
    <3>2. dut.gap \in Nat /\ dut.gap >= 1
      BY <2>4
    <3> QED  BY <3>1, <3>2, <2>5, <2>6, <1>5, Zenon
  <2>9. Starting' => d.run
    BY <1>2 DEF Starting
  <2> QED  BY <2>7, <2>8, <2>9, <1>2, <1>3, <1>4, <1>6 DEF RoomInv
<1> QED  BY <1>2, <1>8, <1>9

LEMMA RoomInit == Init => RoomInv
<1> SUFFICES ASSUME Init PROVE RoomInv
  OBVIOUS
<1>1. IInv /\ Paced
  BY InitInv, PacedInit
<1>2. dut.run /\ u.rst_q /\ u.rec = <<>> /\ in_time
  BY DEF Init, Reset
<1>3. RecFits(u)
  BY <1>2 DEF RecFits, RecLen
<1> QED  BY <1>1, <1>2, <1>3 DEF RoomInv, Starting

LEMMA RoomKept ==
  ASSUME GAP >= 21
  PROVE  RoomInv /\ ~full(u) /\ [Next]_vars => RoomInv'
<1> SUFFICES ASSUME RoomInv, ~full(u), [Next]_vars PROVE RoomInv'
  OBVIOUS
<1>1. CASE Clock
  BY <1>1, RoomStep
<1>2. CASE Host \/ Timeout \/ UNCHANGED vars
  <2>1. /\ u' = u /\ dut'.run = dut.run /\ dut'.cnt = dut.cnt /\ dut'.gap = dut.gap
        /\ in_time' = in_time
    BY <1>2, HostLeavesBoard DEF RoomInv
  <2>2. IInv'
    BY NextKeepsInv DEF RoomInv
  <2> QED  BY <2>1, <2>2 DEF RoomInv, Paced, Starting
<1> QED  BY <1>1, <1>2 DEF Next

-----------------------------------------------------------------------------
(* The theorems.                                                             *)

\* A trial's record is neither dropped (fi_board_uart.v:92) nor are its bytes left for the
\* next record unless the FIFO has been full: a reset window of 21 cycles holds all that
\* the sequencer can have to send, a record of nine bytes with all of them escaped, half
\* an escape and a byte of the DUT.  Two scans of a chain are far longer.
THEOREM LateOnlyWhenFull ==
  ASSUME GAP >= 21
  PROVE  Spec /\ []~full(u) => []in_time
<1>1. Init => RoomInv
  BY RoomInit
<1>2. RoomInv /\ ~full(u) /\ [Next]_vars => RoomInv'
  BY RoomKept
<1>3. RoomInv => in_time
  BY DEF RoomInv
<1> QED  BY <1>1, <1>2, <1>3, PTL DEF Spec

\* The quiet time is long enough for every length of the trials and of the reset window,
\* with the FIFO, the line and the 0.15 s of the board (12.5 MHz, 115200 baud).
THEOREM BoardQuietFits ==
  ASSUME DEPTH = 1024, LINE = 1080, QUIET_MIN = 1875000
  PROVE  QuietFits
<1>1. TO_THR \in Nat /\ GAP \in Nat
  BY BoardRunAssumption
<1>2. MaxDelay = 1127523
  BY SMT DEF MaxDelay, Frames
<1>3. DEPTH * LINE = 1105920
  BY SMT
<1>4. QUIET = IF 2 * (TO_THR + GAP) + 1105920 < 1875000 THEN 1875000 ELSE 2 * (TO_THR + GAP) + 1105920
  BY <1>3 DEF QUIET
<1>5. 1127523 + TO_THR + GAP + 2 <= QUIET
  BY <1>1, <1>4, SMT
<1> QED  BY <1>2, <1>5, SMT DEF QuietFits

\* Record j of what the host receives in a campaign is trial before + j - 1's: no record
\* of an earlier campaign is still on its way when the host starts one, and none is
\* missing, as long as no trial has started before the one before was through, if the
\* host's quiet time covers a trial and a record's way through a full FIFO.
THEOREM RecordsStayInStep ==
  ASSUME QuietFits
  PROVE  Spec => [](in_time => RecordsInStep)
<1>1. InTimeInv => (in_time => RecordsInStep)
  <2> SUFFICES ASSUME BoardInv, pc = "wait"
               PROVE  \A j \in DOMAIN st.runs : st.runs[j].trial = IF j = 1 THEN first ELSE NextTrial(st.runs[j - 1].trial)
    BY DEF RecordsInStep, InTimeInv
  <2>1. PICK ph : Reading(ph) /\ WaitInv(ph)
    BY DEF BoardInv, StreamInv
  <2>2. 0 \in 0 .. InFlight(u) /\ st = ph[0] /\ ph[0] \in ParserType
    <3>1. InFlight(u) \in Nat
      BY FlightTyped DEF BoardInv, IInv, TypeOK
    <3> QED  BY <3>1, <2>1 DEF Reading
  <2>3. Numbered(first, st.runs)
    BY <2>1, <2>2 DEF WaitInv, RunsAre
  <2>4. DOMAIN st.runs = 1 .. Len(st.runs)
    BY <2>2 DEF ParserType
  <2> QED  BY <2>3, <2>4 DEF Numbered
<1>2. Spec => []InTimeInv
  BY InTimeAlways
<1> QED  BY <1>1, <1>2, PTL

\* The verdict on a trial is what the documentation makes of that trial's own output and
\* end, or LOST: no byte, flag or record of another trial reaches it, as long as no trial
\* has started before the one before was through.
THEOREM VerdictsAreTheTrials ==
  ASSUME QuietFits
  PROVE  Spec => [](in_time => VerdictIsTheTrials)
<1>1. InTimeInv => (in_time => VerdictIsTheTrials)
  BY DEF InTimeInv, BoardInv, Verdicts, VerdictIsTheTrials
<1>2. Spec => []InTimeInv
  BY InTimeAlways
<1> QED  BY <1>1, <1>2, PTL
=================================================================================
