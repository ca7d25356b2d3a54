------------------------------- MODULE BoardHost --------------------------------
(***************************************************************************)
(* fpga/host/board_campaign.py: the parser of the board's stream and the   *)
(* classification of a trial's output.                                     *)
(***************************************************************************)
EXTENDS Integers, Sequences, FiniteSets, BoardUart

CONSTANTS
  N_END,       \* --end-newlines
  CRASH        \* --crash: a set of texts

NL == 10

-----------------------------------------------------------------------------
(* Stream: rec is the record being read, runs the runs seen. *)

Fresh == [esc |-> FALSE, inrec |-> FALSE, rec |-> <<>>, runs |-> <<>>]

Unescaped(st, x) == IF ~st.esc THEN x ELSE IF x = DC THEN C0 ELSE DB

Recorded(st, r) ==
  IF Len(r) < RecLen - 1 THEN [st EXCEPT !.rec = r]
  ELSE [st EXCEPT !.inrec = FALSE, !.rec = <<>>,
                  !.runs = Append(@, [trial |-> r[2] * 256 + r[3], flags_prev |-> r[8], data |-> <<>>])]

Data(st, x) ==
  IF st.runs = <<>> THEN st ELSE [st EXCEPT !.runs[Len(st.runs)].data = Append(@, x)]

Byte(st, x) ==
  LET s == [st EXCEPT !.esc = FALSE]
  IN  CASE x = C0 -> [s EXCEPT !.inrec = TRUE, !.rec = <<>>]
        [] x = DB -> [s EXCEPT !.esc = TRUE]
        [] OTHER  -> IF st.inrec THEN Recorded(s, Append(st.rec, Unescaped(st, x)))
                     ELSE Data(s, Unescaped(st, x))

-----------------------------------------------------------------------------
(* Classification. *)

Newlines(bs) == {i \in DOMAIN bs : bs[i] = NL}

\* The bytes up to the n-th newline, and whether there are that many.
upto_marker(bs, n) ==
  LET ends == {i \in Newlines(bs) : Cardinality({j \in Newlines(bs) : j <= i}) = n}
  IN  IF ends = {} THEN <<bs, FALSE>> ELSE <<SubSeq(bs, 1, CHOOSE i \in ends : TRUE), TRUE>>

\* Where pat occurs; bytes.count takes the occurrences from the left, without overlaps.
Occurrences(bs, pat) == {i \in 1 .. Len(bs) - Len(pat) + 1 : SubSeq(bs, i, i + Len(pat) - 1) = pat}
CountsTwo(bs, pat) == \E i, j \in Occurrences(bs, pat) : i + Len(pat) <= j

classify(data, golden, aborted) ==
  LET dm    == upto_marker(data, N_END)
      gm    == upto_marker(golden, N_END)
      first == upto_marker(golden, 1)[1]
  IN  CASE aborted -> "DUE"
        [] ~aborted /\ ~dm[2] -> "DUE"
        [] ~aborted /\ dm[2] /\ ((\E c \in CRASH : Occurrences(dm[1], c) # {}) \/ CountsTwo(dm[1], first)) -> "DUE"
        [] OTHER -> IF dm[1] = gm[1] THEN "Masked" ELSE "SDC"

\* The verdict on the j-th trial: run is its own record's run, nxt the one after it.
Aborted(nxt) == nxt.flags_prev % 2 = 1
Lossy_Mutant(run, nxt) == nxt.flags_prev >= 2 /\ run.flags_prev >= 2
Lossy(run, nxt) == nxt.flags_prev >= 2 \/ run.flags_prev >= 2
VerdictOn(run, nxt, golden) ==
  IF Lossy(run, nxt) THEN "LOST" ELSE classify(run.data, golden, Aborted(nxt))
=================================================================================
