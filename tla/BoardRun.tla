-------------------------------- MODULE BoardRun --------------------------------
(***************************************************************************)
(* Campaigns on a board: board_campaign.py's run mode, the stream from     *)
(* fi_board_uart.v, and the wrapper's trials.                              *)
(*                                                                         *)
(* A Clock step is one cycle of the board.  The wrapper is reduced to the  *)
(* DUT's reset and the trial window; BatchRun has its detail.  The DUT     *)
(* prints one of SCRIPTS in a trial, a byte at any cycle, as far as it     *)
(* gets; outside a campaign's trials it prints the golden output.  The     *)
(* host's timers count board cycles.  Of the stream's runs only those from *)
(* `before' on are kept.                                                   *)
(***************************************************************************)
EXTENDS BoardHost

CONSTANTS
  TO_THR,      \* cycles of a trial
  GAP,         \* cycles of a reset window, scrub included: 2 * scan_len
  QUIET_MIN,   \* cycles in 0.15 s
  N,           \* trials of a campaign
  CAMPAIGNS,   \* campaigns of the session
  SCRIPTS,     \* what the DUT may print in a trial
  BOOT,        \* cycles of a trial in which it prints nothing
  GOLDENS      \* the golden outputs the host may be given

ASSUME BoardRunAssumption ==
  /\ TO_THR \in Nat /\ TO_THR > 0 /\ GAP \in Nat /\ GAP > 0 /\ QUIET_MIN \in Nat /\ N \in Nat /\ N > 0 /\ CAMPAIGNS \in Nat /\ BOOT \in Nat
  /\ SCRIPTS \subseteq Seq(0 .. 255) /\ GOLDENS \subseteq Seq(0 .. 255) /\ CRASH \subseteq Seq(0 .. 255)

VARIABLES
  u,           \* fi_board_uart
  dut,         \* [run, cnt, gap, to, next, now, script]: the wrapper's trial
  pc,          \* where the host is
  st,          \* its stream parser
  golden, q,   \* the golden output, the cycles since the last record
  reached,     \* whether its JTAG writes reach the wrapper
  session,     \* campaigns started
  verdict,     \* the verdicts on the campaign's trials
  log, first,  \* history: the output and the end of each trial, the number of the first;
  in_time      \* no trial has started before the UART was through with the one before

board == <<u, dut>>
history == <<log, first, in_time>>
vars == <<board, pc, st, golden, q, reached, session, verdict, history>>

\* Two trial lengths and the time the FIFO takes to drain, or 0.15 s.
QUIET_Mutant == (TO_THR + GAP) \div 2
QUIET ==
  LET quiet == 2 * (TO_THR + GAP) + DEPTH * LINE
  IN  IF quiet < QUIET_MIN THEN QUIET_MIN ELSE quiet

NoLog == [j \in 1 .. N |-> [out |-> <<>>, abort |-> FALSE]]

\* The DUT has run for long, or an earlier session left the wrapper restarting it.
Init ==
  /\ u = [Reset(Trial0) EXCEPT !.rst_q = TRUE]
  /\ dut \in {[run |-> TRUE, cnt |-> TO_THR, gap |-> 0, to |-> to, next |-> 0, now |-> 0, script |-> <<>>] :
                to \in BOOLEAN}
  /\ pc = "args" /\ st = Fresh /\ golden \in GOLDENS /\ q = 0 /\ reached \in BOOLEAN
  /\ session = 0 /\ verdict = <<>> /\ log = NoLog /\ first = 0 /\ in_time = TRUE

-----------------------------------------------------------------------------
(* The board. *)

Stops(abort) == dut.to /\ (dut.cnt >= TO_THR \/ abort)

\* The trial's cycle counter runs on when nothing stops it; it is capped at TO_THR.
Running(abort, printed) ==
  IF Stops(abort) THEN [dut EXCEPT !.run = FALSE, !.gap = GAP, !.script = <<>>]
  ELSE [dut EXCEPT !.cnt = IF @ < TO_THR THEN @ + 1 ELSE @, !.script = IF printed THEN Tail(@) ELSE @]

Release(script) ==
  LET j == IF dut.next \in 1 .. N THEN dut.next ELSE 0
  IN  [dut EXCEPT !.run = TRUE, !.cnt = 0, !.gap = 0, !.now = j, !.script = IF j = 0 THEN golden ELSE script,
                  !.next = IF @ \in 1 .. N THEN @ + 1 ELSE 0]

\* trial_run_o: the DUT may complete a byte, but not in its first cycles.
Prints == dut.run /\ dut.cnt > BOOT /\ dut.script # <<>>

Waited == IF pc = "quiet" /\ q < QUIET THEN q + 1 ELSE q

\* Runs before `before' are not kept; a record among them restarts the quiet time.
Received(x) ==
  LET s == Byte(st, x)
  IN  IF pc \in {"load", "wait"} THEN st' = s /\ q' = 0
      ELSE st' = [s EXCEPT !.runs = <<>>] /\ q' = IF s.runs # <<>> THEN 0 ELSE Waited

\* Nothing of a record or of the DUT's bytes is still on its way to the FIFO.
Through(v) == v.rec = <<>> /\ v.esc = NoByte /\ v.dbuf = NoByte

Cycle(obs, abort, d) ==
  /\ \E count \in COUNTS : u' = Clocked(u, dut.run, obs, abort, count)
  /\ dut' = d
  /\ IF Delivers(u) THEN Received(u.frame)
     ELSE st' = st /\ q' = Waited
  /\ log' = IF dut.now = 0 THEN log
            ELSE [log EXCEPT ![dut.now].out = IF obs = NoByte THEN @ ELSE Append(@, obs),
                             ![dut.now].abort = @ \/ abort]
  /\ in_time' = (in_time /\ (trial_start(u, dut.run) => Through(u)))
  /\ UNCHANGED <<pc, golden, reached, session, verdict, first>>

\* The session is over when the host is; of the campaign's records it looks at N + 1.
Live == pc \notin {"args", "done", "exit", "gave up"} /\ (pc = "wait" => Len(st.runs) <= N)

Output == Live /\ Prints /\ Cycle(Head(dut.script), FALSE, Running(FALSE, TRUE))
Idle  == Live /\ dut.run /\ (Prints => dut.now # 0) /\ Cycle(NoByte, FALSE, Running(FALSE, FALSE))
Abort == Live /\ dut.run /\ dut.cnt > 0 /\ dut.to /\ dut.now # 0 /\ Cycle(NoByte, TRUE, Running(TRUE, FALSE))
Window == Live /\ ~dut.run /\ dut.gap > 1 /\ Cycle(NoByte, FALSE, [dut EXCEPT !.gap = @ - 1])
StartTrial ==
  /\ Live /\ ~dut.run /\ dut.gap <= 1
  /\ \E s \in SCRIPTS : Cycle(NoByte, FALSE, Release(s))

Clock == Output \/ Idle \/ Abort \/ Window \/ StartTrial

-----------------------------------------------------------------------------
(* The host. *)

Go(from, to) == pc = from /\ pc' = to
Stay == UNCHANGED <<board, st, golden, reached, verdict, history>>

Args == Go("args", "ocd") /\ upto_marker(golden, N_END)[2] /\ Stay /\ UNCHANGED <<q, session>>
BadArgs == Go("args", "exit") /\ ~upto_marker(golden, N_END)[2] /\ Stay /\ UNCHANGED <<q, session>>

\* OpenOCD answers on its Tcl port and knows fi_campaign, or it has exited.
Connect == Go("ocd", "pause") /\ Stay /\ UNCHANGED <<q, session>>
OcdExits == Go("ocd", "exit") /\ Stay /\ UNCHANGED <<q, session>>

\* CFG_TO_THR = 0.
Paused_Mutant == [dut EXCEPT !.next = 0, !.now = 0]
Paused == [dut EXCEPT !.to = @ /\ ~reached, !.next = 0, !.now = 0]
Pause ==
  /\ Go("pause", "quiet")
  /\ dut' = Paused
  /\ q' = 0 /\ verdict' = <<>> /\ log' = NoLog
  /\ UNCHANGED <<u, st, golden, reached, session, first, in_time>>

\* No record for two trial lengths and the time the FIFO takes to drain.
Quiet == Go("quiet", "load") /\ q >= QUIET /\ Stay /\ UNCHANGED <<q, session>>

\* Ten seconds have passed, and there is a record in every quiet time.
GiveUp == Go("quiet", "gave up") /\ dut.to /\ Stay /\ UNCHANGED <<q, session>>

\* fi_campaign arms the loop with its last write; trial 1 starts at the next reset.
FiCampaign ==
  /\ Go("load", "wait")
  /\ dut' = IF reached THEN [dut EXCEPT !.to = TRUE, !.next = 1] ELSE dut
  /\ first' = u.trial
  /\ session' = session + 1
  /\ UNCHANGED <<u, st, golden, q, reached, verdict, log, in_time>>

FiError == Go("load", "exit") /\ Stay /\ UNCHANGED <<q, session>>

Collect ==
  /\ pc = "wait" /\ pc' = IF session < CAMPAIGNS THEN "pause" ELSE "done"
  /\ verdict' = [j \in {i \in 1 .. N : i + 1 <= Len(st.runs)} |-> VerdictOn(st.runs[j], st.runs[j + 1], golden)]
  /\ st' = [st EXCEPT !.runs = <<>>]
  /\ UNCHANGED <<board, golden, q, reached, session, history>>

Done == Len(st.runs) >= N + 1 /\ Collect
Timeout == Len(st.runs) < N + 1 /\ Collect

Host ==
  \/ Args \/ BadArgs \/ Connect \/ OcdExits \/ Pause \/ Quiet \/ GiveUp \/ FiCampaign \/ FiError \/ Done

Next == Clock \/ Host \/ Timeout

Spec == Init /\ [][Next]_vars

\* The clock runs and so does the host; nothing makes it run into its timeout.
FairSpec == Spec /\ WF_vars(Clock) /\ WF_vars(Host)

-----------------------------------------------------------------------------
(* Properties. *)

\* "Masked = the output up to the marker equals the golden's; SDC = the marker arrived,
\* the output before it differs; DUE = no marker, or [aborted], or a crash text or [the
\* golden's first line printed again] before the marker".
Reference(ref, out, abort) ==
  LET nl(s)   == {i \in DOMAIN s : s[i] = NL}
      head(s) == {k \in DOMAIN s : Cardinality({i \in nl(s) : i < k}) < N_END}
      at(p, s) == {k \in head(s) : \A i \in DOMAIN p : k + i - 1 \in head(s) /\ s[k + i - 1] = p[i]}
      line1   == [i \in {k \in DOMAIN ref : \A x \in nl(ref) : k <= x} |-> ref[i]]
  IN  IF \/ abort \/ Cardinality(nl(out)) < N_END
         \/ (\E c \in CRASH : at(c, out) # {}) \/ Cardinality(at(line1, out)) > 1
      THEN "DUE"
      ELSE IF [k \in head(out) |-> out[k]] = [k \in head(ref) |-> ref[k]] THEN "Masked" ELSE "SDC"

\* A trial that is not LOST gets the verdict on what it printed itself: no byte and no
\* flag of another trial, and none of its own missing.
VerdictIsTheTrials ==
  \A j \in DOMAIN verdict : verdict[j] \in {"LOST", Reference(golden, log[j].out, log[j].abort)}

\* "trial j of the campaign is run before+j-1 of the stream": no stale record is ahead
\* of the campaign's, and none of its own is missing.
RecordsInStep ==
  pc = "wait" => \A j \in DOMAIN st.runs : st.runs[j].trial = IF j = 1 THEN first ELSE NextTrial(st.runs[j - 1].trial)

\* A push never meets a full FIFO, the push in flight when full rose included.
FifoHolds == used(u) <= DEPTH

\* A host whose writes reach the wrapper comes to the end of its campaigns (or of OpenOCD):
\* the stream falls quiet and every trial's record arrives, without a timeout.
SessionEnds == reached => <>(pc \in {"done", "exit"})
=================================================================================
