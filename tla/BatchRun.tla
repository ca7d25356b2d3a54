------------------------------- MODULE BatchRun -------------------------------
(***************************************************************************)
(* Campaigns in table mode, from the host's first register write to the    *)
(* end of the batch.  The host is fi_campaign of                           *)
(* host/inject_and_run_dmi.tcl: it loads the table, then writes the        *)
(* registers in its fixed order, each write landing on any later edge.     *)
(*                                                                         *)
(* After a campaign is over the host may run another.  PAUSE says whether  *)
(* it first stops the restarts with CFG_TO_THR = 0 and lets the reset      *)
(* window under way pass, as fpga/host/board_campaign.py does.             *)
(***************************************************************************)
EXTENDS Executor

CONSTANTS
  FI_W_IDX,
  Campaigns,    \* the campaigns: sequences of trials
  TO_THR,       \* the timeout of every trial
  BATCHES,      \* how many campaigns the host runs
  PAUSE,
  ENDS          \* TRUE: the host may end a trial early with CFG0.END

Host == INSTANCE HostCampaign

ASSUME BatchAssumption ==
  BATCHES \in Nat /\ PAUSE \in BOOLEAN /\ ENDS \in BOOLEAN

\* The campaigns are the ones fi_campaign does not refuse.
ASSUME CampaignsAssumption == \A c \in Campaigns : Host!Accepts(c, TO_THR)

VARIABLES
  pc,           \* the host's next write
  camp,         \* the campaign it is running
  batch,        \* how many it has started
  armed         \* what the strobe has armed: the injections to come

hostVars == <<pc, camp, batch, armed>>
allVars  == <<vars, hostVars>>

\* The arming edge to the frozen chain: fire, scan_start, s1, s2, arm, and the
\* lead cycle in which the DUT still runs.
LATENCY == 5

\* The injections of a campaign, on the scale of functional edges.
Plan(c) ==
  LET w == Host!Wanted(c)
  IN  [k \in DOMAIN c |-> [cycle |-> w[k].cycle + LATENCY, cells |-> w[k].cells]]
AllPlans == {Plan(c) : c \in Campaigns}

-----------------------------------------------------------------------------
Begin(c) ==
  /\ pc = "ready" /\ batch < BATCHES
  /\ batch > 0 => table_exhausted_o
  /\ batch' = batch + 1 /\ camp' = c
  /\ pc' = IF PAUSE /\ batch > 0 THEN "pause" ELSE "load"
  /\ UNCHANGED <<cfgRegs, armed>>

Pause ==
  /\ pc = "pause"
  /\ cfg_to_thr' = 0
  /\ pc' = "settle"
  /\ UNCHANGED <<cfg_auto, cfg_start, cfg_scan_len, cfg_fi_index, cfg_end, cfg_fi_cycle,
                 cfg_fi_cycle_wr, cfg_tbl_len, tbl, camp, batch, armed>>

\* The stream of restarts has dried up.
Settled ==
  /\ pc = "settle" /\ ~stopped
  /\ pc' = "load"
  /\ UNCHANGED <<cfgRegs, camp, batch, armed>>

\* The table writes.  The executor does not look at the table until the batch
\* is armed, so they count as one step.
Load ==
  /\ pc = "load"
  /\ LET e == Host!entries(camp)
     IN  tbl' = [w \in 0 .. TBL_WORDS - 1 |-> IF w < Len(e) THEN e[w + 1] ELSE tbl[w]]
  /\ pc' = "cfg0"
  /\ UNCHANGED <<cfg_auto, cfg_start, cfg_scan_len, cfg_fi_index, cfg_end, cfg_fi_cycle,
                 cfg_fi_cycle_wr, cfg_to_thr, cfg_tbl_len, camp, batch, armed>>

\* CFG0, CFG_SCAN_LEN and CFG_FI_INDEX.
Configure ==
  /\ pc = "cfg0"
  /\ cfg_auto' = TRUE /\ cfg_end' = FALSE
  /\ cfg_scan_len' = FI_SCAN_LEN
  /\ cfg_fi_index' = 0
  /\ pc' = "tbl_len"
  /\ UNCHANGED <<cfg_start, cfg_fi_cycle, cfg_fi_cycle_wr, cfg_to_thr, cfg_tbl_len, tbl,
                 camp, batch, armed>>

TblLen ==
  /\ pc = "tbl_len"
  /\ cfg_tbl_len' = Len(Host!entries(camp))
  /\ pc' = "fi_cycle"
  /\ UNCHANGED <<cfg_auto, cfg_start, cfg_scan_len, cfg_fi_index, cfg_end, cfg_fi_cycle,
                 cfg_fi_cycle_wr, cfg_to_thr, tbl, camp, batch, armed>>

\* The write that starts the batch; its strobe is up for one cycle.
FiCycle ==
  /\ pc = "fi_cycle"
  /\ cfg_fi_cycle' = Host!base(camp) /\ cfg_fi_cycle_wr' = TRUE
  /\ pc' = "to_thr"
  /\ UNCHANGED <<cfg_auto, cfg_start, cfg_scan_len, cfg_fi_index, cfg_end, cfg_to_thr,
                 cfg_tbl_len, tbl, camp, batch, armed>>

ToThr ==
  /\ pc = "to_thr"
  /\ cfg_to_thr' = TO_THR
  /\ pc' = "ready"
  /\ UNCHANGED <<cfg_auto, cfg_start, cfg_scan_len, cfg_fi_index, cfg_end, cfg_fi_cycle,
                 cfg_fi_cycle_wr, cfg_tbl_len, tbl, camp, batch, armed>>

\* CFG0.END = 1: the running trial ends on its rising edge, wherever it is.
EndTrial ==
  /\ ENDS /\ pc = "ready" /\ batch > 0 /\ ~cfg_end
  /\ cfg_end' = TRUE
  /\ UNCHANGED <<cfg_auto, cfg_start, cfg_scan_len, cfg_fi_index, cfg_fi_cycle,
                 cfg_fi_cycle_wr, cfg_to_thr, cfg_tbl_len, tbl, pc, camp, batch, armed>>

\* No write lands on this edge; the strobe falls, and the batch is armed.
Quiet ==
  /\ cfg_fi_cycle_wr' = FALSE
  /\ armed' = IF cfg_fi_cycle_wr THEN Plan(camp) ELSE armed
  /\ UNCHANGED <<cfg_auto, cfg_start, cfg_scan_len, cfg_fi_index, cfg_end, cfg_fi_cycle,
                 cfg_to_thr, cfg_tbl_len, tbl, pc, camp, batch>>

\* Two writes are a JTAG transaction apart.
HostWrite ==
  /\ ~cfg_fi_cycle_wr
  /\ \/ \E c \in Campaigns : Begin(c)
     \/ Pause \/ Settled \/ Load \/ Configure \/ TblLen \/ FiCycle \/ ToThr \/ EndTrial

BatchInit == Init /\ pc = "ready" /\ camp = <<>> /\ batch = 0 /\ armed = <<>>

Tick == Edge /\ (Quiet \/ HostWrite)

Spec == BatchInit /\ [][Tick]_allVars

\* The clock runs.
FairSpec == Spec /\ WF_allVars(Tick)

-----------------------------------------------------------------------------
(* Properties. *)

\* The whole machine does what a campaign promises: the injections of the
\* plan, in order, at their cycles, in their cells, none lost, none twice,
\* and "exhausted" only after the last.
Abstract == INSTANCE Campaign WITH
              Plans <- AllPlans,
              plan  <- armed,
              log   <- inj,
              over  <- table_exhausted_o
RunsThePlan == Abstract!Spec

\* When the host cuts trials short, injections are missed but none is made up:
\* what is injected is still the plan's, in order and at its cycles.
OnlyThePlan ==
  \E at \in [DOMAIN inj -> DOMAIN armed] :
    /\ \A i, j \in DOMAIN inj : i < j => at[i] < at[j]
    /\ \A k \in DOMAIN inj : inj[k] = armed[at[k]]

\* The restore never meets the DUT: while a memory is being restored its
\* clock is frozen or the DUT is in reset.  fi_bad, and with it the halt of
\* the campaign, is then never raised.
MemoryOffLimits == (mem_req => ~run_o \/ resolver_rst) /\ ~fi_bad

\* A trial starts as at power-on: the scrub's zeros are still in the chain, no
\* functional edge having come between its last shift and the reset, and the
\* memory is back at its power-on content.
CleanStart ==
  [][resolver_rst /\ ~resolver_rst' => zeroed' /\ ram' = [x \in Mem!Addr |-> FI_FILL_WORD]]_allVars

\* Test mode never meets the DUT's reset: a pass is never cut by a reset.
NoTestmodeInReset == resolver_rst => ~testmode_o /\ ~scan_en_o

\* The memory's half of CleanStart when the DUT may write even in reset: a word
\* that is not at its power-on content when a trial starts was written after the
\* restore, and is in the undo log for the next one.
MemoryAccounted ==
  [][resolver_rst /\ ~resolver_rst' =>
       \A x \in Mem!Addr :
         ram'[x] = FI_FILL_WORD \/ \E i \in 0 .. fi_log_n' - 1 : fi_log_a'[i] = x]_allVars

\* A halt is final, whatever the host writes: the DUT stays in reset and nothing
\* is injected any more.
HaltIsFinal == [][mem_halt => mem_halt' /\ resolver_rst' /\ Len(inj') <= Len(inj)]_allVars

\* A loaded campaign is carried through to its end.
CampaignEnds ==
  pc = "ready" /\ batch > 0 /\ ~cfg_fi_cycle_wr ~> table_exhausted_o
=============================================================================
