# FIawase: TLA+ models, checks and proofs

FIawase injects bit flips into a running SoC through the SoC's own scan chain,
and runs whole campaigns of such trials without the host stepping in.  This
directory holds TLA+ models of the wrapper that does it, of the clock-domain
crossing and JTAG path by which the host drives it, of the host's campaign
scripts and the stream that brings the results back from a board, and of the
tools that turn the netlist into one an FPGA can run; TLC configurations that check them on small instances; and TLAPS proofs
of the main results for every value of the parameters.

Every definition is translated from the Verilog, Tcl or Python source;
`PROJECT.json` maps each one to its lines.  Names are the source's names.

## 1. Inventory

| part | source | state | operations | hard because |
|---|---|---|---|---|
| Scan Controller | `rtl/fi_scan_ctrl.v` | pass counters, test-mode window, two-deep entry slide, error flags | arm, lead, shift, last shift, scrub, tail | every target has to land on one exact shift edge, back to back targets included; starts and scrubs compete |
| Freeze gate | `syn/fi_clk_gate.v`, `rtl/fi_wrapper_top.v` | registered gate | engage, release | off-chain blocks must miss exactly the shift edges |
| Table Controller | `rtl/fi_table_ctrl.v` | table pointer, lookahead FIFO, pattern state, exhausted/malformed | prefetch, pop, EOP, soft reset, new batch | push and pop on one edge, resets and re-arming at any time |
| Time Controller and Resolver | `rtl/fi_time_ctrl.v` | cycle counter, FI_Cycle, seven-phase reset window | count, fire, stop (timeout, END, memory), scrub, reset, restore, halt, release | several events on one edge; the order of reset, scrub and restore to the edge |
| Executor, wrapper | `rtl/fi_executor*.v`, `rtl/fi_wrapper_top.v` | start pipeline, mode bits, run gate | composition of the above | everything interacts on the same clock |
| Memory restore | `rtl/fi_sram_restore.vh` | RAM, undo log, fill counter, flags | DUT write, undo, fill | log at its limit, restore cut short, writes during a restore |
| Transporter | `rtl/fi_transporter.v`, `rtl/fi_table.v` | TAP, DTM, two crossings, register bank, mode | scans, requests, answers, cutover, TRST | two unrelated clocks, asynchronous reset of one side, late answers |
| Host campaign script | `host/inject_and_run_dmi.tcl`, `host/tapename.tcl` | the register-write sequence | normalise, check, load, configure, arm | ordering of trials and entries, limits of what is accepted |
| Board UART stream | `fpga/rtl/fi_board_uart.v` | record, escape and data registers, FIFO, flags | start a trial's record, send, escape, lose | a FIFO that fills up, two sources of bytes, flags that belong to the trial before |
| Board campaign host | `fpga/host/board_campaign.py` | stream parser, the runs seen | pause, wait for quiet, arm, collect, classify | records of old restarts, lost bytes, writes that do not arrive |
| FPGA netlist tools | `fpga/tools/vnet.py`, `clocktrace.py`, `fi_fpga_ce.py`, `cells.py` | union-find of net bits, clock of every net, edits per instance | parse, flatten, trace, edit nets, children, sinks, memories, observe, write | gates in series and across the hierarchy, polarity of clock and latch, several edits of one instance |
| ROM images | `fpga/tools/mkrom.py` | image, address | set the address, write a byte, write the words | addresses in the middle of a word and past the end |
| Slow clock, UART observer, FPGA memory, synthesis flow, simulation bridge | `rtl/fi_slow_clk.v`, `rtl/fi_uart_obs.v`, `fpga/rtl/`, `syn/`, `sim/` | see `PROJECT.json` | | |

How they interact: the host writes registers over JTAG (Transporter); the
register strobes and the table reach the Executor; there the Table Controller
feeds entries to the Scan Controller, the Time Controller starts passes and
scrubs, resets the DUT and asks the memories to restore themselves; `done` of a
pass closes the pattern in the Table Controller; the end of the reset window
advances FI_Cycle by the offset of the pattern that ran.  All of the Executor
runs on one free-running clock (AON), the JTAG side on TCK.  On a board, the
bytes the DUT prints and one record per trial leave over a UART, and the host
counts records to know whose bytes it reads.  Before that, the netlist tools
have replaced every gated clock by a clock enable.

What makes each part correct, in a sentence: a pass restores the chain except
for the pattern's cells; the lookahead is always the next words of one pattern
and never dry in a pass; a memory that says it is restored is; a trial starts
clean or not at all; a campaign performs the host's plan exactly, and ends; a
request is carried out once and answered with its own answer; a verdict on a
trial is the one on that trial's own output, or says that bytes were lost; the
converted netlist computes what the gated one does.

## 2. Modules

| module | models | remarks |
|---|---|---|
| `ScanCtrl` | `fi_scan_ctrl.v` | registers and one action per branch of the clocked block |
| `ScanPass` | Scan Controller + chain + freeze gate + any entry stream | `FlipSpec` is its abstract specification |
| `FlipSpec` | what a pass promises: an atomic flip | abstract |
| `TableCtrl`, `TablePrefetch` | `fi_table_ctrl.v`, and it between a host and the Scan Controller's contract | |
| `TimeCtrl` | `fi_time_ctrl.v` | counters wrap at `WORD` |
| `SramRestore`, `MemTrials` | `fi_sram_restore.vh`, and one memory with any DUT and any requests | |
| `Executor` | `fi_executor_core.v`, `fi_executor.v`, the freeze and reset terms of `fi_wrapper_top.v` | composes the four controllers and a memory |
| `HostCampaign` | `fi_campaign`, `fi_pattern`, `fi_entry` as operators | |
| `BatchRun` | Executor + host running campaigns in table mode | `Campaign` is its abstract specification |
| `Campaign` | what a campaign promises | abstract |
| `StaticFlip` | Executor in static mode | |
| `Cdc2Phase`, `CdcBridge` | `fi_cdc_2phase_v6`, and it between any source and any destination | `HandOff` is its abstract specification |
| `HandOff` | a one-place hand-off | abstract |
| `JtagTap`, `JtagDtm`, `DmiRegs` | `fi_jtag_tap`, `fi_jtag_dtm_v6`, `fi_dmi_regs_v6` | |
| `Transporter` | all of the above, two crossings, mode cutover, table host port | |
| `BoardUart` | `fi_board_uart.v` | a record `u` of its registers; `Clocked` is the next one |
| `BoardHost` | the stream parser and the classification of `board_campaign.py` | operators |
| `BoardRun` | `board_campaign.py`'s run mode, the UART, and the wrapper's trials | `BatchRun` has the wrapper's detail |
| `Vnet` | `vnet.py`: statements, bits of an expression, the hierarchy flattened by union-find | TLC only (recursive) |
| `Cells`, `ClockTrace` | `cells.py`, `clocktrace.py` | |
| `FpgaCe` | `fi_fpga_ce.py`: the context of each module, the edits, the netlist written | |
| `CeFlow` | a run of the tool, stage by stage with every exit, and both netlists simulated side by side | |
| `NetSim` | external: the cells of the library as a two-valued simulation | what a netlist means |
| `NetRef` | reference definitions: connectivity as reachability, what stays the same | independent of `Vnet` |
| `MkRom`, `FpgaPrep` | `mkrom.py`, and it beside `CeFlow` | |
| `MC*` | the inputs of the runs | |
| `*Proofs` | theorems | |

State and actions.  A clocked block becomes an action `Edge` that conjoins its
independent registers, with one disjunct per branch of its state machine;
non-blocking assignment is the prime.  A component's wires are operators of its
state and inputs, so a composition is an `INSTANCE ... WITH` that names which
operator of one component drives which input of another.  In the Executor one
step is one rising edge of `aon_hfclk_i`, seen by all blocks at once.  In
`CdcBridge` and `Transporter` a step is an edge of one clock, of the other, of
both at once, or an asynchronous reset.  (A synchroniser flop that goes
metastable resolves to the old or the new value; the new value is the edge
falling after the change, the old one the edge falling together with it.)

The netlist tools are run as stages: an action per phase of `main`, which
plans edits or exits, and the last of them writes.  After `written` the state
holds two machines, the netlist read and the netlist written, and `Tick` lets
inputs and the clock move as they like.  A netlist's text is a sequence of
statements; a cell's name is its function with its drive strength, since the
tools look at the two apart.

What the abstraction leaves out: a memory is a few words and a byte-enabled
write is the word it leaves; a scan carries a word instead of bits, but takes
as many TCK edges (`DR_BITS`); an `FI_Index` is a number below the chain length
or past it; the DUT is any sequence of chain states and of memory writes.  On
the board a record is the code's nine bytes, with any of a set of cycle counts
(no verdict uses it, but its bytes are on the line and may be escaped); the
trial numbers of the run are a short range that wraps, from C0BF to C0C2, so that one or
both of a number's bytes must be escaped; a byte takes `LINE` cycles on the
line instead of ten bits; the DUT prints nothing in the first `BOOT` cycles of a
trial.  In `BoardRun` arming resets the
DUT at once: the wrapper's cycle counter runs on while the campaign is paused.

History variables.  `ScanPass`: `orig`, `flips` (the chain before the pass, the
cells hit).  `Executor`: `ftime`, `nshift`, `flips`, `inj`, `passes`, `zeroed`
(functional time and what was injected when).  `BatchRun`: `armed` (the plan the
strobe armed).  `Transporter`: `last`, `ref` (the request accepted last, the
registers the accepted requests should have left).  `BoardRun`: `log`, `first`,
`in_time` (what each trial printed, the number its campaign started with, that
no trial has started before the UART was through with the one before).  None of them is read by a
modelled register.

## 3. Runs

All runs use two workers and end within about three minutes.

| run | question | bounds |
|---|---|---|
| `scan_pass` | does a pass restore the chain, hit exactly the pattern's cells, freeze exactly the shift edges and look atomic from outside (`AtomicInjection`, refinement of `FlipSpec`)? | 3 cells, all chain contents, all legal patterns, any start/ready/scrub/reset timing |
| `table_prefetch` | is the lookahead a window on the table, never dry in a pass, the offset the pattern's own, on the release edge too, and does a batch that has ended stay ended? | 4 words, all EOP placements, all lengths 0..5, lookahead 3, any pop/reset/batch timing |
| `mem_trials` | does `done` mean restored, is a dropped write reported, does a restore end? | UNDO memory, 2 words of 1 bit, log of 3, every content |
| `batch_run` | does the whole machine carry out the host's plan (`RunsThePlan`, refinement of `Campaign`), start every trial clean, keep restore and DUT apart, and end? | two campaigns in a row out of ten, FILL memory of 2 words the DUT writes all the time, `TM_LEAD` 1, `TM_TAIL_CYCLES` 2 |
| `batch_end` | and when the host ends trials at any moment, the slow clock paces the reset window with any timing, and the DUT writes its memory even in reset? | either of two campaigns, UNDO memory with a log of 1 |
| `static_flip` | does a manual pass flip the one cell the register named when it was armed, and end? | 2 passes, 4 indices, register writes 4 edges apart |
| `cdc_bridge` | is an item handed over exactly once (`ExactlyOnce`, refinement of `HandOff`), and delivered? | 4 data values, all interleavings, resets at any time |
| `trans_mode` | is each request carried out once and answered with its own answer, through mode changes and TRST? | table of 2 words, 5 requests, at most one TCK edge between two AON edges, 12-bit scans |
| `trans_free` | without any bound on the ratio of the clocks: does a table read settle before the next request, and does no transaction stall? | 1-bit scans, the shortest possible |
| `board_run` | are the host's records its campaign's own, is every verdict the one on the trial's own bytes or LOST, does the FIFO hold, does the session end? | FIFO of 10, two cycles a byte on the line, nine-byte records of 11 or 12 bytes with their escapes, 2 trials of 25 cycles in which the DUT prints in the last five, a reset window of 26, 4 outputs, memories that end a trial at any cycle, a wrapper left restarting, writes that never arrive |
| `fpga_prep` | is the netlist read as connected as its text says, are clocks traced to what the gates really do, does the converted netlist hold the same contents for ever, with every enable and restore wire driven once (but for the two outputs of section 6) and nothing else changed; is a ROM image the program? | 79 netlists: buffers, inverters and each kind of gate that is converted followed by each, rising and falling root, flat and across two levels of hierarchy, a gated clock that leaves a module twice, OR2 and NOR2 behind a latch, which are no clock gates to the tool, and every input it refuses; images of 8 bytes, up to 5 tokens |
| `ce_inverting` | the finding of section 6 | one netlist |

Why the bounds are enough.  A pass depends on the chain length only through
first, middle and last step: three cells have each, and the proofs cover every
length.  A lookahead of 3 over 4 words has empty, partly full, full, and
sliding windows.  Trial lengths are a few cycles longer than the start
pipeline, so an injection falls before, into and after the stop.  `WORD` = 16
exceeds every cycle of those trials; the sum of FI_Cycle and offset stays below
it, as `fi_campaign`'s check of the timeout guarantees.  `RATIO` and `DR_BITS`
go together: the answer to the FI_MODE write must be drained before a scan that
starts after the cutover can end.  The real scan has 41 bits; 12 is already
enough when AON is as fast as TCK, so the 41 of the code leave room for an AON
clock several times slower.

On the board the FIFO is one byte longer than a record, so that a record, its
escapes and a trial's output fill it and bytes are lost in any trial, at its end
included, and the output may contain both bytes that are escaped.  A trial is as
long as it has to be for the record to leave the sequencer before the DUT prints
(`BOOT`); in a shorter one all but its first byte would be lost.  `QUIET_MIN` stands for the host's
0.15 s and is shorter than the other quiet time, which is the one that matters
for long trials.  `GAP` is 26: the sequencer finishes a record in the reset
window, and no record is dropped in the run (24 is enough too, 21 is not; section
6 says what happens then, and section 4 for which installations it does not).
For the netlist
tools two gates in series make every combination of polarity and kind meet, and
a third repeats the second's case; three registers, one on each clock, are as
many as the contents that must agree.  Gated clocks are scalar nets and
netlists uniquified, as the synthesis flow writes them (`syn/README.md:59`).

The instruction register is DMI throughout the Transporter runs, the only
instruction the host's procedures use besides IDCODE; DTMCS and its dmireset
are modelled and can be added to `Instructions`.

Environment.  An UNDO memory is written by the DUT only after an injection and
a FILL memory always (`docs/DESIGN.md` section 5.1); a DUT in reset does not
write, except in `batch_end`, where it does (`DUT_UNRULY`).  Host writes are a
JTAG transaction apart, never two on one edge.  Between two campaigns the host
stops the restarts with CFG_TO_THR = 0 and waits (`PAUSE`), as
`board_campaign.py` does.

Fairness.  Only that clocks run: weak fairness of `Tick` (`BatchRun`), of
`StaticTick` (`StaticFlip`), of each clock in `CdcBridge` and `Transporter`, of the board's
clock and of the host's script in `BoardRun` (its timeout is not fair: the
session must end without it), and in `MemTrials` of the free-running clock while the request is held.  The clocks
are inputs of the wrapper and nothing in it stops them (the freeze gates the
DUT's clock only).  In `CdcBridge` the destination also takes what it is
offered, as both users of a crossing do; in `Transporter` that is not assumed
but follows from the modelled DTM and register bank.

Deadlock is checked in every run but `board_run`, where a session ends, and
`fpga_prep` and `ce_inverting`, where a tool does.

## 4. Proofs

`tlapm` checks the proofs of eight modules; `PROJECT.json` lists the theorems.
Each invariant was first checked by TLC on the runs' instances, and those of the
Executor on variants without scrub, with a scrub of no shifts and without
restore too.

**`ScanPassProofs`**, for every chain length, set of patterns, `SCRUB_LEN` and
test-mode window: `TypeCorrect` (`TypeOK`), `ChainRestored` (`Restored`),
`FreezeExact` (`FreezeAccount`), `PassDelivers` (`PatternDelivered`) and
`InjectionIsAtomic` (`AtomicInjection`, the refinement of `FlipSpec`).
`Restored` speaks of the moment of `done`
only, so it is not inductive.  `RestoreInv` adds `Phases` (which registers can
be up together, and that a running pass will end at the last cell), `Rotated`
(after k shifts the chain is the original rotated by k, the cells that have
been round carrying their hits) and `Zeroed` (after k shifts of a scrub the
first k cells are 0).  The key step, `ShiftRotates`, splits the cells into the
one shifted in, the ones already round and the ones still to come.

That the right cells are hit is a fact about the stream.  `FrontEnd` says that
in a pass some number c of entries is consumed (`Consumed`): those are the cells
hit, entry c+1 sits in the first stage with its step not yet past, c+2 in the
second, and the head of the stream is c+3.  Since a legal pattern's steps are strictly
ascending, an entry in the first stage is reached before the pass has gone by,
even if it is the very next cell, which is what the second stage is for
(`ShiftConsumes`, `LastShiftDelivers`).  `InjectionIsAtomic` assumes `AllLegal`:
every pattern the table holds is one the host can emit, its indices descending
and on the chain, as `fi_pattern` sorts them.  Section 6 has the pattern for
which it would be false.

**`MemTrialsProofs`**, for every geometry, log depth, word set and both kinds of
memory: `MemTypeCorrect` (`TypeOK`), `RestoreIsComplete`
(`DoneMeansRestored`) and `LossReported` (`LossIsReported`).  The invariant says
that undoing the log leads back:
a word without an entry has its power-on content, and a word's oldest entry
holds it (`LogLeadsBack`; the same word may be logged several times, so the
entries themselves need not be power-on values); and that the rows a fill has
passed hold the fill word (`FillSweep`).  `AccessKeepsInv` and `RestoreKeepsInv`
treat the two sides of a memory; `EdgeKeepsInv` puts them together for whoever
drives its ports, and the Executor's proofs use it.

**`ExecutorProofs`**, in table mode (`BatchRun`), for every campaign, chain length, pass, table and memory
parameter, and whatever the host writes on which edge: `ScanNeverMeetsReset`
(`NoTestmodeInReset`), `RestoreNeverMeetsDut` (`MemoryOffLimits`),
`TrialsStartClean` (`CleanStart`), `WritesAccountedFor` (`MemoryAccounted`) and
`HaltedForGood` (`HaltIsFinal`).  Three controllers make the reset window, and
none of the properties is a fact about one of them.  `Window` says where the
Time Controller is, `Gate` where the Scan Controller is; `Restoring` joins them:
a scrub belongs to phase 3, and in it the memories are asked to restore only
while it shifts and the freeze gate, one edge behind, is shut already.  `Drained`
is about the pipeline between them: an injection may fire on the very edge that
ends the trial and is then still on its way; the scrub has a lead cycle and at
least one shift, which is just enough for the start to arrive while the Scan
Controller is busy, and be lost, before the reset rises.  The scrub's counter
and the history's agree, so that the zeros are all there.  `Configured` says
that no trial can stop before the host has set the chain length.  The memory's
half of a clean start is `MemTrialsProofs`, instantiated with the Executor's
memory.

The hypotheses: `Scrubs` (`SCRUB`, the wrapper's default, and a `SCRUB_LEN` that
is not 0) in the first, the third and the last, `MEM_RESTORE` (the default) in
the third, a DUT that does not write in reset in the second, an UNDO memory in
the fourth.  Without `Scrubs` the first is false: see sections 5 and 6.

In static mode (`StaticFlip`), for every chain length, set of indices and timing
of the host: `OneFlipInStatic` (`OneFlipPerPass`).  The property speaks of passes
that are over; `StaticInv` adds the one under way.  Its index is either still to
come, alone in the first stage with its step not yet past (`ToCome`), or has
flipped its cell, or none if it is past the chain (`Done`), and `ComesOnce` says
that a shift takes it from the one to the other once, the last shift at the
latest.  Nothing must follow the index into the second stage, and that is a fact
about the start pipeline: `static_first`, the mark that lets one index through,
must be up when a start arrives and down again in the lead cycle.  `StartAlone`
says why: a start takes two edges to arrive, and no other may come in between, so
the hypothesis is `SPACING >= 2`, register writes two edges apart.  The crossing
that brings them keeps them four apart (`ReadsSettle` rests on the same fact).
With `SPACING = 1` TLC finds `OneFlipPerPass` violated: the second start renews
the mark in the lead cycle of the first one's pass.  A chain of one cell needs
care of its own, since its only shift may use the mark up before the start
arrives.

**`Cdc2PhaseProofs`** has the lemmas about `fi_cdc_2phase_v6` that its three uses
share.  `Handshake` says where the two toggles and the six synchroniser flops can
be: idle, all equal; under way, the request toggle differing and its wave
somewhere in the destination's synchroniser; answered, the same for the
acknowledgement.  Without it a busy source whose item was already taken could
see a second request arrive.  One lemma per stage (`FromIdle`, `FromUnderway`,
`FromAnswered`) takes all combinations of the two clocks.  `ToTake` and `ToFree`
count the edges the wave still needs (`FromEmpty`, `FromInFlight`, `FromTaken`).

**`CdcBridgeProofs`**, for every set of data: `HandshakeHolds`,
`CaptureIsStable` (the data bits, which have no synchronisers, are never
captured on an edge on which they change) and `HandedOverOnce` (`ExactlyOnce`,
the refinement of `HandOff`).

**`TransporterProofs`**, for every table, set of requests and interleaving of the
clocks and TRST: `TableReadsSettle` (`ReadsSettle`) without any hypothesis:
while a read is in progress the request crossing still needs the AON edges the
read needs (`Settling`).  `RightAnswer` (`AnswersTheLastRequest`),
`CarriedOutOnce` (`EachRequestOnce`) and `PassiveWhenTransparent`
(`TransparentIsPassive`) hold because of a race that is won.  The DTM does not tag its
requests: it waits for a response and takes it to be the one.  Two things make
it stop waiting: the write that enters FI mode, whose answer comes back after
the cutover, and TRST, which leaves its request or answer in the crossings.
What is left over must be gone before the host's next scan can end.  `Place` says that a
transaction is in one place only (pulsed, crossing, being served, returning);
`Due` bounds the TCK edges until it is gone, `Slack` how many the TAP needs before
it can update the register again, and `Turns` that Due never exceeds Slack unless the DTM
is waiting.  `Words` and `Registered` then say what the one transaction carries and that
the registers, with it applied if it is still to be served, are the reference.

The hypothesis `Timing` is `5 * RATIO + 7 <= DR_BITS`, at most `RATIO` TCK edges
coming between two AON edges.  With the 41 bits of the code it admits a TCK six
times as fast as AON.  TCK is constrained to 10 MHz (`port/fi_example.sdc:30`,
`examples/tinyriscv/fpga/genesys2.xdc:23`), and AON is the wrapper's main clock, so
the code is far on the safe side.  The bound is close: with `RATIO` = 1 it asks
for 12 bits, and TLC finds `AnswersTheLastRequest` violated with 9.

**`TablePrefetchProofs`**, for every table, table depth, lookahead depth and
pace of consumption: `WindowOnTable` (`LookaheadIsWindow`), `NeverStarves`
(`NoStarvation`), `OffsetFromEop` (`OffsetIsOfEop`) and `EndedBatchesStay`
(`BatchStaysEnded`).  The offset is compared with the table itself, the EOP entry
that was fetched last, and not with the registers `eop_fetched` and the
lookahead: those have been cleared all through the reset window at whose end the
Time Controller reads it.  The four hold together or not at all: that a pass is not
starved needs a prefetch that is armed while a pass runs or anything is held,
and no reset pending in a pass (`ArmedFirst`), that it may stop at the end of
the table needs the pointer to stay there, and that the words are the right
ones needs the pointer inside the table.  `StreamKeepsInv` splits an edge into
a word fetched or not and an entry popped or not; `ResetKeepsInv` has the two
ways of starting over.

**`BoardRunProofs`**, for every FIFO depth above two, line speed, trial length,
DUT output and golden output, and whether or not the host's writes arrive.

* `FifoNeverOverflows` (`FifoHolds`) and `BoardTypeCorrect`: `full` stops the
  sequencer two entries before the FIFO is full, and one push may be in flight;
  the invariant says that there is room for it (`PushHasRoom`), and that
  everything the sequencer holds is a byte.
* `LateOnlyWhenFull`: while the FIFO has not been full, a trial starts only when
  the sequencer is through with the one before, so that no record is dropped and
  no byte sent as the next trial's (`in_time`).  `Backlog` counts the pushes the
  sequencer still has to make: 18 for nine bytes all escaped, one for half an
  escape, two for a byte of the DUT.  In the reset window each cycle takes one off
  (`BacklogFalls`), so a window of 21 cycles is enough; the code's is two scans
  of the chain.
* `BoardQuietFits`: the quiet time of the host (`board_campaign.py:320`) is longer
  than a trial with its window and a record's way through a full FIFO, for the
  board's FIFO (1024), line (108 cycles a bit, ten bits) and clock (0.15 s are
  1875000 cycles), and all lengths of trials and chains.
* `RecordsStayInStep` (`RecordsInStep`): as long as every trial has started in
  time, record j of what the host collects is trial j's of the campaign it armed.
* `VerdictsAreTheTrials` (`VerdictIsTheTrials`): every verdict is the documented
  one on that trial's own output and end, or LOST, as long as every trial has
  started in time.

The last two rest on one invariant, `BoardInv`.  The host sees a byte long after
the sequencer has sent it, so what can be said about the host is said about
where its parser will be when it has read everything under way: a reading is the
sequence of the parser's states after each byte on the line, in the FIFO and in
the push register.  `EndShape` relates the last of them to what the sequencer
has not sent yet (a record half sent, an escape half sent); the history is then
compared with that state (`CampaignIs`: the number of the record to come, how many trials
have started, the output of the trial under way with the bytes still in the
escape and data registers appended; `RunsAre`: for each earlier state, the runs
that are complete).  A clock edge extends the reading at its far end or takes its
first byte, and the rest of it stays as it is.  That no record of an earlier campaign is among them
is a matter of time: while the host waits for quiet, either a record in flight
will reset its count before it expires (`Delay`), or no trial will
start any more (`Quiescent`), or the next start comes early enough
(`QuietAt`).  That the classification by slices of the list of lines is the
documented one is `ClassifyIsReference`.

Nothing in the code keeps a trial from starting late when the FIFO is full: then
a record can be dropped, which is the observation in section 6, and the two
theorems say nothing of what follows.  Their hypothesis `QuietFits` is
`(DEPTH + 19) * (LINE + 1) + 40 + TO_THR + GAP + 2 <= QUIET`: the bytes of a full
FIFO, the 19 the sequencer may have to push for a record and half an escape, and
one trial.  The host counts `DEPTH * LINE` for the FIFO and two trials; the
difference is 21605 cycles on the board, which the second trial or the 0.15 s
cover (`BoardQuietFits`).

Assumptions used: `MemAssumption`, `ExecutorAssumption`, `BatchAssumption`,
`StaticAssumption`, `BoardUartAssumption`, `BoardRunAssumption` and the named assumptions on the
constants in `ScanPass`, `TablePrefetch`, `CdcBridge` and `Transporter`, all
evaluated by TLC in the runs.

Only model-checked:

* liveness under fairness (`RestoreEnds`, `Delivered`, `NeverStalls`,
  `CampaignEnds`, `PassesEnd`, and the ends of a session), which is beyond the prover;
* `RunsThePlan` and `OnlyThePlan` of `BatchRun`: they compare the hardware with
  what the host's sorting computes (`HostCampaign`), an induction over the table;
* everything about the netlist tools and the ROM images, whose algorithms are
  recursive over the hierarchy, over a clock's gates and over a file's tokens.

## 5. Not modelled

`PROJECT.json` gives the reason per component.

* The slow clock and the UART observer: a divider, and a receiver whose subject
  is the sampling point inside a bit; `BoardRun` starts from whole bytes.
* The FPGA memory macro: `SramRestore` models the restore it includes; the
  power-on image it loads is data.
* Of `board_campaign.py`: the modes that only print what the parser sees, the
  comparison with a simulation's log, the profile.  Of the netlist tools: the
  regular expressions that split the text into statements, and the reports.
* The simulation's socket server.
* The reset window of a wrapper built with SCRUB = 0, in which a timeout can
  reset the DUT in the middle of a pass: `TimeCtrl` has its actions, but no run
  composes it with a DUT.
* Out of reach: the synthesis scripts, whose results depend on a proprietary
  tool's database, and the latch inside the clock gate, which works within a
  clock period.  The recovery branch of the Time Controller for an unknown phase
  is not an action: in such a phase no action would be enabled, and the runs,
  which check for deadlock, never get there.

## 6. Findings and observations

Finding, shown by a run:

* `ce_inverting`: `clocktrace.py` accepts a clock gate whose output inverts the
  clock (NAND2) and says so in the polarity it returns, but
  `fi_fpga_ce.py:172` drives the gate's output by its input clock as it is.  The
  registers behind it move to the other edge, and their contents differ.
  `ConversionExact` is about all other gates.

Observations, met while choosing the environment of the runs.  Most can be
reproduced by changing the constants as noted.

Of the wrapper and its host:

* `fi_campaign` accepts FI_Cycle = CFG_TO_THR - 1
  (`inject_and_run_dmi.tcl:190`), but the start needs two more edges and the
  trial stops first; the injection is dropped and the campaign never ends (one
  trial at cycle `TO_THR - 1` in `batch_run`; `CampaignEnds`).
* With a scrub of no shifts (`SCRUB = 1` on a design whose cells all have a
  reset, so that `FI_SCRUB_LEN` is 0) the same trial goes wrong in another way:
  the reset rises two edges after the stop, before the start has come through
  the pipeline, and the pass runs in the DUT's reset (`SCRUB_LEN = 0`, one trial
  at cycle `TO_THR - 1` in `batch_run`; `NoTestmodeInReset`).
* A null entry delays the entry behind it by one shift; if that is for the last
  cell it is dropped as out of order (`fi_scan_ctrl.v:155-163`), although the
  comment there says a null entry cannot block the rest of the pattern (patterns
  with an entry past the chain in front of the last cell's in `scan_pass`;
  `PatternDelivered`).

* An injection in cycle 1 with a pattern that fills a four-word lookahead starts
  before the prefetch is done and is ignored; the campaign does not end
  (`LOOKAHEAD = 4`, `FI_SCAN_LEN = 4`, `TO_THR = 12`, one trial at cycle 1 with
  four cells; `CampaignEnds`).
* A campaign armed while the previous one's restarts go on loses its first
  pattern if the write lands in a reset window (`PAUSE = FALSE`, `BATCHES = 2`;
  `RunsThePlan`).  `board_campaign.py` pauses first; `fi_campaign` alone does not.
* A trial ended by CFG0.END before its injection leaves the table pointer inside
  a pattern longer than the lookahead; the rest is injected as a pattern of its
  own (`ENDS = TRUE`, a three-cell pattern; `OnlyThePlan`).
* Without scrub, a DUT write on the very edge on which the restore completes is
  dropped, but `fi_bad` rises one edge too late to stop the next trial; the
  memory is intact, and the campaign halts a trial later (`SCRUB = FALSE`,
  `DUT_UNRULY = TRUE` in `batch_end`).
* A request accepted on the very edge on which FI mode is left is dropped.
* The table read takes three AON edges and the crossing keeps requests four
  apart: `ReadsSettle` holds, with nothing to spare.
* `FI_TBL_STATUS_PENDING_BIT` and `FI_TBL_STATUS_VALID_BIT` (`fi_transporter.v`
  lines 64-65, unused) disagree with the bits the read multiplexer returns.

Of the board:

* A trial that starts while the record before is still being sent gets no record
  (`fi_board_uart.v:92`).  The host counts records (`board_campaign.py:340`:
  "trial j of the campaign is run before+j-1 of the stream"), so it reports
  every later trial's output one trial early; the flag marks the trials next to
  the gap only, and the trial number in the record, which would show it, is not
  compared.  `board_run` with `GAP` 21 or 18 shows it (`RecordsInStep`), with
  24 or 26 it does not.  It takes a FIFO that is full in the reset window
  (`LateOnlyWhenFull`), with that of the board a DUT that outprints the line for
  long.
* A byte of a trial that still waits in the data register when the next trial
  starts is sent after that trial's record, as if it were its output.  The window
  of `board_run` is long enough for it to leave before.
* A golden output whose first line occurs twice before the end marker makes
  every clean trial a DUE.
* Trials so long that the quiet time is ten seconds or more always make the host
  give up (`board_campaign.py:327`), whether or not the pause was obeyed.
* Waiting for OpenOCD to know `fi_campaign` has no timeout (lines 149-152).

Of the netlist tools:

* A gated clock that leaves a child through two outputs has its enable net
  driven by both when the parent uses both (`fi_fpga_ce.py:189-191`), which a
  synthesis tool reports as two drivers.  One design of `fpga_prep` does it;
  `EnablesWired` excepts exactly that case and forbids every other net with two
  equations.
* A flop on the falling edge behind a gate takes the enable as it is at the
  falling edge, while the gate held the one of the rising edge.  `cells.py`
  lists the clock pin of such flops (`CPN`), and the designs of the runs have
  none behind a gate.
* A register whose clock could not be traced, downstream of a converted gate,
  is left as it is and so runs ungated (`fi_fpga_ce.py:202-203`), although
  `clocktrace.py:12` says that such a clock is reported, not guessed.
* `read_cell_dirs` sees an `output` only at the beginning of a line.

## 7. What is left

In order of importance: the half of `OnlyThePlan` that does not depend on the
host's sorting (what is injected are the table's patterns, in order, at the
cycles the Time Controller computes), which joins `TablePrefetchProofs`,
`ScanPassProofs` and `ExecutorProofs`; a bound on the records a short window
can cost once the FIFO is full; a composition of `SCRUB = 0` with a DUT;
`SlowClk` and `UartObs`, the block-RAM macro as a refinement of `SramRestore`,
and the buffers of the simulation's socket server.
