------------------------------- MODULE Campaign -------------------------------
(***************************************************************************)
(* What a fault-injection campaign promises, with the hardware hidden: the *)
(* host arms a plan, its injections happen one after the other, each       *)
(* exactly as planned, and the campaign is reported over only after the    *)
(* last of them.                                                           *)
(***************************************************************************)
EXTENDS Integers, Sequences

CONSTANT Plans    \* the plans the host may arm: sequences of injections

VARIABLES
  plan,    \* the armed plan
  log,     \* the injections that have happened
  over     \* the campaign is reported over

vars == <<plan, log, over>>

Init == plan = <<>> /\ log = <<>> /\ over = FALSE

\* A new campaign takes the place of whatever was left of the last one.
Arm == plan' \in Plans /\ log' = <<>> /\ over' = FALSE

Inject ==
  /\ Len(log) < Len(plan)
  /\ log' = Append(log, plan[Len(log) + 1])
  /\ UNCHANGED <<plan, over>>

Finish ==
  /\ log = plan
  /\ over' = TRUE
  /\ UNCHANGED <<plan, log>>

Next == Arm \/ Inject \/ Finish

Spec == Init /\ [][Next]_vars
=============================================================================
