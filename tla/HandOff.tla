-------------------------------- MODULE HandOff --------------------------------
(***************************************************************************)
(* What a clock-domain crossing promises, with clocks and toggles hidden:  *)
(* a place for one item.  What is put in is taken out exactly once, in     *)
(* order and unchanged, unless a reset empties the place.                  *)
(***************************************************************************)
EXTENDS Integers, Sequences

CONSTANT Data

VARIABLES
  place,     \* <<>>, or <<d>> while d is on its way
  taken,     \* the last item taken out
  epoch      \* flips with every reset: nothing else may empty the place

vars == <<place, taken, epoch>>

Put(d) == place = <<>> /\ place' = <<d>> /\ UNCHANGED <<taken, epoch>>
Take   == place # <<>> /\ place' = <<>> /\ taken' = place[1] /\ UNCHANGED epoch
Abort  == place' = <<>> /\ epoch' = 1 - epoch /\ UNCHANGED taken

Init == place = <<>> /\ taken \notin Data /\ epoch = 0
Next == (\E d \in Data : Put(d)) \/ Take \/ Abort

Spec == Init /\ [][Next]_vars
=============================================================================
