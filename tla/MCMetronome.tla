---------------------------- MODULE MCMetronome ----------------------------
(***************************************************************************)
(* A fixed-step track and a variable one.  Strict: one beat in flight each, *)
(* a debt cap of one step, time clamped, and the variable track shows the  *)
(* fixed one.  Loose: no limit on the fixed track's beats, so that its     *)
(* ring of signals grows and turns, beside a track not due in that time.   *)
(***************************************************************************)
EXTENDS Metronome

CONSTANTS update, render

Strict ==
  [t \in Tracks |->
     IF t = update
     THEN [Step |-> 2, MinInterval |-> 0, MaxDelta |-> 0, MaxInFlight |-> 1,
           MaxDebt |-> 1, InterpolateAgainst |-> NoTrack]
     ELSE [Step |-> 0, MinInterval |-> 1, MaxDelta |-> 1, MaxInFlight |-> 1,
           MaxDebt |-> 4, InterpolateAgainst |-> update]]
Loose ==
  [t \in Tracks |->
     IF t = update
     THEN [Step |-> 1, MinInterval |-> 0, MaxDelta |-> 0, MaxInFlight |-> 0,
           MaxDebt |-> 4, InterpolateAgainst |-> NoTrack]
     ELSE [Step |-> 0, MinInterval |-> 9, MaxDelta |-> 0, MaxInFlight |-> 2,
           MaxDebt |-> 4, InterpolateAgainst |-> NoTrack]]

StrictOrLoose == {Strict, Loose}

=============================================================================
