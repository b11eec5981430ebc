----------------------------- MODULE MCJobGraph -----------------------------
(***************************************************************************)
(* Small instances of JobGraph: two publications, so one schedules after   *)
(* jobs of the other that may be running or finishing.                     *)
(***************************************************************************)
EXTENDS JobGraph

CONSTANTS p1, p2, w1, w2, n1

WorkerSymmetry == Permutations(Workers)

=============================================================================
