--------------------------- MODULE MCLockCombiner ---------------------------
(***************************************************************************)
(* A small kernel for LockCombiner: two resources and jobs that cover the  *)
(* kinds of lock sets that can meet: writers and readers of one resource,  *)
(* a job that reads one and writes the other, and one that locks nothing.  *)
(***************************************************************************)
EXTENDS LockCombiner

CONSTANTS g1, g2, g3, a, b

TaskReads ==
  [readA |-> {a}, readAwriteB |-> {a}, writeA |-> {},
   writeB |-> {}, writeAB |-> {}, readAB |-> {a, b}, nothing |-> {}]

TaskWrites ==
  [readA |-> {}, readAwriteB |-> {b}, writeA |-> {a},
   writeB |-> {b}, writeAB |-> {a, b}, readAB |-> {}, nothing |-> {}]

\* Every job reads at most one resource.
FairJobs == {"readA", "readAwriteB", "writeAB", "nothing"}
FairReads == [j \in FairJobs |-> TaskReads[j]]
FairWrites == [j \in FairJobs |-> TaskWrites[j]]

\* A reader of two resources among writers of each.
OvertakenJobs == {"readAB", "writeA", "writeB"}
OvertakenReads == [j \in OvertakenJobs |-> TaskReads[j]]
OvertakenWrites == [j \in OvertakenJobs |-> TaskWrites[j]]

=============================================================================
