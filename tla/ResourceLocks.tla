--------------------------- MODULE ResourceLocks ---------------------------
(***************************************************************************)
(* What the kernel promises about task locks, with no queue, no mutex and  *)
(* no lock table: jobs ask for the locks of their task, are granted all of *)
(* them at once, and give them back when they finish.  Two jobs that hold  *)
(* their locks at the same time never conflict: one does not write what    *)
(* the other touches.  LockCombiner is the code's implementation of this.  *)
(***************************************************************************)
CONSTANTS
  Jobs,       \* every job
  Resources,  \* every lockable resource of the kernel
  Reads,      \* Reads[j]: the resources job j's task only reads
  Writes      \* Writes[j]: the resources job j's task writes

VARIABLES
  asking,   \* jobs whose locks are not granted yet
  holding   \* jobs that were granted their locks and have not finished

vars == <<asking, holding>>

Touches(j) == Reads[j] \cup Writes[j]

\* One of the two jobs writes what the other touches.
Conflict(j, k) ==
  \/ Writes[j] \cap Touches(k) # {}
  \/ Writes[k] \cap Touches(j) # {}

Init ==
  /\ asking = {}
  /\ holding = {}

Ask(j) ==
  /\ j \notin asking \cup holding
  /\ asking' = asking \cup {j}
  /\ UNCHANGED holding

Grant(j) ==
  /\ j \in asking
  /\ \A k \in holding : ~Conflict(j, k)
  /\ asking' = asking \ {j}
  /\ holding' = holding \cup {j}

\* A job that locks nothing is granted as it asks.
GrantAtOnce(j) ==
  /\ j \notin asking \cup holding
  /\ Touches(j) = {}
  /\ holding' = holding \cup {j}
  /\ UNCHANGED asking

GiveBack(j) ==
  /\ j \in holding
  /\ holding' = holding \ {j}
  /\ UNCHANGED asking

Next == \E j \in Jobs : Ask(j) \/ Grant(j) \/ GrantAtOnce(j) \/ GiveBack(j)

Spec == Init /\ [][Next]_vars

\* Jobs that hold their locks together never conflict.
Exclusion == \A j, k \in holding : j # k => ~Conflict(j, k)

=============================================================================
