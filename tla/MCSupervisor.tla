---------------------------- MODULE MCSupervisor ----------------------------
(***************************************************************************)
(* Many: two kernels, and a goroutine that publishes into them what no     *)
(* handler schedules anything for.  Shared: two kernels whose plugins      *)
(* publish pinned jobs.  Busy: one kernel of two workers, with two         *)
(* goroutines that publish into it and jobs of both kinds.                 *)
(***************************************************************************)
EXTENDS Supervisor

CONSTANTS k1, k2, w1, w2, main1, c1, c2

Many == [kernels |-> {k1, k2}, workers |-> {w1}, callers |-> {c1}, jobs |-> 0, pinned |-> 0]
Shared == [kernels |-> {k1, k2}, workers |-> {w1}, callers |-> {}, jobs |-> 0, pinned |-> 1]
Busy == [kernels |-> {k1}, workers |-> {w1, w2}, callers |-> {c1, c2}, jobs |-> 1, pinned |-> 1]

AllWorkloads == {Many, Shared, Busy}
=============================================================================
