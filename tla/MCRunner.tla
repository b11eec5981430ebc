------------------------------ MODULE MCRunner ------------------------------
(***************************************************************************)
(* Small kernels for Runner.  In the first, a plugin publishes a pinned    *)
(* job and one that follows it; a goroutine outside the kernel, which may  *)
(* come too late, a job whose body publishes an event that no handler      *)
(* schedules anything for.  In the second, a plugin publishes a job and    *)
(* another, which may come late but before its plugin stops, a pinned one. *)
(***************************************************************************)
EXTENDS Runner

CONSTANTS w1, w2, main1, plugin1, plugin2, outsider

RunnerJobs == {"pinned", "after", "nesting"}
RunnerDependsOn ==
  [j \in RunnerJobs |-> IF j = "after" THEN "pinned" ELSE NoJob]
RunnerBatch ==
  [x \in Publishers \cup {"nesting"} |->
     CASE x = plugin1 -> <<"pinned", "after">>
       [] x = outsider -> <<"nesting">>
       [] x = "nesting" -> <<>>]

LateJobs == {"early", "late"}
LateDependsOn == [j \in LateJobs |-> NoJob]
LateBatch == [x \in Publishers |-> IF x = plugin1 THEN <<"early">> ELSE <<"late">>]

=============================================================================
