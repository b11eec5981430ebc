------------------------------ MODULE MCWorld ------------------------------
(***************************************************************************)
(* Churn: three entities on two indices, values changing.  Crowd: three    *)
(* rows whose order varies, one of them a mirror's.  Buffered: two         *)
(* entities on one commit, all writes recorded.  Lone: one entity, longer  *)
(* lanes.                                                                  *)
(***************************************************************************)
EXTENDS World

Churn == [entities |-> 3, mirrors |-> {}, values |-> Values, records |-> 0, operations |-> {}, direct |-> TRUE]
Crowd == [entities |-> 2, mirrors |-> {<<3, 1>>}, values |-> {1}, records |-> 0, operations |-> {}, direct |-> TRUE]
Buffered == [entities |-> 2, mirrors |-> {}, values |-> {1}, records |-> 2,
             operations |-> {"Spawn", "Despawn", "Add"}, direct |-> FALSE]
Lone == [entities |-> 1, mirrors |-> {}, values |-> Values, records |-> 3,
         operations |-> {"Spawn", "Add", "Set", "Remove"}, direct |-> FALSE]

AllWorkloads == {Churn, Crowd, Buffered, Lone}
=============================================================================
