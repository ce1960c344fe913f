-------------------------- MODULE MCPlanExecution --------------------------
(* Instances of PlanExecution for TLC.                                      *)
EXTENDS PlanExecution

CONSTANTS s1, w1, a, b, sub

\* One plan of two nodes; b depends on a, or both are independent.
PlanSessionOf == w1 :> s1
PlanNodes == w1 :> {a, b}
ChainDependsOn == a :> {} @@ b :> {a}
FreeDependsOn == a :> {} @@ b :> {}
PlanTypeOf == a :> sub @@ b :> sub
PlanUpstream == a :> NoTask @@ b :> NoTask
PlanRank == a :> 1 @@ b :> 2
PlanGroupOf == a :> NoGroup @@ b :> NoGroup
PlanCapacity == sub :> 2
ChainStoppable == {<<w1, a>>, <<w1, b>>}
=============================================================================
