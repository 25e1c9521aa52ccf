-------------------------- MODULE MCOperationBudget --------------------------
(***************************************************************************)
(* Every small policy, against deadlines before, at and after the end of   *)
(* the invocation.                                                         *)
(***************************************************************************)
EXTENDS OperationBudget

MCDeadlines == {0, 5, 8, 10}

MCPolicies ==
    {l \in [maximum : 1..5, minimum : 1..4, reserve : 0..2, granularity : 1..3] :
        l.minimum <= l.maximum}
=============================================================================
