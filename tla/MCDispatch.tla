----------------------------- MODULE MCDispatch -----------------------------
(***************************************************************************)
(* Pools of one process for Dispatch: small ones of every kind, and the    *)
(* round-robin pool of test/base/ThreadPool_test.cpp, with four workers.   *)
(***************************************************************************)
EXTENDS Dispatch, TLC

AllPools == {"ran", "rr", "lb", "none"}
AllSizes == "ran" :> 1 @@ "rr" :> 1 @@ "lb" :> 2 @@ "none" :> 0
AllPolicies == "ran" :> "RAN" @@ "rr" :> "RR" @@ "lb" :> "LB0" @@ "none" :> "RAN"

SomeRuntimes == {-2, 1, 3} \* the clock is set back; tasks of one millisecond and of three

RoundRobinSize == "rr" :> 4
RoundRobinPolicy == "rr" :> "RR"
=============================================================================
