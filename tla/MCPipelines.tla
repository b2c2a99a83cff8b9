---------------------------- MODULE MCPipelines ----------------------------
(* Instances of Pipelines: two or three nodes, one ticker and one request. *)
EXTENDS Pipelines

Make(order, kind, deps, attempts, failFast, budget) ==
    [nodes |-> {order[i] : i \in 1..Len(order)}, order |-> order, kind |-> kind, deps |-> deps,
     attempts |-> attempts, failFast |-> failFast, budget |-> budget]

Two(ka, kb, deps, attempts, failFast, budget) ==
    Make(<<"a", "b">>, [a |-> ka, b |-> kb], [a |-> {}, b |-> deps],
         [a |-> attempts, b |-> attempts], failFast, budget)

Chain == Two("workload", "workload", {"a"}, 2, {}, "pause")
Gated == Two("gate", "workload", {"a"}, 1, {"b"}, "none")
Siblings == Two("workload", "workload", {}, 1, {"a"}, "none")
Failing == Two("workload", "workload", {}, 1, {}, "fail")
Approved == Two("transform", "approval", {"a"}, 2, {"b"}, "none")
FanOut(beside) ==
    Make(<<"a", "b", "t">>, [a |-> "fan_out", b |-> beside, t |-> "template"],
         [n \in {"a", "b", "t"} |-> {}], [n \in {"a", "b", "t"} |-> 1], {"b"}, "none")
FanOutBesideWork == FanOut("workload")
FanOutBesideGate == FanOut("gate")

MCSpecs == {
    Siblings, Failing, Approved,
    \* a chain with attempts, on a budget
    Chain,
    \* a gate beside a node that fails fast, and before a workload
    Two("workload", "gate", {}, 1, {"a"}, "none"), Gated,
    \* a transform or a workload reduced
    Two("transform", "fan_in", {"a"}, 1, {}, "none"),
    Two("workload", "fan_in", {"a"}, 1, {}, "none"),
    \* a fan-out with its template, beside a node that fails fast
    FanOutBesideWork, FanOutBesideGate}

\* One fault or one retry, which of the two in the largest pipelines named here.  The calls
\* overlap throughout where a node is reduced, up to the fault in two others, and follow each
\* other in the rest.
Faults == refusals + crashes
Reduces(s) == \E n \in s.nodes : s.kind[n] = "fan_in"
Overlap == \A x \in Drivers : drv[x].pc # "idle"
Focus ==
    /\ ~ broken /\ Faults + retries <= 1
    /\ spec \in {Chain, FanOutBesideWork} => retries = 0
    /\ spec = FanOutBesideGate => Faults = 0
    /\ Overlap => Reduces(spec) \/ (spec \in {Siblings, Gated} /\ Faults + retries = 0)
===========================================================================
