------------------------- MODULE MCFleetAdmission -------------------------
(***************************************************************************)
(* FleetAdmission for TLC: runs that differ only in their profile are      *)
(* interchangeable.  Usage, operators and the scheduler meet in few places *)
(* (the gates, the freezes, the end of a run), so the search takes them    *)
(* two at a time: usage of two alike runs out of the scheduler, operators  *)
(* before any run is started, and the scheduler on its own.                *)
(***************************************************************************)
EXTENDS FleetAdmission, TLC

CONSTANTS t1, t2, w1

Prof(t, q) == [tenant |-> t, workload |-> w1, qos |-> q, priority |-> 0]

MCProfiles == {Prof(t1, "guaranteed"), Prof(t1, "best_effort"), Prof(t2, "burstable")}

Quiet == ops = 0
Unspent == \A r \in Runs : reports[r] = 0 /\ run[r] # "running"
Unscheduled ==
    /\ queue = <<>> /\ running = {} /\ \A r \in Runs : sub[r].pc # "enqueue"
    /\ Cardinality({r \in Runs : sub[r].pc # "idle"}) <= 2
    /\ \A r \in Runs : profile[r] \in {NoProfile, Prof(t1, "best_effort")}
Unstarted ==
    running = {} /\ \A r \in Runs : run[r] \in {"none", "queued"} /\ profile[r].qos # "guaranteed"

Focus == (Quiet /\ Unspent) \/ (Quiet /\ Unscheduled) \/ (Unspent /\ Unstarted)

MCNext ==
    \/ Lifecycle
    \/ Quiet /\ Unscheduled /\ Driving
    \/ Unspent /\ Unstarted /\ Operating

MCSpec == Init /\ [][MCNext]_vars

Symmetry == Permutations(Runs)
=============================================================================
