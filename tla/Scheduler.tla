----------------------------- MODULE Scheduler -----------------------------
(***************************************************************************)
(* The fleet scheduler of scheduler/scheduler.py: the priority queue, the  *)
(* tasks it believes are running, checkpoints, preemption and the          *)
(* maintenance freezes.  It lives in the memory of one replica and takes   *)
(* no lock.  A task is a run; what it is submitted with is its profile.    *)
(*                                                                         *)
(* dequeue and preempt each choose a task and then move it.  Requests run  *)
(* on a pool of threads, so another request may come between: the two      *)
(* halves are operators of their own here.                                 *)
(***************************************************************************)
EXTENDS Naturals, Sequences, FiniteSets

CONSTANTS
    Runs,              \* run ids, also the task ids
    Profiles,          \* [tenant, workload, qos, priority] a run may come with
    PerWorkloadLimit, PerTenantLimit, MaxQueueDepth

ASSUME SchedulerConfig ==
    /\ PerWorkloadLimit \in Nat \ {0} /\ PerTenantLimit \in Nat \ {0}
    /\ MaxQueueDepth \in Nat \ {0}

VARIABLES
    profile,           \* the profile each run was submitted with
    queue,             \* _queue in insertion order
    running,           \* keys of _running
    checkpointed,      \* tasks in it with at_checkpoint set
    frozenAll, frozenTenants, frozenWorkloads

freezeVars == <<frozenAll, frozenTenants, frozenWorkloads>>
schedVars == <<profile, queue, running, checkpointed, freezeVars>>

Tenants == {p.tenant : p \in Profiles}
Workloads == {p.workload : p \in Profiles}

rank == [guaranteed |-> 2, burstable |-> 1, best_effort |-> 0]
preemptible(r) == profile[r].qos # "guaranteed"

NoProfile == [tenant |-> "none", workload |-> "none", qos |-> "none", priority |-> 0]

Queued == {queue[i] : i \in 1..Len(queue)}

SchedInit ==
    /\ profile = [r \in Runs |-> NoProfile]
    /\ queue = <<>> /\ running = {} /\ checkpointed = {}
    /\ frozenAll = FALSE /\ frozenTenants = {} /\ frozenWorkloads = {}

RunningForWorkload(w) == Cardinality({r \in running : profile[r].workload = w})
RunningForTenant(t) == Cardinality({r \in running : profile[r].tenant = t})

IsFrozen(w, t) == frozenAll \/ t \in frozenTenants \/ w \in frozenWorkloads

\* Mutation of Refuses: the limits are off by one.
RefusesLate(r) ==
    \/ IsFrozen(profile[r].workload, profile[r].tenant)
    \/ RunningForWorkload(profile[r].workload) > PerWorkloadLimit
    \/ RunningForTenant(profile[r].tenant) > PerTenantLimit
    \/ Len(queue) >= MaxQueueDepth

\* submit: the task is queued, or refused for the first reason that applies.
Refuses(r) ==
    \/ IsFrozen(profile[r].workload, profile[r].tenant)
    \/ RunningForWorkload(profile[r].workload) >= PerWorkloadLimit
    \/ RunningForTenant(profile[r].tenant) >= PerTenantLimit
    \/ Len(queue) >= MaxQueueDepth

Enqueue(r) == queue' = Append(queue, r)

\* _score: the QoS class first, then priority plus aging.  The aging of two entries
\* depends on when dequeue looks, and it never puts a later entry ahead of an earlier
\* one of the same or a higher priority.
Ahead(i, j) ==
    LET a == profile[queue[i]]
        b == profile[queue[j]]
    IN  \/ rank[a.qos] > rank[b.qos]
        \/ rank[a.qos] = rank[b.qos] /\ i < j /\ a.priority >= b.priority

\* The entries dequeue may pick.
Best == {queue[j] : j \in {k \in 1..Len(queue) : \A i \in 1..Len(queue) : ~ Ahead(i, k)}}

\* Mutation of MoveToRunning: the entry is not deleted from the queue.
MoveToRunningKeeps(t) ==
    /\ queue' = queue
    /\ running' = running \cup {t}
    /\ checkpointed' = checkpointed \ {t}

\* The second half of dequeue: the entry is deleted, the others keep their order.
MoveToRunning(t) ==
    /\ \E i \in 1..Len(queue) :
          queue[i] = t /\ queue' = SubSeq(queue, 1, i - 1) \o SubSeq(queue, i + 1, Len(queue))
    /\ running' = running \cup {t}
    /\ checkpointed' = checkpointed \ {t}

\* mark_checkpoint; nothing takes the mark away while the task runs.
MarkCheckpoint(r) ==
    checkpointed' = IF r \in running THEN checkpointed \cup {r} ELSE checkpointed

\* complete looks among the running tasks only.
CompleteTask(r) ==
    /\ running' = running \ {r}
    /\ checkpointed' = checkpointed \ {r}

\* The tasks preempt may choose for r: checkpointed, preemptible, of the lowest class
\* (the code takes the one that started first, a start order that is not kept here).
Candidates(r) == {v \in checkpointed \ {r} : preemptible(v)}
Victims(r) ==
    IF r \in running /\ profile[r].qos = "guaranteed"
    THEN {v \in Candidates(r) :
             \A u \in Candidates(r) : rank[profile[v].qos] <= rank[profile[u].qos]}
    ELSE {}

\* requeue, a no-op for a task that is no longer running
Requeue(v) ==
    /\ CompleteTask(v)
    /\ IF v \in running THEN Enqueue(v) ELSE UNCHANGED queue

\* The freeze and unfreeze requests name the tenant and may name a workload.
FreezeQueue(t, ws) ==
    /\ frozenTenants' = frozenTenants \cup {t}
    /\ frozenWorkloads' = frozenWorkloads \cup ws
    /\ UNCHANGED frozenAll

UnfreezeQueue(t, ws) ==
    /\ frozenTenants' = frozenTenants \ {t}
    /\ frozenWorkloads' = frozenWorkloads \ ws
    /\ UNCHANGED frozenAll
=============================================================================
