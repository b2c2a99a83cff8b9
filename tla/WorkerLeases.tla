--------------------------- MODULE WorkerLeases ---------------------------
(***************************************************************************)
(* The worker registry of worker/registry.py: worker liveness and states,  *)
(* run leases, heartbeats that renew them, fenced reports, and the reclaim *)
(* and deregister loops that take leases from dead workers and hand them   *)
(* to ready ones.                                                          *)
(*                                                                         *)
(* Workers' requests, reclaim cycles of several replicas and an operator's *)
(* requests interleave between the calls to the lease store, each of which *)
(* is one transaction.  Any amount of time may pass between two steps, so  *)
(* at each comparison with the clock any lease may be past its expires_at  *)
(* and any worker past the heartbeat cutoff: renewals change no state but  *)
(* the row they write back.  A crashed worker is one that takes no further *)
(* step.                                                                   *)
(***************************************************************************)
EXTENDS Naturals, FiniteSets

CONSTANTS
    Workers,     \* worker ids
    Runs,        \* run ids a caller asks to lease
    Claimers,    \* requests that take leases away: reclaim cycles, operators
    Capacity,    \* max(capabilities.capacity, 1)
    MaxLeases,   \* bound on the leases ever granted
    MaxOps,      \* bound on registrations and operator requests
    MaxReports   \* bound on the accepted reports of one run

ASSUME RunsAssumption == "none" \notin Runs
ASSUME WorkersAssumption == "none" \notin Workers
ASSUME BoundsAssumption ==
    Capacity \in Nat \ {0} /\ MaxLeases \in Nat /\ MaxReports \in Nat /\ MaxOps \in Nat

VARIABLES
    wstate,      \* WorkerRow.state, "absent" before registration
    lease,       \* by lease id: run, worker and fencing token, fixed at grant
    nextId,      \* the next lease id
    live,        \* ids of the rows in the lease table
    granted,     \* runs a caller has leased out
    ops,         \* registrations and operator requests so far
    hb,          \* the heartbeat request in flight for each worker
    rp,          \* the daemon tick in flight on each worker
    todo,        \* by claimer: leases listed and not yet visited
    due,         \* by claimer: those it found expired when it listed them
    held,        \* by claimer: the lease it claimed and has to reassign, 0 if none
    target,      \* by claimer: the ready worker it found for it
    accepted,    \* history: accepted reports of each run
    raced        \* history: runs with a lease removed under a request about to write it

leaseVars == <<lease, nextId, granted>>
opVars == <<wstate, ops>>
claimVars == <<todo, due, held, target>>
vars == <<opVars, leaseVars, live, hb, rp, claimVars, accepted, raced>>

Ids == 1..MaxLeases

States == {"absent", "ready", "busy", "draining", "maintenance", "unhealthy",
           "deregistered"}

Idle == [pc |-> "idle", ids |-> {}, id |-> 0, snap |-> "absent"]
NoLease == [run |-> "none", worker |-> "none", fence |-> 0]

Init ==
    /\ wstate = [w \in Workers |-> "absent"]
    /\ lease = [i \in Ids |-> NoLease]
    /\ nextId = 1
    /\ live = {} /\ granted = {} /\ ops = 0
    /\ hb = [w \in Workers |-> Idle]
    /\ rp = [w \in Workers |-> [pc |-> "idle", id |-> 0]]
    /\ todo = [c \in Claimers |-> {}]
    /\ due = [c \in Claimers |-> {}]
    /\ held = [c \in Claimers |-> 0]
    /\ target = [c \in Claimers |-> "none"]
    /\ accepted = [r \in Runs |-> 0]
    /\ raced = {}

LeasesOf(w) == {i \in live : lease[i].worker = w}

\* The state heartbeat and report leave a worker in: an operator's drain or
\* maintenance sticks, anything else is overwritten.
Sticky(old, new) == IF old \in {"draining", "maintenance"} THEN old ELSE new

\* A heartbeat has read lease i and is about to write it; a report has read it and
\* is about to delete it.
Renewing(i) == \E w \in Workers : hb[w].pc = "put" /\ hb[w].id = i
Reporting(i) == \E w \in Workers : rp[w].pc = "delete" /\ rp[w].id = i

---------------------------------------------------------------------------
\* Registration and operator requests

\* _set_state, whatever the state was
Operate(w, s) ==
    /\ ops < MaxOps
    /\ ops' = ops + 1
    /\ wstate' = [wstate EXCEPT ![w] = s]

\* register: the row is overwritten as ready
Register(w) ==
    /\ Operate(w, "ready")
    /\ UNCHANGED <<leaseVars, live, hb, rp, claimVars, accepted, raced>>

\* drain, maintenance and resume
SetState(w, s) ==
    /\ wstate[w] # "absent"
    /\ Operate(w, s)
    /\ UNCHANGED <<leaseVars, live, hb, rp, claimVars, accepted, raced>>

\* Mutation of NewLease: the lease id is not advanced.
NewLeaseSameId(w, r, f) ==
    /\ nextId <= MaxLeases
    /\ lease' = [lease EXCEPT ![nextId] = [run |-> r, worker |-> w, fence |-> f]]
    /\ nextId' = nextId
    /\ live' = live \cup {nextId}
    /\ UNCHANGED wstate

\* A new lease row, and the worker busy once it holds Capacity of them.
NewLease(w, r, f) ==
    /\ nextId <= MaxLeases
    /\ lease' = [lease EXCEPT ![nextId] = [run |-> r, worker |-> w, fence |-> f]]
    /\ nextId' = nextId + 1
    /\ live' = live \cup {nextId}
    /\ wstate' = IF Cardinality(LeasesOf(w)) + 1 >= Capacity
                 THEN [wstate EXCEPT ![w] = "busy"]
                 ELSE wstate

\* grant through the API, for a run that was not leased before
Grant(w, r) ==
    /\ r \notin granted
    /\ wstate[w] = "ready"
    /\ NewLease(w, r, 1)
    /\ granted' = granted \cup {r}
    /\ UNCHANGED <<ops, hb, rp, claimVars, accepted, raced>>

---------------------------------------------------------------------------
\* heartbeat: the daemon lists its leases, the registry reads the worker row,
\* re-reads and rewrites each lease, and writes the worker row back.

HeartbeatStart(w) ==
    /\ hb[w].pc = "idle"
    /\ wstate[w] # "absent"
    /\ hb' = [hb EXCEPT ![w] = [pc |-> "renew", ids |-> LeasesOf(w), id |-> 0,
                                snap |-> wstate[w]]]
    /\ UNCHANGED <<opVars, leaseVars, live, rp, claimVars, accepted, raced>>

HeartbeatGet(w, i) ==
    /\ hb[w].pc = "renew"
    /\ i \in hb[w].ids
    /\ hb' = [hb EXCEPT ![w] = [pc   |-> IF i \in live THEN "put" ELSE "renew",
                                ids  |-> hb[w].ids \ {i},
                                id   |-> IF i \in live THEN i ELSE 0,
                                snap |-> hb[w].snap]]
    /\ UNCHANGED <<opVars, leaseVars, live, rp, claimVars, accepted, raced>>

\* save_lease is an upsert: a row removed since the read comes back.
HeartbeatPut(w) ==
    /\ hb[w].pc = "put"
    /\ live' = live \cup {hb[w].id}
    /\ hb' = [hb EXCEPT ![w] = [pc |-> "renew", ids |-> hb[w].ids, id |-> 0,
                                snap |-> hb[w].snap]]
    /\ UNCHANGED <<opVars, leaseVars, rp, claimVars, accepted, raced>>

HeartbeatEnd(w) ==
    /\ hb[w].pc = "renew"
    /\ hb[w].ids = {}
    /\ \E load \in {"busy", "ready"} :
         wstate' = [wstate EXCEPT ![w] = Sticky(hb[w].snap, load)]
    /\ hb' = [hb EXCEPT ![w] = Idle]
    /\ UNCHANGED <<ops, leaseVars, live, rp, claimVars, accepted, raced>>

---------------------------------------------------------------------------
\* WorkerDaemon.tick: run a lease, then report it under its fence.

TickStart(w, i) ==
    /\ rp[w].pc = "idle"
    /\ i \in LeasesOf(w)
    /\ accepted[lease[i].run] < MaxReports
    /\ rp' = [rp EXCEPT ![w] = [pc |-> "run", id |-> i]]
    /\ UNCHANGED <<opVars, leaseVars, live, hb, claimVars, accepted, raced>>

\* Mutation of ReportGet: a report whose lease is gone is accepted.
ReportGetUnfenced(w) ==
    /\ rp[w].pc = "run"
    /\ rp' = [rp EXCEPT ![w].pc = "delete"]
    /\ UNCHANGED <<opVars, leaseVars, live, hb, claimVars, accepted, raced>>

\* report reads the lease: a missing one is a StaleLeaseError.  (A lease row never
\* changes its fence, so a fence mismatch is a missing row.)
ReportGet(w) ==
    /\ rp[w].pc = "run"
    /\ rp' = [rp EXCEPT ![w] = IF rp[w].id \in live
                               THEN [pc |-> "delete", id |-> rp[w].id]
                               ELSE [pc |-> "idle", id |-> 0]]
    /\ UNCHANGED <<opVars, leaseVars, live, hb, claimVars, accepted, raced>>

\* ... and deletes it in a second transaction.
ReportDelete(w) ==
    /\ rp[w].pc = "delete"
    /\ LET i == rp[w].id
           r == lease[i].run IN
         /\ live' = live \ {i}
         /\ accepted' = [accepted EXCEPT ![r] = @ + 1]
         /\ raced' = IF Renewing(i) THEN raced \cup {r} ELSE raced
    /\ wstate' = [wstate EXCEPT ![w] = Sticky(@, "ready")]
    /\ rp' = [rp EXCEPT ![w] = [pc |-> "idle", id |-> 0]]
    /\ UNCHANGED <<ops, leaseVars, hb, claimVars>>

---------------------------------------------------------------------------
\* reclaim and deregister

CanStart(c) == todo[c] = {} /\ held[c] = 0

\* A leader's cycle: mark_unhealthy, then reclaim lists every lease and compares
\* its expiry with the clock.  `silent' are the workers not seen since the cutoff.
ReclaimStart(c) ==
    /\ CanStart(c)
    /\ \E silent \in SUBSET Workers :
         wstate' = [w \in Workers |->
                      IF w \in silent /\ wstate[w] \notin {"absent", "deregistered", "maintenance"}
                      THEN "unhealthy" ELSE wstate[w]]
    /\ \E expired \in SUBSET live : due' = [due EXCEPT ![c] = expired]
    /\ todo' = [todo EXCEPT ![c] = live]
    /\ UNCHANGED <<ops, leaseVars, live, hb, rp, held, target, accepted, raced>>

\* deregister: every lease of the worker is claimed and reassigned.
Deregister(c, w) ==
    /\ CanStart(c)
    /\ wstate[w] # "absent"
    /\ Operate(w, "deregistered")
    /\ todo' = [todo EXCEPT ![c] = LeasesOf(w)]
    /\ due' = [due EXCEPT ![c] = LeasesOf(w)]
    /\ UNCHANGED <<leaseVars, live, hb, rp, held, target, accepted, raced>>

Takes(c, i) == i \in due[c] \/ wstate[lease[i].worker] = "unhealthy"

\* Mutation of Visit: the lease is taken without claiming its row.
VisitWithoutClaim(c, i) ==
    /\ held[c] = 0
    /\ i \in todo[c]
    /\ todo' = [todo EXCEPT ![c] = @ \ {i}]
    /\ due' = [due EXCEPT ![c] = @ \ {i}]
    /\ IF Takes(c, i)
       THEN /\ live' = live \ {i}
            /\ held' = [held EXCEPT ![c] = i]
       ELSE UNCHANGED <<live, held>>
    /\ UNCHANGED <<opVars, leaseVars, hb, rp, target, accepted, raced>>

\* The loop visits a lease: it is left alone, found already claimed, or claimed
\* (claim_lease removes and returns the row in one transaction).
Visit(c, i) ==
    /\ held[c] = 0
    /\ i \in todo[c]
    /\ todo' = [todo EXCEPT ![c] = @ \ {i}]
    /\ due' = [due EXCEPT ![c] = @ \ {i}]
    /\ IF Takes(c, i) /\ i \in live
       THEN /\ live' = live \ {i}
            /\ held' = [held EXCEPT ![c] = i]
            /\ raced' = IF Renewing(i) \/ Reporting(i)
                        THEN raced \cup {lease[i].run} ELSE raced
       ELSE UNCHANGED <<live, held, raced>>
    /\ UNCHANGED <<opVars, leaseVars, hb, rp, target, accepted>>

\* _find_ready
Ready(w, i) ==
    /\ w # lease[i].worker
    /\ wstate[w] = "ready"
    /\ Cardinality(LeasesOf(w)) < Capacity

Release(c) ==
    /\ held' = [held EXCEPT ![c] = 0]
    /\ target' = [target EXCEPT ![c] = "none"]

FindReady(c, w) ==
    /\ held[c] # 0
    /\ target[c] = "none"
    /\ Ready(w, held[c])
    /\ target' = [target EXCEPT ![c] = w]
    /\ UNCHANGED <<opVars, leaseVars, live, hb, rp, todo, due, held,
                   accepted, raced>>

\* No ready worker: _reassign returns None and the claimed lease is forgotten.
FindNone(c) ==
    /\ held[c] # 0
    /\ target[c] = "none"
    /\ \A w \in Workers : ~Ready(w, held[c])
    /\ Release(c)
    /\ UNCHANGED <<opVars, leaseVars, live, hb, rp, todo, due, accepted,
                   raced>>

\* Mutation of Reassign: the new lease carries the old fence.
ReassignSameFence(c) ==
    /\ held[c] # 0
    /\ target[c] # "none"
    /\ wstate[target[c]] = "ready"
    /\ NewLease(target[c], lease[held[c]].run, lease[held[c]].fence)
    /\ Release(c)
    /\ UNCHANGED <<ops, granted, hb, rp, todo, due, accepted, raced>>

\* grant to the worker found, with attempt and fence one higher
Reassign(c) ==
    /\ held[c] # 0
    /\ target[c] # "none"
    /\ wstate[target[c]] = "ready"
    /\ NewLease(target[c], lease[held[c]].run, lease[held[c]].fence + 1)
    /\ Release(c)
    /\ UNCHANGED <<ops, granted, hb, rp, todo, due, accepted, raced>>

\* ... which raises WorkerNotReadyError when the worker has changed state since:
\* the whole pass ends, the claimed lease and the unvisited ones with it.
ReassignRaises(c) ==
    /\ held[c] # 0
    /\ target[c] # "none"
    /\ wstate[target[c]] # "ready"
    /\ Release(c)
    /\ todo' = [todo EXCEPT ![c] = {}]
    /\ due' = [due EXCEPT ![c] = {}]
    /\ UNCHANGED <<opVars, leaseVars, live, hb, rp, accepted, raced>>

---------------------------------------------------------------------------
WorkerStep(w) ==
    \/ Register(w)
    \/ \E s \in {"draining", "maintenance", "ready"} : SetState(w, s)
    \/ \E r \in Runs : Grant(w, r)
    \/ HeartbeatStart(w) \/ HeartbeatPut(w) \/ HeartbeatEnd(w)
    \/ ReportGet(w) \/ ReportDelete(w)
    \/ \E i \in Ids : HeartbeatGet(w, i) \/ TickStart(w, i)

ClaimerStep(c) ==
    \/ ReclaimStart(c) \/ FindNone(c) \/ Reassign(c) \/ ReassignRaises(c)
    \/ \E w \in Workers : Deregister(c, w) \/ FindReady(c, w)
    \/ \E i \in Ids : Visit(c, i)

Next ==
    \/ \E w \in Workers : WorkerStep(w)
    \/ \E c \in Claimers : ClaimerStep(c)

Spec == Init /\ [][Next]_vars

---------------------------------------------------------------------------
TypeOK ==
    /\ wstate \in [Workers -> States]
    /\ lease \in [Ids -> [run : Runs \cup {"none"}, worker : Workers \cup {"none"},
                          fence : Nat]]
    /\ nextId \in 1..(MaxLeases + 1)
    /\ live \subseteq 1..(nextId - 1)
    /\ granted \subseteq Runs
    /\ ops \in Nat
    /\ hb \in [Workers -> [pc : {"idle", "renew", "put"}, ids : SUBSET Ids,
                           id : 0..MaxLeases, snap : States]]
    /\ rp \in [Workers -> [pc : {"idle", "run", "delete"}, id : 0..MaxLeases]]
    /\ todo \in [Claimers -> SUBSET Ids]
    /\ due \in [Claimers -> SUBSET Ids]
    /\ held \in [Claimers -> 0..MaxLeases]
    /\ target \in [Claimers -> Workers \cup {"none"}]
    /\ accepted \in [Runs -> Nat]
    /\ raced \subseteq Runs

\* However reclaim cycles of several replicas, deregistrations, heartbeats and
\* reports interleave, a run has at most one lease row; the one exception is a
\* row removed under a heartbeat that has read it and writes it back.
SingleLease ==
    \A i, j \in live : lease[i].run = lease[j].run /\ lease[i].run \notin raced => i = j

\* Each attempt of a run carries a higher fence: the lease in the table has the
\* newest of all fences its run was ever granted.
NewestFence ==
    \A i \in live : \A j \in 1..(nextId - 1) :
        lease[j].run = lease[i].run /\ lease[i].run \notin raced /\ i # j
            => lease[j].fence < lease[i].fence

\* A report is accepted once per run, and a run that was reported is not handed
\* out again: the exceptions are a removal between the report's read and its
\* delete, and a heartbeat that writes the row back.
CompletedOnce ==
    \A r \in Runs \ raced :
        /\ accepted[r] <= 1
        /\ accepted[r] = 1 => \A i \in live : lease[i].run # r

\* reclaim: "Requeue expired/unhealthy leases to healthy workers": a leased run that
\* was not reported is in the table or in the hands of a claimer.
NoRunLost ==
    \A r \in granted :
        \/ accepted[r] > 0
        \/ \E i \in live : lease[i].run = r
        \/ \E c \in Claimers : held[c] # 0 /\ lease[held[c]].run = r
=============================================================================
