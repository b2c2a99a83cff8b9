-------------------------- MODULE LeaderElection --------------------------
(***************************************************************************)
(* Leader election between control-plane replicas: the lease row of        *)
(* ha/store.py, the LeaderElector of ha/leader.py, and the leader-gated    *)
(* cycles of api/app.py and api/workers.py that rely on it.                *)
(*                                                                         *)
(* The store serialises try_acquire, renew and release on the row (SELECT  *)
(* ... FOR UPDATE), so each is one step.  The clock is read by the caller  *)
(* before the transaction starts: a transaction may therefore use a time   *)
(* older than the time at which it takes effect, but never older than the  *)
(* start of the cycle, which `since' records.                              *)
(***************************************************************************)
EXTENDS Integers

CONSTANTS
    Replicas,   \* the control-plane replicas
    TTL,        \* LeaderElector._ttl, in clock ticks
    MaxTime,    \* bound on the clock
    MaxEpoch    \* bound on the number of acquisitions

ASSUME ReplicasAssumption == {"none", "released", "gone"} \cap Replicas = {}
ASSUME TTLAssumption      == TTL \in Nat \ {0}
ASSUME BoundsAssumption   == MaxTime \in Nat /\ MaxEpoch \in Nat

VARIABLES
    row,        \* LeaderLeaseRow: leader_id, epoch, expires_at
    now,        \* the wall clock
    pc,         \* where each replica is in its leader-gated cycle
    since,      \* the clock when the replica entered that place
    fence,      \* the epoch under which the replica runs its cycle, 0 outside one
    owner       \* history: the replica each epoch was handed to

vars == <<row, now, pc, since, fence, owner>>

\* A missing row and a released one behave alike: get returns None and the next
\* try_acquire takes epoch + 1.  "gone" is the identity of a crashed process.
Holders == Replicas \cup {"released", "gone"}

Places == {"idle", "leader", "standby", "acting"}

Init ==
    /\ row = [leader |-> "released", epoch |-> 0, expires |-> 0]
    /\ now = 0
    /\ pc = [r \in Replicas |-> "idle"]
    /\ since = [r \in Replicas |-> 0]
    /\ fence = [r \in Replicas |-> 0]
    /\ owner = [e \in 1..MaxEpoch |-> "none"]

\* LeaderElector.is_leader
IsLeader(r) == row.leader = r /\ row.expires > now

\* LeaderElector.check_fence does not raise
FenceLive(e) == row.leader # "released" /\ row.epoch = e /\ row.expires > now

GoTo(r, place) ==
    /\ pc' = [pc EXCEPT ![r] = place]
    /\ since' = [since EXCEPT ![r] = now]

---------------------------------------------------------------------------
\* run_worker_reclaim_cycle starts: the replica asks is_leader and goes on to
\* renew or to acquire.
StartCycle(r) ==
    /\ pc[r] = "idle"
    /\ GoTo(r, IF IsLeader(r) THEN "leader" ELSE "standby")
    /\ fence' = [fence EXCEPT ![r] = IF IsLeader(r) THEN row.epoch ELSE 0]
    /\ UNCHANGED <<row, now, owner>>

\* LeaderElector.run_cycle: the lease is read once, and the action runs under
\* the epoch that was read.
RunCycle(r) ==
    /\ pc[r] = "idle"
    /\ IsLeader(r)
    /\ GoTo(r, "acting")
    /\ fence' = [fence EXCEPT ![r] = row.epoch]
    /\ UNCHANGED <<row, now, owner>>

\* Mutation of Renew: the TTL is added to the old expiry instead of the clock.
RenewAccumulates(r) ==
    /\ pc[r] = "leader"
    /\ \E t \in since[r]..now :
         row' = IF row.leader # r \/ row.expires <= t
                THEN row
                ELSE [row EXCEPT !.expires = @ + TTL]
    /\ GoTo(r, "acting")
    /\ UNCHANGED <<now, fence, owner>>

\* LeaderElector.renew, called by a cycle that found itself the leader.  The
\* cycle ignores the result and acts whether or not the lease was renewed.
Renew(r) ==
    /\ pc[r] = "leader"
    /\ \E t \in since[r]..now :
         row' = IF row.leader # r \/ row.expires <= t
                THEN row
                ELSE [row EXCEPT !.expires = t + TTL]
    /\ GoTo(r, "acting")
    /\ UNCHANGED <<now, fence, owner>>

\* Mutation of Held: the lease counts as expired one tick early.
HeldShort(r, t) == row.leader # "released" /\ row.expires > t + 1 /\ row.leader # r

\* try_acquire refuses while somebody else holds an unexpired lease.
Held(r, t) == row.leader # "released" /\ row.expires > t /\ row.leader # r

AcquireRefused(r) ==
    /\ pc[r] = "standby"
    /\ \E t \in since[r]..now : Held(r, t)
    /\ GoTo(r, "idle")
    /\ UNCHANGED <<row, now, fence, owner>>

\* Mutation of Acquire: a takeover keeps the epoch of the leader it replaces.
AcquireKeepsEpoch(r) ==
    LET e == IF row.epoch = 0 THEN 1 ELSE row.epoch IN
    /\ pc[r] = "standby"
    /\ e <= MaxEpoch
    /\ \E t \in since[r]..now :
         /\ ~Held(r, t)
         /\ row' = [leader |-> r, epoch |-> e, expires |-> t + TTL]
    /\ owner' = [owner EXCEPT ![e] = r]
    /\ fence' = [fence EXCEPT ![r] = e]
    /\ GoTo(r, "acting")
    /\ UNCHANGED now

\* LeaderElector.acquire succeeds: the epoch moves on and the cycle acts.
Acquire(r) ==
    /\ pc[r] = "standby"
    /\ row.epoch < MaxEpoch
    /\ \E t \in since[r]..now :
         /\ ~Held(r, t)
         /\ row' = [leader |-> r, epoch |-> row.epoch + 1, expires |-> t + TTL]
    /\ owner' = [owner EXCEPT ![row.epoch + 1] = r]
    /\ fence' = [fence EXCEPT ![r] = row.epoch + 1]
    /\ GoTo(r, "acting")
    /\ UNCHANGED now

EndCycle(r) ==
    /\ pc[r] = "acting"
    /\ GoTo(r, "idle")
    /\ fence' = [fence EXCEPT ![r] = 0]
    /\ UNCHANGED <<row, now, owner>>

\* Mutation of Release: the row is deleted, and the epoch with it.
ReleaseDeletesRow(r) ==
    /\ pc[r] = "idle"
    /\ row.leader = r
    /\ row' = [leader |-> "released", epoch |-> 0, expires |-> 0]
    /\ UNCHANGED <<now, pc, since, fence, owner>>

\* LeaderElector.release: the row becomes a tombstone that keeps the epoch.
Release(r) ==
    /\ pc[r] = "idle"
    /\ row.leader = r
    /\ row' = [row EXCEPT !.leader = "released", !.expires = 0]
    /\ UNCHANGED <<now, pc, since, fence, owner>>

\* The replica's process dies.  Its successor draws a fresh leader_id, so a lease
\* the dead process held belongs to nobody and can only expire.
Crash(r) ==
    /\ row' = IF row.leader = r THEN [row EXCEPT !.leader = "gone"] ELSE row
    /\ GoTo(r, "idle")
    /\ fence' = [fence EXCEPT ![r] = 0]
    /\ UNCHANGED <<now, owner>>

Tick ==
    /\ now < MaxTime
    /\ now' = now + 1
    /\ UNCHANGED <<row, pc, since, fence, owner>>

Next ==
    \/ \E r \in Replicas :
         \/ StartCycle(r) \/ RunCycle(r) \/ Renew(r) \/ AcquireRefused(r)
         \/ Acquire(r) \/ EndCycle(r) \/ Release(r) \/ Crash(r)
    \/ Tick

Spec == Init /\ [][Next]_vars

---------------------------------------------------------------------------
\* The types of the variables.  The lease row never points further into the
\* future than one TTL past the last tick of the clock.
TypeOK ==
    /\ row \in [leader : Holders, epoch : 0..MaxEpoch, expires : 0..(MaxTime + TTL)]
    /\ now \in 0..MaxTime
    /\ pc \in [Replicas -> Places]
    /\ since \in [Replicas -> 0..MaxTime]
    /\ fence \in [Replicas -> 0..MaxEpoch]
    /\ owner \in [1..MaxEpoch -> Replicas \cup {"none"}]

\* Two cycles may overlap (a cycle that outlives its lease, a renewal that came
\* too late), but at most one of them holds a fence that check_fence accepts: the
\* later leader took a later epoch, so the stale one is always told apart.
FenceExclusive ==
    \A r, s \in Replicas :
        (pc[r] = "acting" /\ pc[s] = "acting" /\ r # s)
            => ~(FenceLive(fence[r]) /\ FenceLive(fence[s]))

\* A leader that dies blocks the standbys for at most one TTL: no sequence of
\* renewals, late ones included, pushes the expiry of the lease further than
\* that past the present.
FailoverBounded == row.expires <= now + TTL

\* An unexpired lease is never taken from its holder by another replica, however
\* stale the clock value its try_acquire carries; it is the holder's to renew,
\* to take again or to release.
NoUsurpation ==
    [][row.leader # "released" /\ row.expires > now
         => \/ row'.epoch = row.epoch
            \/ row'.leader = row.leader]_vars

\* The lease row hands out epochs the way FencedLock promises.
Lock == INSTANCE FencedLock WITH epoch <- row.epoch

ImplementsFencedLock == Lock!Spec

=============================================================================
