----------------------- MODULE LeaderElectionProofs -----------------------
(***************************************************************************)
(* Proofs about LeaderElection, for any set of replicas, any TTL and any   *)
(* bounds: the types, the exclusive fence, the bounded failover, that a    *)
(* live lease is not usurped, and that the lease row implements            *)
(* FencedLock.                                                             *)
(***************************************************************************)
EXTENDS LeaderElection, TLAPS

USE DEF Holders, Places

\* A clock value read in a cycle is not from the future.
SinceBounded == \A r \in Replicas : since[r] <= now

\* The holder of the row was handed its epoch.
LeaderOwnsEpoch ==
    row.leader \in Replicas => row.epoch > 0 /\ owner[row.epoch] = row.leader

\* A replica's fence is an epoch that was handed to that replica.
FenceOwned ==
    \A r \in Replicas : fence[r] # 0 => fence[r] <= row.epoch /\ owner[fence[r]] = r

\* A replica past the leader check has a fence.
ActingFenced ==
    \A r \in Replicas : pc[r] \in {"leader", "acting"} => fence[r] # 0

\* The inductive invariant.
IInv ==
    /\ TypeOK
    /\ SinceBounded
    /\ FailoverBounded
    /\ LeaderOwnsEpoch
    /\ FenceOwned
    /\ ActingFenced

---------------------------------------------------------------------------
\* The initial lease row, clock and electors satisfy the invariant.
LEMMA InitIInv == Init => IInv
  BY ReplicasAssumption, TTLAssumption, BoundsAssumption
     DEF Init, IInv, TypeOK, SinceBounded, FailoverBounded, LeaderOwnsEpoch,
         FenceOwned, ActingFenced

\* Every step keeps the types: the bound on the row's expiry holds because a
\* transaction uses a clock value that has already passed.
LEMMA TypeStep == IInv /\ [Next]_vars => TypeOK'
  <1> SUFFICES ASSUME IInv, [Next]_vars PROVE TypeOK'
    BY Zenon
  <1> USE ReplicasAssumption, TTLAssumption, BoundsAssumption DEF IInv, TypeOK, SinceBounded
  <1>1. ASSUME NEW r \in Replicas, StartCycle(r) PROVE TypeOK'
    BY <1>1 DEF StartCycle, GoTo, IsLeader
  <1>2. ASSUME NEW r \in Replicas, RunCycle(r) PROVE TypeOK'
    BY <1>2, Zenon DEF RunCycle, GoTo
  <1>3. ASSUME NEW r \in Replicas, Renew(r) PROVE TypeOK'
    <2>1. PICK t \in since[r]..now :
            row' = IF row.leader # r \/ row.expires <= t THEN row
                   ELSE [row EXCEPT !.expires = t + TTL]
      BY <1>3, Zenon DEF Renew
    <2>2. t + TTL \in 0..(MaxTime + TTL)
      OBVIOUS
    <2>3. row' \in [leader : Holders, epoch : 0..MaxEpoch, expires : 0..(MaxTime + TTL)]
      BY <2>1, <2>2, Zenon
    <2> QED
      BY <1>3, <2>3, Zenon DEF Renew, GoTo
  <1>4. ASSUME NEW r \in Replicas, AcquireRefused(r) PROVE TypeOK'
    BY <1>4, Zenon DEF AcquireRefused, GoTo
  <1>5. ASSUME NEW r \in Replicas, Acquire(r) PROVE TypeOK'
    <2>1. PICK t \in since[r]..now :
            row' = [leader |-> r, epoch |-> row.epoch + 1, expires |-> t + TTL]
      BY <1>5, Zenon DEF Acquire
    <2>2. t + TTL \in 0..(MaxTime + TTL) /\ row.epoch + 1 \in 1..MaxEpoch
      BY <1>5, SMTT(20) DEF Acquire
    <2>3. row' \in [leader : Holders, epoch : 0..MaxEpoch, expires : 0..(MaxTime + TTL)]
      BY <2>1, <2>2
    <2>4. fence' \in [Replicas -> 0..MaxEpoch] /\ owner' \in [1..MaxEpoch -> Replicas \cup {"none"}]
      BY <1>5, <2>2, SMTT(20) DEF Acquire
    <2>5. pc' \in [Replicas -> Places] /\ since' \in [Replicas -> 0..MaxTime] /\ now' = now
      BY <1>5, Zenon DEF Acquire, GoTo
    <2> QED
      BY <2>3, <2>4, <2>5, Zenon
  <1>6. ASSUME NEW r \in Replicas, EndCycle(r) PROVE TypeOK'
    BY <1>6 DEF EndCycle, GoTo
  <1>7. ASSUME NEW r \in Replicas, Release(r) PROVE TypeOK'
    <2>1. row' = [row EXCEPT !.leader = "released", !.expires = 0] /\ 0 \in 0..(MaxTime + TTL)
      BY <1>7 DEF Release
    <2>2. row' \in [leader : Holders, epoch : 0..MaxEpoch, expires : 0..(MaxTime + TTL)]
      BY <2>1, Zenon
    <2> QED
      BY <1>7, <2>2, Zenon DEF Release
  <1>8. ASSUME NEW r \in Replicas, Crash(r) PROVE TypeOK'
    <2>1. row' = row \/ row' = [row EXCEPT !.leader = "gone"]
      BY <1>8, Zenon DEF Crash
    <2>2. row' \in [leader : Holders, epoch : 0..MaxEpoch, expires : 0..(MaxTime + TTL)]
      BY <2>1, Zenon
    <2> QED
      BY <1>8, <2>2 DEF Crash, GoTo
  <1>9. CASE Tick
    BY <1>9 DEF Tick
  <1>10. CASE UNCHANGED vars
    BY <1>10, Zenon DEF vars
  <1> QED
    BY <1>1, <1>2, <1>3, <1>4, <1>5, <1>6, <1>7, <1>8, <1>9, <1>10, Zenon DEF Next

\* Every step keeps the clock facts: no cycle holds a clock value from the future,
\* and no renewal pushes the expiry further than a TTL past the present.
LEMMA ClockStep == IInv /\ [Next]_vars => SinceBounded' /\ FailoverBounded'
  <1> SUFFICES ASSUME IInv, [Next]_vars PROVE SinceBounded' /\ FailoverBounded'
    BY Zenon
  <1> USE TTLAssumption, BoundsAssumption DEF IInv, TypeOK, SinceBounded, FailoverBounded
  <1>1. ASSUME NEW r \in Replicas, NEW place, GoTo(r, place), now' = now
        PROVE SinceBounded'
    <2> SUFFICES ASSUME NEW s \in Replicas PROVE since'[s] <= now
      BY <1>1, Zenon
    <2>1. since'[s] = now \/ since'[s] = since[s]
      BY <1>1, Zenon DEF GoTo
    <2> QED
      BY <2>1, SMTT(20)
  <1>2. ASSUME NEW r \in Replicas,
               StartCycle(r) \/ RunCycle(r) \/ AcquireRefused(r) \/ EndCycle(r) \/ Crash(r)
        PROVE SinceBounded' /\ FailoverBounded'
    <2>1. now' = now /\ \E place : GoTo(r, place)
      BY <1>2, Zenon DEF StartCycle, RunCycle, AcquireRefused, EndCycle, Crash
    <2>2. row'.expires = row.expires
      BY <1>2 DEF StartCycle, RunCycle, AcquireRefused, EndCycle, Crash
    <2> QED
      BY <1>1, <2>1, <2>2, Zenon
  <1>3. ASSUME NEW r \in Replicas, Renew(r) \/ Acquire(r)
        PROVE SinceBounded' /\ FailoverBounded'
    <2>1. now' = now /\ \E place : GoTo(r, place)
      BY <1>3, Zenon DEF Renew, Acquire
    <2>2. PICK t \in since[r]..now : row' = row \/ row'.expires = t + TTL
      BY <1>3 DEF Renew, Acquire
    <2> QED
      BY <1>1, <2>1, <2>2
  <1>4. ASSUME NEW r \in Replicas, Release(r) PROVE SinceBounded' /\ FailoverBounded'
    <2>1. row'.expires = 0 /\ now' = now /\ since' = since
      BY <1>4, Zenon DEF Release
    <2> QED
      BY <2>1
  <1>5. CASE Tick
    <2>1. row' = row /\ since' = since /\ now' = now + 1
      BY <1>5, Zenon DEF Tick
    <2> QED
      BY <2>1
  <1>6. CASE UNCHANGED vars
    BY <1>6, Zenon DEF vars
  <1> QED
    BY <1>2, <1>3, <1>4, <1>5, <1>6, Zenon DEF Next

\* Every step keeps the ownership facts: an epoch is handed out once, to the replica
\* that takes it as its fence.
LEMMA OwnerStep == IInv /\ [Next]_vars => LeaderOwnsEpoch' /\ FenceOwned' /\ ActingFenced'
  <1> DEFINE Owned == LeaderOwnsEpoch /\ FenceOwned /\ ActingFenced
  <1> SUFFICES ASSUME IInv, [Next]_vars PROVE Owned'
    BY Zenon
  <1> USE ReplicasAssumption, BoundsAssumption
      DEF IInv, TypeOK, LeaderOwnsEpoch, FenceOwned, ActingFenced
  <1>1. ASSUME NEW r \in Replicas, StartCycle(r) PROVE Owned'
    BY <1>1 DEF StartCycle, GoTo, IsLeader
  <1>2. ASSUME NEW r \in Replicas, RunCycle(r) PROVE Owned'
    BY <1>2 DEF RunCycle, GoTo, IsLeader
  <1>3. ASSUME NEW r \in Replicas, Renew(r) PROVE Owned'
    <2>1. row'.leader = row.leader /\ row'.epoch = row.epoch
      BY <1>3, Zenon DEF Renew
    <2> QED
      BY <1>3, <2>1, Zenon DEF Renew, GoTo
  <1>4. ASSUME NEW r \in Replicas, AcquireRefused(r) PROVE Owned'
    BY <1>4, Zenon DEF AcquireRefused, GoTo
  <1>5. ASSUME NEW r \in Replicas, Acquire(r) PROVE Owned'
    <2>1. row'.leader = r /\ row'.epoch = row.epoch + 1 /\ row.epoch + 1 \in 1..MaxEpoch
      BY <1>5 DEF Acquire
    <2>2. owner' = [owner EXCEPT ![row.epoch + 1] = r]
          /\ fence' = [fence EXCEPT ![r] = row.epoch + 1]
          /\ pc' = [pc EXCEPT ![r] = "acting"]
      BY <1>5, Zenon DEF Acquire, GoTo
    <2>3. LeaderOwnsEpoch'
      BY <2>1, <2>2
    <2>4. FenceOwned'
      <3> SUFFICES ASSUME NEW s \in Replicas, fence'[s] # 0
                   PROVE fence'[s] <= row'.epoch /\ owner'[fence'[s]] = s
        BY Zenon
      <3>1. CASE s = r
        BY <3>1, <2>1, <2>2
      <3>2. CASE s # r
        <4>1. fence'[s] = fence[s] /\ fence[s] \in 1..MaxEpoch
          BY <3>2, <2>2
        <4>2. fence[s] <= row.epoch /\ owner[fence[s]] = s
          BY <4>1, Zenon
        <4>3. owner'[fence[s]] = owner[fence[s]]
          BY <4>1, <4>2, <2>1, <2>2
        <4> QED
          BY <4>1, <4>2, <4>3, <2>1
      <3> QED
        BY <3>1, <3>2, Zenon
    <2>5. ActingFenced'
      BY <2>1, <2>2
    <2> QED
      BY <2>3, <2>4, <2>5, Zenon
  <1>6. ASSUME NEW r \in Replicas, EndCycle(r) PROVE Owned'
    BY <1>6, Zenon DEF EndCycle, GoTo
  <1>7. ASSUME NEW r \in Replicas, Release(r) PROVE Owned'
    BY <1>7, Zenon DEF Release
  <1>8. ASSUME NEW r \in Replicas, Crash(r) PROVE Owned'
    BY <1>8, Zenon DEF Crash, GoTo
  <1>9. CASE Tick
    BY <1>9, Zenon DEF Tick
  <1>10. CASE UNCHANGED vars
    BY <1>10, Zenon DEF vars
  <1> QED
    BY <1>1, <1>2, <1>3, <1>4, <1>5, <1>6, <1>7, <1>8, <1>9, <1>10, Zenon DEF Next

\* Only an acquisition changes the epoch or its owners.
LEMMA EpochStep ==
    ASSUME TypeOK, [Next]_vars
    PROVE  \/ row'.epoch = row.epoch /\ owner' = owner
           \/ \E r \in Replicas : Acquire(r)
  <1> USE DEF TypeOK
  <1>1. ASSUME NEW r \in Replicas,
               StartCycle(r) \/ RunCycle(r) \/ AcquireRefused(r) \/ EndCycle(r)
        PROVE row' = row /\ owner' = owner
    BY <1>1, Zenon DEF StartCycle, RunCycle, AcquireRefused, EndCycle
  <1>2. ASSUME NEW r \in Replicas, Renew(r) PROVE row'.epoch = row.epoch /\ owner' = owner
    BY <1>2, Zenon DEF Renew
  <1>3. ASSUME NEW r \in Replicas, Release(r) PROVE row'.epoch = row.epoch /\ owner' = owner
    BY <1>3, Zenon DEF Release
  <1>4. ASSUME NEW r \in Replicas, Crash(r) PROVE row'.epoch = row.epoch /\ owner' = owner
    BY <1>4, Zenon DEF Crash
  <1>5. CASE Tick \/ UNCHANGED vars
    BY <1>5, Zenon DEF Tick, vars
  <1> QED
    BY <1>1, <1>2, <1>3, <1>4, <1>5, Zenon DEF Next

\* IInv holds in every reachable state.
LEMMA Invariance == Spec => []IInv
  <1>1. IInv /\ [Next]_vars => IInv'
    BY TypeStep, ClockStep, OwnerStep, Zenon DEF IInv
  <1> QED
    BY InitIInv, <1>1, PTL DEF Spec

---------------------------------------------------------------------------
\* The lease row, the clock and the electors keep their types.
THEOREM TypeCorrect == Spec => []TypeOK
  <1>1. IInv => TypeOK
    BY Zenon DEF IInv
  <1> QED
    BY Invariance, <1>1, PTL

\* Of two overlapping cycles at most one holds the fence of the current epoch: both
\* fences would be the row's epoch, which was handed to one replica only.
THEOREM FenceExclusion == Spec => []FenceExclusive
  <1>1. IInv => FenceExclusive
    BY DEF IInv, FenceOwned, ActingFenced, FenceExclusive, FenceLive
  <1> QED
    BY Invariance, <1>1, PTL

\* A dead leader's lease expires within one TTL, whatever renewals came before.
THEOREM BoundedFailover == Spec => []FailoverBounded
  <1>1. IInv => FailoverBounded
    BY Zenon DEF IInv
  <1> QED
    BY Invariance, <1>1, PTL

\* No replica takes an unexpired lease from another: a stale clock value is older
\* than the present, so it can only make try_acquire refuse more often.
THEOREM LiveLeaseKept == Spec => NoUsurpation
  <1> DEFINE Kept == row.leader # "released" /\ row.expires > now
                       => row'.epoch = row.epoch \/ row'.leader = row.leader
  <1>1. IInv /\ [Next]_vars => [Kept]_vars
    <2> SUFFICES ASSUME IInv, Next, row.leader # "released", row.expires > now,
                        row'.epoch # row.epoch
                 PROVE row'.leader = row.leader
      BY Zenon
    <2> USE TTLAssumption, BoundsAssumption DEF IInv, TypeOK, SinceBounded
    <2>1. PICK r \in Replicas : Acquire(r)
      BY EpochStep, Zenon
    <2>2. PICK t \in since[r]..now : ~Held(r, t) /\ row'.leader = r
      BY <2>1 DEF Acquire
    <2>3. row.expires > t
      OBVIOUS
    <2> QED
      BY <2>2, <2>3, Zenon DEF Held
  <1> QED
    BY Invariance, <1>1, PTL DEF Spec, NoUsurpation

\* The lease row is a FencedLock: an acquisition elects the next epoch, every other
\* step leaves the epochs alone.
THEOREM RefinesFencedLock == Spec => ImplementsFencedLock
  <1>1. Init => Lock!Init
    BY DEF Init, Lock!Init
  <1>2. TypeOK /\ [Next]_vars => [Lock!Next]_(Lock!fvars)
    <2> SUFFICES ASSUME TypeOK, [Next]_vars PROVE Lock!Next \/ UNCHANGED Lock!fvars
      BY Zenon
    <2>1. ASSUME NEW r \in Replicas, Acquire(r) PROVE Lock!Next
      <3>1. row.epoch < MaxEpoch /\ row'.epoch = row.epoch + 1
            /\ owner' = [owner EXCEPT ![row.epoch + 1] = r]
        BY <2>1 DEF Acquire
      <3>2. Lock!Elect(r)
        BY <3>1, Zenon DEF Lock!Elect
      <3> QED
        BY <3>2, Zenon DEF Lock!Next
    <2> QED
      BY <2>1, EpochStep, Zenon DEF Lock!fvars
  <1> QED
    BY <1>1, <1>2, TypeCorrect, PTL DEF Spec, ImplementsFencedLock, Lock!Spec
=============================================================================
