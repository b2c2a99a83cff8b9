------------------------ MODULE WorkerLeasesProofs ------------------------
(***************************************************************************)
(* Proofs about WorkerLeases, for any workers, runs and claimers and any   *)
(* bounds: the types, and that a run has one lease, with the newest fence, *)
(* until it is reported once.                                              *)
(***************************************************************************)
EXTENDS WorkerLeases, TLAPS

Given == 1..(nextId - 1)

Unraced(i) == lease[i].run \notin raced

\* The leases that stand for a run: the rows of the table and the leases taken out
\* of it to be reassigned.
Tokens == live \cup {i \in Ids : \E c \in Claimers : held[c] = i}

\* Every lease id in flight names a lease that was granted, to the worker that
\* reports it.
GrantedIds ==
    /\ \A i \in Given : lease[i].run \in granted /\ lease[i].worker \in Workers
    /\ \A c \in Claimers : held[c] \in 0..(nextId - 1) /\ todo[c] \subseteq Given
    /\ \A w \in Workers : hb[w].ids \subseteq Given
    /\ \A w \in Workers : hb[w].pc = "put" => hb[w].id \in Given
    /\ \A w \in Workers : rp[w].pc # "idle" => rp[w].id \in Given /\ lease[rp[w].id].worker = w
    /\ \A r \in Runs \ granted : accepted[r] = 0

OneToken ==
    \A i, j \in Tokens : lease[i].run = lease[j].run /\ Unraced(i) => i = j

\* A lease taken out of the table is held by one claimer.
HeldApart ==
    \A c \in Claimers : held[c] # 0 /\ Unraced(held[c])
        => held[c] \notin live /\ \A d \in Claimers : held[d] = held[c] => d = c

NewestToken ==
    \A i \in Tokens : \A j \in Given :
        lease[j].run = lease[i].run /\ Unraced(i) /\ i # j => lease[j].fence < lease[i].fence

DoneOnce ==
    \A r \in Runs \ raced :
        accepted[r] <= 1 /\ (accepted[r] # 0 => \A i \in Tokens : lease[i].run # r)

\* A request about to write or delete a row finds it in the table, or its run is
\* marked.
PendingLive ==
    \A w \in Workers :
        /\ hb[w].pc = "put" /\ Unraced(hb[w].id) => hb[w].id \in live
        /\ rp[w].pc = "delete" /\ Unraced(rp[w].id) => rp[w].id \in live

TokenFacts == OneToken /\ HeldApart /\ NewestToken /\ DoneOnce /\ PendingLive

\* The inductive invariant.
IInv == TypeOK /\ GrantedIds /\ TokenFacts

---------------------------------------------------------------------------
\* The empty registry satisfies the invariant.
LEMMA InitIInv == Init => IInv
  <1> SUFFICES ASSUME Init PROVE IInv
    BY Zenon
  <1> USE RunsAssumption, WorkersAssumption, BoundsAssumption
      DEF Init, Ids, Idle, NoLease, States, Given
  <1>1. TypeOK
    BY DEF TypeOK
  <1>2. Tokens = {}
    BY DEF Tokens
  <1>3. GrantedIds
    BY DEF GrantedIds
  <1>4. OneToken /\ NewestToken /\ DoneOnce
    BY <1>2 DEF OneToken, NewestToken, DoneOnce
  <1>5. HeldApart /\ PendingLive
    BY Zenon DEF HeldApart, PendingLive
  <1> QED
    BY <1>1, <1>3, <1>4, <1>5, Zenon DEF IInv, TokenFacts

\* The ids handed out, and those of the rows in the table, are lease ids.
LEMMA IdRange ==
    ASSUME TypeOK
    PROVE  Given \subseteq Ids /\ live \subseteq Given /\ live \subseteq Ids
  <1> USE BoundsAssumption DEF TypeOK, Given, Ids
  <1>1. \A i \in Given : i \in Ids
    OBVIOUS
  <1> QED
    BY <1>1, Zenon

---------------------------------------------------------------------------
\* Types, action by action.

\* Operator requests keep the types: they only set a worker's state.
LEMMA TypeOperate ==
    ASSUME TypeOK, NEW w \in Workers,
           \/ Register(w)
           \/ \E s \in {"draining", "maintenance", "ready"} : SetState(w, s)
           \/ \E c \in Claimers : Deregister(c, w)
    PROVE  TypeOK'
  <1> USE BoundsAssumption DEF TypeOK, Ids, States, leaseVars, claimVars
  <1>1. CASE Register(w)
    BY <1>1 DEF Register, Operate
  <1>2. ASSUME NEW s \in {"draining", "maintenance", "ready"}, SetState(w, s) PROVE TypeOK'
    BY <1>2 DEF SetState, Operate
  <1>3. ASSUME NEW c \in Claimers, Deregister(c, w) PROVE TypeOK'
    <2>1. LeasesOf(w) \in SUBSET Ids
      BY IdRange, Zenon DEF LeasesOf
    <2>2. todo' \in [Claimers -> SUBSET Ids] /\ due' \in [Claimers -> SUBSET Ids]
      BY <1>3, <2>1, Zenon DEF Deregister
    <2> QED
      BY <1>3, <2>2, SMTT(20) DEF Deregister, Operate
  <1> QED
    BY <1>1, <1>2, <1>3, Zenon

\* A heartbeat keeps the types.
LEMMA TypeHeartbeat ==
    ASSUME TypeOK, GrantedIds, NEW w \in Workers,
           \/ HeartbeatStart(w) \/ HeartbeatPut(w) \/ HeartbeatEnd(w)
           \/ \E i \in Ids : HeartbeatGet(w, i)
    PROVE  TypeOK'
  <1> USE BoundsAssumption DEF TypeOK, Ids, States, leaseVars, opVars, claimVars
  <1> DEFINE HB == [pc : {"idle", "renew", "put"}, ids : SUBSET Ids,
                    id : 0..MaxLeases, snap : States]
  <1>1. CASE HeartbeatStart(w)
    <2>1. LeasesOf(w) \in SUBSET Ids
      BY IdRange, Zenon DEF LeasesOf
    <2>2. [pc |-> "renew", ids |-> LeasesOf(w), id |-> 0, snap |-> wstate[w]] \in HB
      BY <2>1
    <2>3. hb' \in [Workers -> HB]
      BY <1>1, <2>2, Zenon DEF HeartbeatStart
    <2> QED
      BY <1>1, <2>3, Zenon DEF HeartbeatStart
  <1>2. CASE HeartbeatPut(w)
    <2>1. [pc |-> "renew", ids |-> hb[w].ids, id |-> 0, snap |-> hb[w].snap] \in HB
      OBVIOUS
    <2>2. hb' \in [Workers -> HB]
      BY <1>2, <2>1, Zenon DEF HeartbeatPut
    <2>3. live' = live \cup {hb[w].id} /\ hb[w].id \in 1..(nextId - 1)
      BY <1>2, Zenon DEF HeartbeatPut, GrantedIds, Given
    <2> QED
      BY <1>2, <2>2, <2>3, Zenon DEF HeartbeatPut
  <1>3. CASE HeartbeatEnd(w)
    <2>1. Idle \in HB
      BY DEF Idle
    <2>2. hb' \in [Workers -> HB]
      BY <1>3, <2>1, Zenon DEF HeartbeatEnd
    <2>3. \A load \in {"busy", "ready"} : Sticky(hb[w].snap, load) \in States
      BY Zenon DEF Sticky
    <2>4. wstate' \in [Workers -> States]
      BY <1>3, <2>3 DEF HeartbeatEnd
    <2> QED
      BY <1>3, <2>2, <2>4, Zenon DEF HeartbeatEnd
  <1>4. ASSUME NEW i \in Ids, HeartbeatGet(w, i) PROVE TypeOK'
    <2>1. [pc |-> IF i \in live THEN "put" ELSE "renew", ids |-> hb[w].ids \ {i},
           id |-> IF i \in live THEN i ELSE 0, snap |-> hb[w].snap] \in HB
      OBVIOUS
    <2>2. hb' \in [Workers -> HB]
      BY <1>4, <2>1, Zenon DEF HeartbeatGet
    <2> QED
      BY <1>4, <2>2, Zenon DEF HeartbeatGet
  <1> QED
    BY <1>1, <1>2, <1>3, <1>4, Zenon

\* A tick and its report keep the types.
LEMMA TypeReport ==
    ASSUME TypeOK, GrantedIds, NEW w \in Workers,
           \/ ReportGet(w) \/ ReportDelete(w)
           \/ \E i \in Ids : TickStart(w, i)
    PROVE  TypeOK'
  <1> USE BoundsAssumption DEF TypeOK, Ids, States, leaseVars, opVars, claimVars
  <1>1. CASE ReportGet(w)
    BY <1>1 DEF ReportGet
  <1>2. CASE ReportDelete(w)
    <2>1. lease[rp[w].id].run \in Runs
      BY <1>2, Zenon DEF ReportDelete, GrantedIds, Given
    <2>2. accepted' \in [Runs -> Nat] /\ raced' \subseteq Runs /\ live' \subseteq live
      BY <1>2, <2>1 DEF ReportDelete
    <2>3. wstate' \in [Workers -> States]
      BY <1>2, Zenon DEF ReportDelete, Sticky
    <2>4. rp' \in [Workers -> [pc : {"idle", "run", "delete"}, id : 0..MaxLeases]]
      BY <1>2 DEF ReportDelete
    <2> QED
      BY <1>2, <2>2, <2>3, <2>4, Zenon DEF ReportDelete
  <1>3. ASSUME NEW i \in Ids, TickStart(w, i) PROVE TypeOK'
    BY <1>3, SMTT(20) DEF TickStart
  <1> QED
    BY <1>1, <1>2, <1>3, Zenon

\* Granting a lease keeps the types.
LEMMA TypeNewLease ==
    ASSUME TypeOK, NEW w \in Workers, NEW r \in Runs, NEW f \in Nat, NewLease(w, r, f)
    PROVE  /\ lease' \in [Ids -> [run : Runs \cup {"none"}, worker : Workers \cup {"none"},
                                  fence : Nat]]
           /\ nextId' = nextId + 1 /\ nextId' \in 1..(MaxLeases + 1)
           /\ live' = live \cup {nextId} /\ live' \subseteq 1..(nextId' - 1)
           /\ wstate' \in [Workers -> States]
  <1> USE BoundsAssumption DEF TypeOK, Ids, NewLease
  <1>1. wstate' \in [Workers -> States]
    BY Zenon DEF States
  <1>2. nextId \in Ids /\ nextId' = nextId + 1 /\ nextId' \in 1..(MaxLeases + 1)
    OBVIOUS
  <1>3. live' = live \cup {nextId} /\ live' \subseteq 1..(nextId' - 1)
    <2>1. \A i \in live \cup {nextId} : i \in 1..nextId
      OBVIOUS
    <2> QED
      BY <1>2, <2>1
  <1>4. [run |-> r, worker |-> w, fence |-> f]
          \in [run : Runs \cup {"none"}, worker : Workers \cup {"none"}, fence : Nat]
    BY Zenon
  <1> QED
    BY <1>1, <1>2, <1>3, <1>4, Zenon

\* What a new lease changes in the table: one row, under an id not used before.
LEMMA NewRow ==
    ASSUME TypeOK, NEW w \in Workers, NEW r \in Runs, NEW f \in Nat, NewLease(w, r, f)
    PROVE  /\ nextId' = nextId + 1 /\ nextId \in Ids /\ nextId \in Nat \ {0}
           /\ live' = live \cup {nextId}
           /\ Given' = Given \cup {nextId} /\ nextId \notin Given
           /\ \A j \in Given : lease'[j] = lease[j]
           /\ lease'[nextId].run = r /\ lease'[nextId].worker = w /\ lease'[nextId].fence = f
  <1>1. /\ nextId' = nextId + 1 /\ nextId \in Ids /\ nextId \in Nat \ {0}
        /\ live' = live \cup {nextId}
    BY BoundsAssumption DEF TypeOK, NewLease, Ids
  <1>2. Given' = Given \cup {nextId} /\ nextId \notin Given
    BY <1>1 DEF Given
  <1>3. lease' = [lease EXCEPT ![nextId] = [run |-> r, worker |-> w, fence |-> f]]
        /\ DOMAIN lease = Ids
    BY Zenon DEF NewLease, TypeOK
  <1>4. \A j \in Ids \ {nextId} : lease'[j] = lease[j]
    BY <1>3, Zenon
  <1>5. \A j \in Given : lease'[j] = lease[j]
    BY <1>2, <1>4, IdRange, Zenon
  <1>6. lease'[nextId] = [run |-> r, worker |-> w, fence |-> f]
    BY <1>1, <1>3, Zenon
  <1> QED
    BY <1>1, <1>2, <1>5, <1>6

\* Reclaim and deregister loops keep the types.
LEMMA TypeClaim ==
    ASSUME TypeOK, GrantedIds, NEW c \in Claimers,
           \/ ReclaimStart(c) \/ FindNone(c) \/ Reassign(c) \/ ReassignRaises(c)
           \/ \E w \in Workers : FindReady(c, w)
           \/ \E i \in Ids : Visit(c, i)
    PROVE  TypeOK'
  <1> USE BoundsAssumption DEF TypeOK, Ids, leaseVars, opVars, claimVars
  <1>1. CASE ReclaimStart(c)
    <2>1. wstate' \in [Workers -> States]
      BY <1>1, Zenon DEF ReclaimStart, States
    <2>2. due' \in [Claimers -> SUBSET Ids] /\ todo' \in [Claimers -> SUBSET Ids]
      BY <1>1 DEF ReclaimStart
    <2> QED
      BY <1>1, <2>1, <2>2, Zenon DEF ReclaimStart
  <1>2. CASE FindNone(c)
    BY <1>2 DEF FindNone, Release
  <1>3. CASE Reassign(c)
    <2>1. target[c] \in Workers /\ held[c] \in Given
      BY <1>3 DEF Reassign, GrantedIds, Given
    <2>2. lease[held[c]].run \in Runs /\ lease[held[c]].fence + 1 \in Nat
      <3>1. held[c] \in Ids /\ lease[held[c]].run \in granted
        BY <2>1, IdRange, Zenon DEF GrantedIds
      <3> QED
        BY <3>1
    <2>3. NewLease(target[c], lease[held[c]].run, lease[held[c]].fence + 1)
      BY <1>3, Zenon DEF Reassign
    <2>4. held' \in [Claimers -> 0..MaxLeases] /\ target' \in [Claimers -> Workers \cup {"none"}]
      BY <1>3 DEF Reassign, Release
    <2> QED
      BY <1>3, <2>1, <2>2, <2>3, <2>4, TypeNewLease, Zenon DEF Reassign
  <1>4. CASE ReassignRaises(c)
    BY <1>4 DEF ReassignRaises, Release
  <1>5. ASSUME NEW w \in Workers, FindReady(c, w) PROVE TypeOK'
    BY <1>5, Zenon DEF FindReady
  <1>6. ASSUME NEW i \in Ids, Visit(c, i) PROVE TypeOK'
    <2>1. todo' \in [Claimers -> SUBSET Ids] /\ due' \in [Claimers -> SUBSET Ids]
      BY <1>6, Zenon DEF Visit
    <2>2. lease[i].run \in Runs
      BY <1>6, Zenon DEF Visit, GrantedIds, Given
    <2>3. raced' \subseteq Runs
      BY <1>6, <2>2 DEF Visit
    <2>4. live' \subseteq live
      BY <1>6 DEF Visit
    <2>5. held' = held \/ held' = [held EXCEPT ![c] = i]
      BY <1>6, Zenon DEF Visit
    <2>6. held \in [Claimers -> 0..MaxLeases] /\ i \in 0..MaxLeases
      OBVIOUS
    <2>7. held' \in [Claimers -> 0..MaxLeases]
      BY ONLY <2>5, <2>6, Zenon
    <2> QED
      BY <1>6, <2>1, <2>3, <2>4, <2>7, Zenon DEF Visit
  <1> QED
    BY <1>1, <1>2, <1>3, <1>4, <1>5, <1>6, Zenon

\* Every step keeps the types.
LEMMA TypeStep == IInv /\ [Next]_vars => TypeOK'
  <1> SUFFICES ASSUME TypeOK, GrantedIds, [Next]_vars PROVE TypeOK'
    BY Zenon DEF IInv
  <1>1. ASSUME NEW w \in Workers, NEW r \in Runs, Grant(w, r) PROVE TypeOK'
    <2>1. NewLease(w, r, 1) /\ 1 \in Nat
      BY <1>1, Zenon DEF Grant
    <2> QED
      BY <1>1, <2>1, TypeNewLease, Zenon DEF Grant, TypeOK, claimVars
  <1>2. ASSUME NEW w \in Workers, WorkerStep(w) PROVE TypeOK'
    BY <1>1, <1>2, TypeOperate, TypeHeartbeat, TypeReport, Zenon DEF WorkerStep
  <1>3. ASSUME NEW c \in Claimers, ClaimerStep(c) PROVE TypeOK'
    BY <1>3, TypeOperate, TypeClaim, Zenon DEF ClaimerStep
  <1>4. CASE UNCHANGED vars
    BY <1>4, Zenon DEF vars, leaseVars, opVars, claimVars, TypeOK
  <1> QED
    BY <1>2, <1>3, <1>4, Zenon DEF Next

---------------------------------------------------------------------------
\* Lease ids in flight, action by action.

\* Requests of a worker keep GrantedIds: they only pass on ids of the table.
LEMMA IdsWorker ==
    ASSUME TypeOK, GrantedIds, NEW w \in Workers,
           \/ HeartbeatStart(w) \/ HeartbeatPut(w) \/ HeartbeatEnd(w)
           \/ ReportGet(w) \/ ReportDelete(w)
           \/ \E i \in Ids : HeartbeatGet(w, i) \/ TickStart(w, i)
    PROVE  GrantedIds'
  <1> USE IdRange DEF leaseVars, claimVars, Given
  <1>1. CASE HeartbeatStart(w)
    BY <1>1, ZenonT(40) DEF HeartbeatStart, LeasesOf, GrantedIds, TypeOK
  <1>2. CASE HeartbeatPut(w)
    BY <1>2 DEF HeartbeatPut, GrantedIds, TypeOK
  <1>3. CASE HeartbeatEnd(w)
    BY <1>3 DEF HeartbeatEnd, Idle, GrantedIds, TypeOK
  <1>4. CASE ReportGet(w)
    BY <1>4, Zenon DEF ReportGet, GrantedIds, TypeOK
  <1>5. CASE ReportDelete(w)
    BY <1>5 DEF ReportDelete, GrantedIds, TypeOK
  <1>6. ASSUME NEW i \in Ids, HeartbeatGet(w, i) PROVE GrantedIds'
    BY <1>6 DEF HeartbeatGet, GrantedIds, TypeOK
  <1>7. ASSUME NEW i \in Ids, TickStart(w, i) PROVE GrantedIds'
    BY <1>7, Zenon DEF TickStart, LeasesOf, GrantedIds, TypeOK
  <1> QED
    BY <1>1, <1>2, <1>3, <1>4, <1>5, <1>6, <1>7, Zenon

\* A new lease is in the range of ids handed out, and the older ones stay.
LEMMA IdsNewLease ==
    ASSUME TypeOK, GrantedIds, NEW w \in Workers, NEW r \in Runs, NEW f \in Nat,
           NewLease(w, r, f), granted' = granted \cup {r}, UNCHANGED <<hb, rp, todo, accepted>>,
           \A c \in Claimers : held'[c] \in {0, held[c]}
    PROVE  GrantedIds'
  <1>1. nextId' = nextId + 1 /\ nextId \in Nat \ {0}
    BY NewRow, Zenon
  <1>2. Given' = Given \cup {nextId} /\ nextId \notin Given
    BY NewRow, Zenon
  <1>3. \A j \in Given : lease'[j] = lease[j]
    BY NewRow, Zenon
  <1>4. lease'[nextId].run = r /\ lease'[nextId].worker = w
    BY NewRow, Zenon
  <1>5. \A i \in Given' : lease'[i].run \in granted' /\ lease'[i].worker \in Workers
    BY <1>2, <1>3, <1>4, Zenon DEF GrantedIds
  <1>6. \A c \in Claimers : held'[c] \in 0..(nextId' - 1) /\ todo'[c] \subseteq Given'
    <2> SUFFICES ASSUME NEW c \in Claimers
                 PROVE  held'[c] \in 0..(nextId' - 1) /\ todo'[c] \subseteq Given'
      BY Zenon
    <2>1. todo'[c] \subseteq Given'
      BY <1>2, Zenon DEF GrantedIds
    <2>2. held[c] \in 0..(nextId - 1)
      BY Zenon DEF GrantedIds
    <2>3. held'[c] \in 0..(nextId' - 1)
      BY <1>1, <2>2
    <2> QED
      BY <2>1, <2>3, Zenon
  <1>7. \A v \in Workers :
          /\ hb'[v].ids \subseteq Given'
          /\ hb'[v].pc = "put" => hb'[v].id \in Given'
          /\ rp'[v].pc # "idle" => rp'[v].id \in Given' /\ lease'[rp'[v].id].worker = v
    BY <1>2, <1>3, Zenon DEF GrantedIds
  <1> QED
    BY <1>5, <1>6, <1>7, Zenon DEF GrantedIds

\* The loops that take leases keep GrantedIds.
LEMMA IdsClaim ==
    ASSUME TypeOK, GrantedIds, NEW c \in Claimers,
           \/ ReclaimStart(c) \/ FindNone(c) \/ Reassign(c) \/ ReassignRaises(c)
           \/ \E w \in Workers : Deregister(c, w) \/ FindReady(c, w)
           \/ \E i \in Ids : Visit(c, i)
    PROVE  GrantedIds'
  <1> USE IdRange DEF leaseVars, opVars, Given
  <1>1. CASE ReclaimStart(c)
    BY <1>1, Zenon DEF ReclaimStart, GrantedIds, TypeOK
  <1>2. CASE FindNone(c)
    BY <1>2 DEF FindNone, Release, GrantedIds, TypeOK
  <1>3. CASE Reassign(c)
    <2>1. target[c] \in Workers /\ held[c] \in Given /\ held[c] \in Ids
      BY <1>3 DEF Reassign, GrantedIds, TypeOK
    <2>2. lease[held[c]].run \in Runs /\ lease[held[c]].fence + 1 \in Nat
          /\ lease[held[c]].run \in granted
      BY <2>1 DEF GrantedIds, TypeOK
    <2>3. NewLease(target[c], lease[held[c]].run, lease[held[c]].fence + 1)
      BY <1>3, Zenon DEF Reassign
    <2>4. \A d \in Claimers : held'[d] \in {0, held[d]}
      BY <1>3, Zenon DEF Reassign, Release, TypeOK
    <2>5. granted' = granted \cup {lease[held[c]].run} /\ UNCHANGED <<hb, rp, todo, accepted>>
      BY <1>3, <2>2, Zenon DEF Reassign
    <2> QED
      BY <2>1, <2>2, <2>3, <2>4, <2>5, IdsNewLease, Zenon
  <1>4. CASE ReassignRaises(c)
    BY <1>4 DEF ReassignRaises, Release, GrantedIds, TypeOK
  <1>5. ASSUME NEW w \in Workers, Deregister(c, w) PROVE GrantedIds'
    BY <1>5, Zenon DEF Deregister, Operate, LeasesOf, GrantedIds, TypeOK
  <1>6. ASSUME NEW w \in Workers, FindReady(c, w) PROVE GrantedIds'
    BY <1>6, Zenon DEF FindReady, GrantedIds, TypeOK
  <1>7. ASSUME NEW i \in Ids, Visit(c, i) PROVE GrantedIds'
    <2>1. \A d \in Claimers : held'[d] \in 0..(nextId - 1) /\ todo'[d] \subseteq Given
      BY <1>7 DEF Visit, GrantedIds, TypeOK
    <2> QED
      BY <1>7, <2>1, Zenon DEF Visit, GrantedIds
  <1> QED
    BY <1>1, <1>2, <1>3, <1>4, <1>5, <1>6, <1>7, Zenon

\* Every step keeps GrantedIds.
LEMMA IdsStep == IInv /\ [Next]_vars => GrantedIds'
  <1> SUFFICES ASSUME TypeOK, GrantedIds, [Next]_vars PROVE GrantedIds'
    BY Zenon DEF IInv
  <1>1. ASSUME NEW w \in Workers, NEW r \in Runs, Grant(w, r) PROVE GrantedIds'
    BY <1>1, IdsNewLease, Zenon DEF Grant, claimVars, TypeOK
  <1>2. ASSUME NEW w \in Workers,
               Register(w) \/ \E s \in {"draining", "maintenance", "ready"} : SetState(w, s)
        PROVE GrantedIds'
    BY <1>2, Zenon DEF Register, SetState, leaseVars, claimVars, GrantedIds, Given
  <1>3. ASSUME NEW w \in Workers, WorkerStep(w) PROVE GrantedIds'
    BY <1>1, <1>2, <1>3, IdsWorker, Zenon DEF WorkerStep
  <1>4. ASSUME NEW c \in Claimers, ClaimerStep(c) PROVE GrantedIds'
    BY <1>4, IdsClaim, Zenon DEF ClaimerStep
  <1>5. CASE UNCHANGED vars
    BY <1>5, Zenon DEF vars, leaseVars, claimVars, GrantedIds, Given
  <1> QED
    BY <1>3, <1>4, <1>5, Zenon DEF Next

---------------------------------------------------------------------------
\* Tokens: what stands for a run, and what happens to it.

\* Tokens are ids handed out, so a new id is none of them.
LEMMA TokensGiven ==
    ASSUME TypeOK, GrantedIds
    PROVE  Tokens \subseteq Given
  <1>1. \A c \in Claimers : held[c] \in Ids => held[c] \in Given
    BY BoundsAssumption DEF GrantedIds, Given, Ids, TypeOK
  <1> QED
    BY <1>1, ZenonT(40) DEF Tokens, TypeOK, Given

\* A step that grants no lease and makes no new token for an unraced run.
LEMMA FewerTokens ==
    ASSUME OneToken, NewestToken, lease' = lease, nextId' = nextId, raced \subseteq raced',
           \A i \in Tokens' : lease[i].run \notin raced' => i \in Tokens
    PROVE  /\ OneToken' /\ NewestToken'
           /\ DoneOnce /\ accepted' = accepted => DoneOnce'
  <1>1. OneToken'
    BY Zenon DEF OneToken, Unraced
  <1>2. NewestToken'
    BY Zenon DEF NewestToken, Unraced, Given
  <1>3. DoneOnce /\ accepted' = accepted => DoneOnce'
    BY Zenon DEF DoneOnce
  <1> QED
    BY <1>1, <1>2, <1>3, Zenon

\* A step that grants a lease to a run with no other token, under a fence above all
\* of its earlier ones.
LEMMA NewToken ==
    ASSUME TypeOK, GrantedIds, OneToken, NewestToken, DoneOnce,
           NEW w \in Workers, NEW r \in Runs, NEW f \in Nat, NewLease(w, r, f),
           raced' = raced, accepted' = accepted,
           \A i \in Tokens' \ {nextId} :
              i \in Tokens /\ (r \notin raced => lease[i].run # r),
           r \notin raced => accepted[r] = 0,
           r \notin raced => \A j \in Given : lease[j].run = r => lease[j].fence < f
    PROVE  OneToken' /\ NewestToken' /\ DoneOnce'
  <1>2. Given' = Given \cup {nextId} /\ nextId \notin Given
    BY NewRow, Zenon
  <1>3. \A j \in Given : lease'[j] = lease[j]
    BY NewRow, Zenon
  <1>4. lease'[nextId].run = r /\ lease'[nextId].fence = f
    BY NewRow, Zenon
  <1>5. \A i \in Tokens' \ {nextId} : i \in Given /\ lease'[i] = lease[i]
    BY <1>3, TokensGiven, Zenon
  <1>6. OneToken'
    BY <1>4, <1>5, Zenon DEF OneToken, Unraced
  <1>7. NewestToken'
    <2> SUFFICES ASSUME NEW i \in Tokens', NEW j \in Given', i # j,
                        lease'[j].run = lease'[i].run, lease'[i].run \notin raced
                 PROVE  lease'[j].fence < lease'[i].fence
      BY Zenon DEF NewestToken, Unraced
    <2>1. CASE i = nextId
      BY <2>1, <1>2, <1>3, <1>4, Zenon
    <2>2. CASE i # nextId /\ j # nextId
      BY <2>2, <1>2, <1>3, <1>5, Zenon DEF NewestToken, Unraced
    <2>3. CASE i # nextId /\ j = nextId
      BY <2>3, <1>4, <1>5, Zenon
    <2> QED
      BY <2>1, <2>2, <2>3, Zenon
  <1>8. DoneOnce'
    BY <1>4, <1>5 DEF DoneOnce
  <1> QED
    BY <1>6, <1>7, <1>8, Zenon

\* A step that leaves the leases, the claims and the history alone.
LEMMA TokensSame ==
    ASSUME TokenFacts, UNCHANGED <<leaseVars, live, held, accepted, raced>>, PendingLive'
    PROVE  TokenFacts'
  <1>1. Tokens' = Tokens /\ Given' = Given
    BY Zenon DEF Tokens, Given, leaseVars
  <1>2. OneToken' /\ NewestToken' /\ DoneOnce'
    BY <1>1, Zenon DEF OneToken, NewestToken, DoneOnce, Unraced, TokenFacts, leaseVars
  <1>3. HeldApart'
    BY Zenon DEF HeldApart, Unraced, TokenFacts, leaseVars
  <1> QED
    BY <1>2, <1>3, Zenon DEF TokenFacts

\* A heartbeat writes back only a row of the table, unless its run is marked.
LEMMA TokensPut ==
    ASSUME TypeOK, GrantedIds, TokenFacts, NEW w \in Workers, HeartbeatPut(w)
    PROVE  TokenFacts'
  <1> USE DEF leaseVars, claimVars
  <1>1. Unraced(hb[w].id) => live' = live
    BY Zenon DEF HeartbeatPut, TokenFacts, PendingLive
  <1>2. lease' = lease /\ nextId' = nextId /\ raced' = raced /\ held' = held
        /\ accepted' = accepted /\ live' = live \cup {hb[w].id} /\ rp' = rp
    BY Zenon DEF HeartbeatPut
  <1>3. \A i \in Tokens' : lease[i].run \notin raced' => i \in Tokens
    BY <1>1, <1>2, Zenon DEF Tokens, Unraced
  <1>4. OneToken' /\ NewestToken' /\ DoneOnce'
    BY <1>2, <1>3, FewerTokens, Zenon DEF TokenFacts
  <1>5. HeldApart'
    BY <1>1, <1>2, Zenon DEF HeldApart, TokenFacts, Unraced
  <1>6. PendingLive'
    BY <1>2, Zenon DEF HeartbeatPut, PendingLive, TokenFacts, Unraced, TypeOK
  <1> QED
    BY <1>4, <1>5, <1>6, Zenon DEF TokenFacts

\* An accepted report ends its run's last token.
LEMMA TokensReport ==
    ASSUME TypeOK, GrantedIds, TokenFacts, NEW w \in Workers, ReportDelete(w)
    PROVE  TokenFacts'
  <1> DEFINE i == rp[w].id
             r == lease[i].run
  <1>1. /\ rp[w].pc = "delete" /\ i \in Given /\ lease[i].worker = w
        /\ r \in Runs /\ r \in granted
    BY Zenon DEF ReportDelete, GrantedIds, TypeOK
  <1>2. /\ lease' = lease /\ nextId' = nextId /\ held' = held /\ hb' = hb
        /\ live' = live \ {i}
        /\ raced' = (IF Renewing(i) THEN raced \cup {r} ELSE raced)
        /\ rp' = [rp EXCEPT ![w] = [pc |-> "idle", id |-> 0]]
    BY Zenon DEF ReportDelete, leaseVars, claimVars
  <1>3. accepted' = [accepted EXCEPT ![r] = accepted[r] + 1]
    BY Zenon DEF ReportDelete
  <1> HIDE DEF i, r
  <1>4. raced \subseteq raced' /\ Tokens' \subseteq Tokens
    BY <1>2, Zenon DEF Tokens
  <1>5. OneToken' /\ NewestToken'
    BY <1>2, <1>4, FewerTokens, Zenon DEF TokenFacts
  <1>6. HeldApart'
    BY <1>2, <1>4, Zenon DEF HeldApart, TokenFacts, Unraced
  <1>7. ASSUME r \notin raced
        PROVE  i \in Tokens /\ accepted[r] = 0 /\ \A j \in Tokens' : lease[j].run # r
    <2>1. i \in live
      BY <1>1, <1>7, Zenon DEF PendingLive, TokenFacts, Unraced, i, r
    <2>2. i \in Tokens
      BY <2>1, Zenon DEF Tokens
    <2>3. \A c \in Claimers : held[c] # i
      BY <1>7, <2>1, <1>1, IdRange DEF HeldApart, TokenFacts, Unraced, r, Given, TypeOK
    <2>4. i \notin Tokens'
      BY <2>3, <1>2, Zenon DEF Tokens
    <2>5. accepted[r] = 0
      BY <2>2, <1>1, <1>7, Zenon DEF DoneOnce, TokenFacts, r
    <2>6. \A j \in Tokens' : lease[j].run # r
      BY <2>2, <2>4, <1>4, <1>7, Zenon DEF OneToken, TokenFacts, Unraced, r
    <2> QED
      BY <2>2, <2>5, <2>6, Zenon
  <1>8. DoneOnce'
    <2> SUFFICES ASSUME NEW q \in Runs, q \notin raced'
                 PROVE  accepted'[q] <= 1
                        /\ (accepted'[q] # 0 => \A j \in Tokens' : lease'[j].run # q)
      BY Zenon DEF DoneOnce
    <2>1. CASE q = r
      BY <2>1, <1>1, <1>2, <1>3, <1>4, <1>7 DEF TypeOK
    <2>2. CASE q # r
      BY <2>2, <1>1, <1>2, <1>3, <1>4, Zenon DEF TypeOK, DoneOnce, TokenFacts
    <2> QED
      BY <2>1, <2>2, Zenon
  <1>9. PendingLive'
    <2> SUFFICES ASSUME NEW v \in Workers
                 PROVE  /\ hb'[v].pc = "put" /\ Unraced(hb[v].id)' => hb'[v].id \in live'
                        /\ rp'[v].pc = "delete" /\ Unraced(rp[v].id)' => rp'[v].id \in live'
      BY Zenon DEF PendingLive
    <2>1. hb'[v].pc = "put" /\ Unraced(hb[v].id)' => hb'[v].id \in live'
      BY <1>2, <1>4, Zenon DEF PendingLive, TokenFacts, Unraced, Renewing, r
    <2>2. CASE v = w
      BY <2>1, <2>2, <1>2, Zenon DEF TypeOK
    <2>3. CASE v # w
      BY <2>1, <2>3, <1>1, <1>2, <1>4, Zenon DEF PendingLive, TokenFacts, Unraced, GrantedIds, TypeOK
    <2> QED
      BY <2>2, <2>3, Zenon
  <1> QED
    BY <1>5, <1>6, <1>8, <1>9, Zenon DEF TokenFacts

\* A visit that claims a row turns it into the claimer's token.
LEMMA TokensVisit ==
    ASSUME TypeOK, GrantedIds, TokenFacts, NEW c \in Claimers, NEW i \in Ids, Visit(c, i)
    PROVE  TokenFacts'
  <1>1. CASE live' = live /\ held' = held /\ raced' = raced
    <2>1. UNCHANGED <<leaseVars, live, held, accepted, raced, hb, rp>>
      BY <1>1, Zenon DEF Visit
    <2>2. PendingLive'
      BY <2>1, Zenon DEF PendingLive, TokenFacts, Unraced, leaseVars
    <2> QED
      BY <2>1, <2>2, TokensSame, Zenon
  <1>2. CASE /\ i \in live /\ live' = live \ {i} /\ held' = [held EXCEPT ![c] = i]
             /\ raced' = IF Renewing(i) \/ Reporting(i)
                         THEN raced \cup {lease[i].run} ELSE raced
    <2>1. UNCHANGED <<leaseVars, accepted, hb, rp>> /\ held[c] = 0 /\ raced \subseteq raced'
      BY <1>2, Zenon DEF Visit
    <2>2. Tokens' \subseteq Tokens
      BY <1>2, <2>1, Zenon DEF Tokens, TypeOK
    <2>3. OneToken' /\ NewestToken' /\ DoneOnce'
      BY <2>1, <2>2, FewerTokens, Zenon DEF TokenFacts, leaseVars
    <2>4. HeldApart'
      <3>1. \A d \in Claimers : held'[d] = IF d = c THEN i ELSE held[d]
        BY <1>2, Zenon DEF TypeOK
      <3>2. \A d \in Claimers : held[d] # 0 /\ Unraced(held[d]) => held[d] # i
        BY <1>2, Zenon DEF HeldApart, TokenFacts
      <3>3. i # 0
        BY BoundsAssumption DEF Ids
      <3> QED
        BY <1>2, <2>1, <3>1, <3>2, <3>3 DEF HeldApart, TokenFacts, Unraced, leaseVars
    <2>5. PendingLive'
      BY <1>2, <2>1, Zenon DEF PendingLive, TokenFacts, Unraced, Renewing, Reporting, leaseVars
    <2> QED
      BY <2>3, <2>4, <2>5, Zenon DEF TokenFacts
  <1> QED
    BY <1>1, <1>2, Zenon DEF Visit

\* A pass that forgets its claimed lease drops a token and makes none.
LEMMA TokensForget ==
    ASSUME TypeOK, GrantedIds, TokenFacts, NEW c \in Claimers,
           FindNone(c) \/ ReassignRaises(c)
    PROVE  TokenFacts'
  <1>1. UNCHANGED <<lease, nextId, live, accepted, raced, hb, rp>>
        /\ held' = [held EXCEPT ![c] = 0]
    BY Zenon DEF FindNone, ReassignRaises, Release, leaseVars
  <1>2. Tokens' \subseteq Tokens
    BY <1>1, BoundsAssumption DEF Tokens, TypeOK, Ids
  <1>3. OneToken' /\ NewestToken' /\ DoneOnce'
    BY <1>1, <1>2, FewerTokens, Zenon DEF TokenFacts
  <1>4. HeldApart'
    BY <1>1, Zenon DEF HeldApart, TokenFacts, Unraced, TypeOK
  <1>5. PendingLive'
    BY <1>1, Zenon DEF PendingLive, TokenFacts, Unraced
  <1> QED
    BY <1>3, <1>4, <1>5, Zenon DEF TokenFacts

\* A new lease disturbs neither the claims nor the requests in flight.
LEMMA ApartNewLease ==
    ASSUME TypeOK, GrantedIds, TokenFacts, NEW w \in Workers, NEW r \in Runs, NEW f \in Nat,
           NewLease(w, r, f), UNCHANGED <<hb, rp, raced>>,
           \A c \in Claimers : held'[c] \in {0, held[c]}
    PROVE  HeldApart' /\ PendingLive'
  <1>1. live' = live \cup {nextId} /\ nextId \notin Given /\ nextId \in Nat \ {0}
    BY NewRow, Zenon
  <1>3. \A j \in Given : lease'[j] = lease[j]
    BY NewRow, Zenon
  <1>4. \A c \in Claimers : held[c] # 0 => held[c] \in Given
    BY <1>1 DEF GrantedIds, Given
  <1>5. HeldApart'
    <2> SUFFICES ASSUME NEW c \in Claimers, held'[c] # 0, lease'[held'[c]].run \notin raced
                 PROVE  /\ held'[c] \notin live'
                        /\ \A d \in Claimers : held'[d] = held'[c] => d = c
      BY Zenon DEF HeldApart, Unraced
    <2>1. held'[c] = held[c] /\ held[c] \in Given /\ lease[held[c]].run \notin raced
      BY <1>3, <1>4, Zenon
    <2>2. held[c] \notin live /\ \A d \in Claimers : held[d] = held[c] => d = c
      BY <2>1, Zenon DEF HeldApart, TokenFacts, Unraced
    <2> QED
      BY <1>1, <2>1, <2>2, Zenon
  <1>6. PendingLive'
    BY <1>1, <1>3, Zenon DEF PendingLive, TokenFacts, Unraced, GrantedIds
  <1> QED
    BY <1>5, <1>6, Zenon

\* A run that was never leased has no token.
LEMMA TokensGrant ==
    ASSUME TypeOK, GrantedIds, TokenFacts, NEW w \in Workers, NEW r \in Runs, Grant(w, r)
    PROVE  TokenFacts'
  <1>1. /\ NewLease(w, r, 1) /\ r \notin granted
        /\ UNCHANGED <<hb, rp, held, accepted, raced>>
    BY Zenon DEF Grant, claimVars
  <1>2. live' = live \cup {nextId}
    BY <1>1, Zenon DEF NewLease
  <1>3. \A j \in Given : lease[j].run # r
    BY <1>1, Zenon DEF GrantedIds
  <1>4. \A i \in Tokens' \ {nextId} : i \in Tokens /\ lease[i].run # r
    BY <1>1, <1>2, <1>3, TokensGiven, Zenon DEF Tokens
  <1>5. accepted[r] = 0
    BY <1>1, Zenon DEF GrantedIds
  <1>6. OneToken' /\ NewestToken' /\ DoneOnce'
    BY <1>1, <1>3, <1>4, <1>5, NewToken, Zenon DEF TokenFacts
  <1>7. HeldApart' /\ PendingLive'
    BY <1>1, ApartNewLease, Zenon
  <1> QED
    BY <1>6, <1>7, Zenon DEF TokenFacts

\* The claimed lease is replaced by the new one, under the next fence.
LEMMA TokensReassign ==
    ASSUME TypeOK, GrantedIds, TokenFacts, NEW c \in Claimers, Reassign(c)
    PROVE  TokenFacts'
  <1> DEFINE h == held[c]
             r == lease[h].run
             f == lease[h].fence + 1
  <1>1. /\ h # 0 /\ NewLease(target[c], r, f) /\ target[c] \in Workers
        /\ held' = [held EXCEPT ![c] = 0] /\ UNCHANGED <<hb, rp, accepted, raced>>
    BY Zenon DEF Reassign, Release, TypeOK
  <1>2. h \in Given /\ h \in Ids
    BY <1>1, IdRange DEF GrantedIds, Given, TypeOK
  <1>3. r \in Runs /\ lease[h].fence \in Nat /\ f \in Nat
    <2>1. lease[h].fence \in Nat
      BY <1>2, Zenon DEF TypeOK
    <2>2. r \in granted /\ granted \subseteq Runs
      BY <1>2, Zenon DEF GrantedIds, TypeOK
    <2> QED
      BY <2>1, <2>2
  <1>4. live' = live \cup {nextId} /\ h \in Tokens
    BY <1>1, <1>2, Zenon DEF NewLease, Tokens
  <1>5. \A d \in Claimers : held'[d] = IF d = c THEN 0 ELSE held[d]
    BY <1>1, Zenon DEF TypeOK
  <1>6. \A i \in Tokens' \ {nextId} : i \in Tokens
    BY <1>4, <1>5, BoundsAssumption DEF Tokens, Ids
  <1> HIDE DEF f
  <1>7. ASSUME r \notin raced
        PROVE  /\ \A i \in Tokens' \ {nextId} : lease[i].run # r
               /\ accepted[r] = 0
               /\ \A j \in Given : lease[j].run = r => lease[j].fence < f
    <2>1. h \notin live /\ \A d \in Claimers : held[d] = h => d = c
      BY <1>1, <1>7, Zenon DEF HeldApart, TokenFacts, Unraced
    <2>2. h \notin Tokens' \ {nextId}
      BY <2>1, <1>1, <1>4, <1>5, Zenon DEF Tokens
    <2>3. \A i \in Tokens' \ {nextId} : lease[i].run # r
      BY <2>2, <1>4, <1>6, <1>7, Zenon DEF OneToken, TokenFacts, Unraced
    <2>4. accepted[r] = 0
      BY <1>3, <1>4, <1>7, Zenon DEF DoneOnce, TokenFacts
    <2>5. ASSUME NEW j \in Given, lease[j].run = r PROVE lease[j].fence < f
      <3>1. lease[j].fence \in Nat
        BY IdRange, Zenon DEF TypeOK
      <3>2. j = h \/ lease[j].fence < lease[h].fence
        BY <2>5, <1>4, <1>7, Zenon DEF NewestToken, TokenFacts, Unraced
      <3> QED
        BY <3>1, <3>2, <1>3 DEF f
    <2> QED
      BY <2>3, <2>4, <2>5, Zenon
  <1> HIDE DEF r, h
  <1>8. OneToken' /\ NewestToken' /\ DoneOnce'
    BY <1>1, <1>3, <1>6, <1>7, NewToken, Zenon DEF TokenFacts
  <1>9. HeldApart' /\ PendingLive'
    BY <1>1, <1>3, <1>5, ApartNewLease, Zenon
  <1> QED
    BY <1>8, <1>9, Zenon DEF TokenFacts

\* Every step keeps the facts about tokens.
LEMMA TokensStep == IInv /\ [Next]_vars => TokenFacts'
  <1> SUFFICES ASSUME TypeOK, GrantedIds, TokenFacts, [Next]_vars PROVE TokenFacts'
    BY Zenon DEF IInv
  <1>1. ASSUME NEW w \in Workers,
               \/ Register(w) \/ \E s \in {"draining", "maintenance", "ready"} : SetState(w, s)
               \/ HeartbeatStart(w) \/ HeartbeatEnd(w) \/ ReportGet(w)
               \/ \E i \in Ids : HeartbeatGet(w, i) \/ TickStart(w, i)
        PROVE TokenFacts'
    <2>1. UNCHANGED <<leaseVars, live, held, accepted, raced>>
      BY <1>1 DEF Register, SetState, HeartbeatStart, HeartbeatEnd, ReportGet, HeartbeatGet,
                  TickStart, claimVars
    <2>2. ASSUME UNCHANGED <<hb, rp>> PROVE PendingLive'
      BY <2>1, <2>2, Zenon DEF leaseVars, PendingLive, TokenFacts, Unraced
    <2>3. ASSUME HeartbeatStart(w) \/ HeartbeatEnd(w) \/ \E i \in Ids : HeartbeatGet(w, i)
          PROVE  PendingLive'
      <3>1. /\ \A v \in Workers \ {w} : hb'[v] = hb[v]
            /\ rp' = rp
            /\ hb'[w].pc = "put" => hb'[w].id \in live
        <4>0. DOMAIN hb = Workers
          BY Zenon DEF TypeOK
        <4>1. CASE HeartbeatStart(w)
          BY <4>0, <4>1, Zenon DEF HeartbeatStart
        <4>2. CASE HeartbeatEnd(w)
          BY <4>0, <4>2, Zenon DEF HeartbeatEnd, Idle
        <4>3. ASSUME NEW i \in Ids, HeartbeatGet(w, i)
              PROVE  /\ \A v \in Workers \ {w} : hb'[v] = hb[v]
                     /\ rp' = rp
                     /\ hb'[w].pc = "put" => hb'[w].id \in live
          <5>1. hb' = [hb EXCEPT ![w] = [pc   |-> IF i \in live THEN "put" ELSE "renew",
                                         ids  |-> hb[w].ids \ {i},
                                         id   |-> IF i \in live THEN i ELSE 0,
                                         snap |-> hb[w].snap]]
            BY <4>3, Zenon DEF HeartbeatGet
          <5>2. rp' = rp
            BY <4>3, Zenon DEF HeartbeatGet
          <5>3. CASE i \in live
            BY <4>0, <5>1, <5>2, <5>3, Zenon
          <5>4. CASE i \notin live
            BY <4>0, <5>1, <5>2, <5>4, Zenon
          <5> QED
            BY <5>3, <5>4, Zenon
        <4> QED
          BY <2>3, <4>1, <4>2, <4>3, Zenon
      <3> QED
        BY <2>1, <3>1, Zenon DEF leaseVars, PendingLive, TokenFacts, Unraced
    <2>4. ASSUME ReportGet(w) \/ \E i \in Ids : TickStart(w, i) PROVE PendingLive'
      <3>1. /\ \A v \in Workers \ {w} : rp'[v] = rp[v]
            /\ hb' = hb
            /\ rp'[w].pc = "delete" => rp'[w].id \in live
        <4>0. DOMAIN rp = Workers
          BY Zenon DEF TypeOK
        <4>1. CASE ReportGet(w)
          BY <4>0, <4>1, Zenon DEF ReportGet
        <4>2. ASSUME NEW i \in Ids, TickStart(w, i)
              PROVE  /\ \A v \in Workers \ {w} : rp'[v] = rp[v]
                     /\ hb' = hb
                     /\ rp'[w].pc = "delete" => rp'[w].id \in live
          BY <4>0, <4>2, Zenon DEF TickStart
        <4> QED
          BY <2>4, <4>1, <4>2, Zenon
      <3> QED
        BY <2>1, <3>1, Zenon DEF leaseVars, PendingLive, TokenFacts, Unraced
    <2>5. PendingLive'
      BY <1>1, <2>2, <2>3, <2>4, Zenon DEF Register, SetState
    <2> QED
      BY <2>1, <2>5, TokensSame, Zenon
  <1>2. ASSUME NEW c \in Claimers,
               ReclaimStart(c) \/ \E w \in Workers : Deregister(c, w) \/ FindReady(c, w)
        PROVE TokenFacts'
    <2>1. UNCHANGED <<leaseVars, live, held, accepted, raced, hb, rp>>
      BY <1>2, Zenon DEF ReclaimStart, Deregister, FindReady
    <2>2. PendingLive'
      BY <2>1, Zenon DEF PendingLive, TokenFacts, Unraced, leaseVars
    <2> QED
      BY <2>1, <2>2, TokensSame, Zenon
  <1>3. ASSUME NEW w \in Workers, WorkerStep(w) PROVE TokenFacts'
    BY <1>1, <1>3, TokensGrant, TokensPut, TokensReport, Zenon DEF WorkerStep
  <1>4. ASSUME NEW c \in Claimers, ClaimerStep(c) PROVE TokenFacts'
    BY <1>2, <1>4, TokensForget, TokensReassign, TokensVisit, Zenon DEF ClaimerStep
  <1>5. CASE UNCHANGED vars
    <2>1. PendingLive'
      BY <1>5, Zenon DEF PendingLive, TokenFacts, Unraced, leaseVars, vars
    <2> QED
      BY <1>5, <2>1, TokensSame, Zenon DEF vars, claimVars
  <1> QED
    BY <1>3, <1>4, <1>5, Zenon DEF Next

\* The invariant holds in every reachable state.
LEMMA Invariance == Spec => []IInv
  <1>1. IInv /\ [Next]_vars => IInv'
    BY TypeStep, IdsStep, TokensStep, Zenon DEF IInv
  <1> QED
    BY <1>1, InitIInv, PTL DEF Spec

---------------------------------------------------------------------------
\* The registry, its lease table and the requests in flight keep their types.
THEOREM TypeCorrect == Spec => []TypeOK
  <1>1. IInv => TypeOK
    BY Zenon DEF IInv
  <1> QED
    BY <1>1, Invariance, PTL

\* Whatever reclaim, deregister, heartbeat and report do to each other, a run has at
\* most one lease row, unless a row of it was removed under a request about to write it.
THEOREM OneLeasePerRun == Spec => []SingleLease
  <1>1. IInv => SingleLease
    BY Zenon DEF IInv, TokenFacts, OneToken, Tokens, Unraced, SingleLease
  <1> QED
    BY <1>1, Invariance, PTL

\* The lease in the table carries the newest fence its run was ever granted, so an
\* earlier attempt's report cannot be taken for it.
THEOREM LeaseIsNewest == Spec => []NewestFence
  <1>1. IInv => NewestFence
    BY Zenon DEF IInv, TokenFacts, NewestToken, Tokens, Unraced, Given, NewestFence
  <1> QED
    BY <1>1, Invariance, PTL

\* A run is reported once, and never handed out again after it.
THEOREM ReportedOnce == Spec => []CompletedOnce
  <1>1. IInv => CompletedOnce
    BY DEF IInv, TokenFacts, DoneOnce, Tokens, CompletedOnce
  <1> QED
    BY <1>1, Invariance, PTL
=============================================================================
