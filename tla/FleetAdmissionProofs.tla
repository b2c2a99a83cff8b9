----------------------- MODULE FleetAdmissionProofs -----------------------
(***************************************************************************)
(* Proofs about FleetAdmission, for any runs, profiles, limits, budgets    *)
(* and bounds: the types, that capacity comes back, how far the limit of a *)
(* workload and the budget of its day are exceeded, that a run over its    *)
(* budget ends, and how many runs are saved after a halt.                  *)
(***************************************************************************)
EXTENDS FleetAdmission, Integers, TLAPS

Keys == {<<p.tenant, p.workload>> : p \in Profiles}
ReportSteps == {"idle", "day", "period", "check", "over", "within", "fail"}
CallType == [pc : SubmitSteps, task : Runs \cup {"none"}]
ReportType == [pc : ReportSteps, cost : Nat, snap : {"none"} \cup Live, seen : Nat]
IncidentType == [scope : Scopes, active : BOOLEAN, pausing : PauseSteps, lifting : Nat]

\* The types, of the spend and the reports too.
SchedShape ==
    /\ profile \in [Runs -> Profiles \cup {NoProfile}]
    /\ queue \in Seq(Runs) /\ running \subseteq Runs /\ checkpointed \subseteq running
    /\ frozenAll \in BOOLEAN /\ frozenTenants \subseteq Tenants /\ frozenWorkloads \subseteq Workloads
CallShape ==
    /\ run \in [Runs -> Live \cup {"none", "ended"}] /\ sub \in [Runs -> CallType]
    /\ ending \subseteq Runs /\ stray \subseteq Runs /\ late \subseteq Runs
    /\ incidents \in Seq(IncidentType)
    /\ stranded \in Nat /\ ops \in 0..MaxOps /\ reports \in [Runs -> 0..MaxReports]
SpendShape ==
    /\ runSpend \in [Runs -> Nat] /\ daySpend \in [Keys -> Nat] /\ periodSpend \in [Tenants -> Nat]
    /\ report \in [Runs -> ReportType]
Shape == SchedShape /\ CallShape /\ SpendShape

\* A run is queued once, and not also running.
Entries(q) == {q[i] : i \in 1..Len(q)}
Distinct(q) == \A i, j \in 1..Len(q) : q[i] = q[j] => i = j
Without(q, i) == SubSeq(q, 1, i - 1) \o SubSeq(q, i + 1, Len(q))
QueuedOnce == Distinct(queue) /\ Queued \cap running = {}

---------------------------------------------------------------------------
\* What a submission has done by its step: a run without a row is before the save, a task is
\* in the scheduler after the registration.
Early == {"idle", "refused", "budget", "save"}
Calls ==
    \A r \in Runs :
        /\ sub[r].pc # "idle" => profile[r] \in Profiles
        /\ sub[r].pc \in Early => run[r] = "none"
        /\ r \in running \cup Queued => sub[r].pc \notin Early \cup {"enqueue"}
        /\ sub[r].pc \in {"take", "requeue", "cancel"} => sub[r].task \in Runs

\* A run that ended and was completed is out of the scheduler, and does not get in again.
Freed ==
    \A r \in Runs \ (ending \cup stray) :
        run[r] = "ended" => r \notin running \cup Queued /\ sub[r].pc # "enqueue"

\* A report is of a run that was started, and has its state to write back; one that finds
\* the run within its budget saves it so.
Reported ==
    \A r \in Runs :
        /\ report[r].pc # "idle" =>
              /\ run[r] \in {"running", "paused", "ended"} /\ report[r].snap \in {"running", "paused"}
              /\ report[r].cost \in Costs
        /\ report[r].pc = "within" => runSpend[r] <= PerRun
        /\ run[r] = "none" => runSpend[r] = 0

\* While the fleet is halted no submission passes the first gate: those that are past it and
\* those saved since were all in flight when it was halted.
Entering == {r \in Runs : sub[r].pc \in {"budget", "save"}}
Halting ==
    /\ Cardinality(InFlight) <= MaxThreads
    /\ ~ FleetHalted => late = {}
    /\ FleetHalted => Cardinality(late \cup Entering) <= MaxThreads

\* An entry of the queue is that of a submission about to take one, or was left behind; so
\* the tasks of a workload, queued or running, are bounded when one is added.
Taking == {r \in Runs : sub[r].pc \in {"pick", "take"}}
Place(w) == {r \in running \cup Queued : profile[r].workload = w}
Placed ==
    /\ Cardinality(Queued) <= Cardinality(Taking) + stranded
    /\ \A w : Cardinality(Place(w)) <= PerWorkloadLimit - 1 + MaxThreads + stranded

---------------------------------------------------------------------------
\* Spend of a run that is recorded in the day of its workload
Recorded == [r \in Runs |-> IF report[r].pc = "day" THEN runSpend[r] - report[r].cost ELSE runSpend[r]]

Mine(k) == {r \in Runs : Key(r) = k}

\* cleared[r] is the spend of r at its last report that found the budgets not exceeded: what
\* it spent since is one report, in flight or the one that ended it.
ClearedOf(r, cleared) ==
    /\ cleared[r] <= runSpend[r]
    /\ report[r].pc = "within" => cleared[r] = runSpend[r]
    /\ report[r].pc \notin {"idle", "within"} => runSpend[r] = cleared[r] + report[r].cost
    /\ report[r].pc = "idle" =>
          cleared[r] = runSpend[r] \/ (run[r] = "ended" /\ runSpend[r] <= cleared[r] + MaxCost)

\* A day that lost no addition is the recorded spend of its runs, and the cleared spend was
\* within the limit.
Balanced(cleared) ==
    /\ \A r \in Runs : ClearedOf(r, cleared)
    /\ \A k \in Keys \ lost :
          /\ Cardinality(Units(Recorded, Mine(k))) = daySpend[k]
          /\ Cardinality(Units(cleared, Mine(k))) <= PerDay
Days == \E cleared \in [Runs -> Nat] : Balanced(cleared)

\* The inductive invariant.
IInv ==
    /\ Shape /\ QueuedOnce /\ Calls /\ Freed /\ Reported /\ OverBudgetEnds /\ Halting /\ Placed /\ Days

---------------------------------------------------------------------------
\* What the steps need to know of sizes, of sets of runs and of units of money. Both are proved
\* from the library below; until then they are assumed, so that the steps are checked without
\* the library's theorems among their facts.
Sizes ==
    /\ Cardinality({}) = 0
    /\ \A q \in Seq(Runs) : Distinct(q) => Cardinality(Entries(q)) = Len(q)
    /\ \A S \in SUBSET Runs :
          /\ Cardinality(S) \in Nat
          /\ \A T \in SUBSET S : Cardinality(T) <= Cardinality(S)
          /\ \A T \in SUBSET Runs : Cardinality(S \cup T) <= Cardinality(S) + Cardinality(T)
          /\ \A r \in Runs :
                /\ Cardinality(S \cup {r}) = IF r \in S THEN Cardinality(S) ELSE Cardinality(S) + 1
                /\ Cardinality(S \ {r}) = IF r \in S THEN Cardinality(S) - 1 ELSE Cardinality(S)

Grows(f, g, r, c) == g[r] = f[r] + c /\ \A x \in Runs \ {r} : g[x] = f[x]
UnitSizes ==
    \A f, g \in [Runs -> Nat], S \in SUBSET Runs :
        /\ Cardinality(Units(f, S)) \in Nat
        /\ (\A r \in S : f[r] <= g[r]) => Cardinality(Units(f, S)) <= Cardinality(Units(g, S))
        /\ \A r \in Runs, c \in Nat :
              Grows(f, g, r, c) =>
                  Cardinality(Units(g, S)) = Cardinality(Units(f, S)) + IF r \in S THEN c ELSE 0
        /\ \A m \in Nat :
              (\A r \in S : f[r] <= g[r] /\ g[r] <= f[r] + m) =>
                  Cardinality(Units(g, S)) <= Cardinality(Units(f, S)) + m * Cardinality(S)

---------------------------------------------------------------------------
\* Constants and queues

LEMMA ConstantTypes ==
    /\ Spenders = Runs /\ MaxThreads \in Nat /\ MaxOps \in Nat /\ MaxReports \in Nat
    /\ PerRun \in Nat /\ PerDay \in Nat /\ TenantCap \in Nat /\ PerWorkloadLimit \in Nat \ {0}
    /\ Costs \subseteq Nat /\ MaxCost \in Nat /\ \A c \in Costs : c <= MaxCost
  <1>1. MaxCost \in Costs /\ \A c \in Costs : c <= MaxCost
    BY FleetAssumption, Zenon DEF MaxCost
  <1> QED
    BY <1>1, FleetAssumption, SchedulerConfig, BudgetAssumption, Zenon

LEMMA SizeType ==
    ASSUME Sizes, NEW S \in SUBSET Runs
    PROVE  Cardinality(S) \in Nat
  BY Zenon DEF Sizes

LEMMA SizePart ==
    ASSUME Sizes, NEW S \in SUBSET Runs, NEW T \in SUBSET S
    PROVE  Cardinality(T) <= Cardinality(S)
  BY Zenon DEF Sizes

LEMMA SizeAdd ==
    ASSUME Sizes, NEW S \in SUBSET Runs, NEW r \in Runs
    PROVE  Cardinality(S \cup {r}) = IF r \in S THEN Cardinality(S) ELSE Cardinality(S) + 1
  BY Zenon DEF Sizes

LEMMA SizeLess ==
    ASSUME Sizes, NEW S \in SUBSET Runs, NEW r \in Runs
    PROVE  Cardinality(S \ {r}) = IF r \in S THEN Cardinality(S) - 1 ELSE Cardinality(S)
  BY Zenon DEF Sizes

\* A queue with one more at the end, and without the entry at i
LEMMA AppendedQueue ==
    ASSUME NEW q \in Seq(Runs), Distinct(q), NEW r \in Runs, r \notin Entries(q)
    PROVE  /\ Append(q, r) \in Seq(Runs) /\ Distinct(Append(q, r))
           /\ Entries(Append(q, r)) = Entries(q) \cup {r}
  BY DEF Entries, Distinct

LEMMA WithoutEntry ==
    ASSUME NEW q \in Seq(Runs), Distinct(q), NEW i \in 1..Len(q)
    PROVE  /\ Without(q, i) \in Seq(Runs) /\ Distinct(Without(q, i))
           /\ Entries(Without(q, i)) = Entries(q) \ {q[i]}
  <1> DEFINE a == SubSeq(q, 1, i - 1)
             b == SubSeq(q, i + 1, Len(q))
             s == Without(q, i)
  <1>a. a \in Seq(Runs) /\ Len(a) = i - 1 /\ \A j \in 1..(i - 1) : a[j] = q[j]
    OBVIOUS
  <1>b. b \in Seq(Runs) /\ Len(b) = Len(q) - i /\ \A j \in 1..(Len(q) - i) : b[j] = q[i + j]
    OBVIOUS
  <1>c. s = a \o b
    BY Zenon DEF Without
  <1> HIDE DEF a, b, s
  <1>1. s \in Seq(Runs) /\ Len(s) = Len(q) - 1
    BY <1>a, <1>b, <1>c
  <1>2. \A j \in 1..Len(s) : s[j] = IF j < i THEN q[j] ELSE q[j + 1]
    <2> SUFFICES ASSUME NEW j \in 1..Len(s) PROVE s[j] = IF j < i THEN q[j] ELSE q[j + 1]
      BY Zenon
    <2>1. s[j] = IF j <= i - 1 THEN a[j] ELSE b[j - (i - 1)]
      BY <1>a, <1>b, <1>c, <1>1
    <2>2. CASE j < i
      BY <1>a, <2>1, <2>2
    <2>3. CASE ~ (j < i)
      <3>1. j - (i - 1) \in 1..(Len(q) - i) /\ i + (j - (i - 1)) = j + 1
        BY <1>1, <2>3
      <3> QED
        BY <1>b, <2>1, <2>3, <3>1
    <2> QED
      BY <2>2, <2>3, Zenon
  <1>3. \A j \in 1..Len(q) : j < i => s[j] = q[j]
    BY <1>1, <1>2
  <1>4. \A j \in 1..Len(q) : j > i => j - 1 \in 1..Len(s) /\ s[j - 1] = q[j]
    BY <1>1, <1>2
  <1>5. Distinct(s)
    BY <1>1, <1>2, SMTT(20) DEF Distinct
  <1>6. Entries(s) \subseteq Entries(q) \ {q[i]}
    BY <1>1, <1>2 DEF Distinct, Entries
  <1>7. \A j \in 1..Len(q) : j # i => q[j] \in Entries(s)
    <2> SUFFICES ASSUME NEW j \in 1..Len(q), j # i PROVE q[j] \in Entries(s)
      BY Zenon
    <2>1. CASE j < i
      <3>1. j \in 1..Len(s)
        BY <1>1, <2>1
      <3> QED
        BY <1>3, <2>1, <3>1, Zenon DEF Entries
    <2>2. CASE j > i
      BY <1>4, <2>2, Zenon DEF Entries
    <2> QED
      BY <2>1, <2>2
  <1>8. Entries(q) \ {q[i]} \subseteq Entries(s)
    BY <1>7, Zenon DEF Entries
  <1> QED
    BY <1>1, <1>5, <1>6, <1>8, Zenon DEF s

LEMMA EntriesOf == Queued = Entries(queue) /\ (queue \in Seq(Runs) => Queued \subseteq Runs)
  BY DEF Queued, Entries

---------------------------------------------------------------------------
\* The empty fleet satisfies the invariant.
LEMMA InitIInv ==
    ASSUME Sizes, Init
    PROVE  IInv
  <1> USE ConstantTypes
  <1>1. /\ Queued = {} /\ InFlight = {} /\ Taking = {} /\ Entering = {} /\ ~ FleetHalted
        /\ \A w : Place(w) = {}
    BY DEF Init, SchedInit, Queued, InFlight, Taking, Entering, FleetHalted, Place, NoCall
  <1>2. Cardinality({}) = 0
    BY Zenon DEF Sizes
  <1>3. Shape
    <2>1. SchedShape
      <3>1. profile \in [Runs -> Profiles \cup {NoProfile}]
        BY Zenon DEF Init, SchedInit
      <3>2. queue \in Seq(Runs)
        BY DEF Init, SchedInit
      <3>3. /\ running \subseteq Runs /\ checkpointed \subseteq running
            /\ frozenAll \in BOOLEAN /\ frozenTenants \subseteq Tenants /\ frozenWorkloads \subseteq Workloads
        BY Zenon DEF Init, SchedInit
      <3> QED
        BY <3>1, <3>2, <3>3, Zenon DEF SchedShape
    <2>2. CallShape
      BY DEF Init, NoCall, CallShape, CallType, SubmitSteps, Live
    <2>3. SpendShape
      BY Zenon DEF Init, BudgetInit, SpendShape, Keys, Tenants, ReportType, ReportSteps, NoReport
    <2> QED
      BY <2>1, <2>2, <2>3, Zenon DEF Shape
  <1>4. QueuedOnce
    BY <1>1 DEF Init, SchedInit, QueuedOnce, Distinct
  <1>5. Calls /\ Freed
    BY <1>1, Zenon DEF Init, SchedInit, Calls, Freed, Early, NoCall
  <1>6. Reported /\ OverBudgetEnds
    BY DEF Init, BudgetInit, NoReport, Reported, OverBudgetEnds
  <1>7. Halting /\ Placed
    <2>1. late = {} /\ late \cup Entering = {} /\ stranded = 0
      BY <1>1, Zenon DEF Init
    <2>2. /\ Cardinality(InFlight) = 0 /\ Cardinality(Queued) = 0 /\ Cardinality(Taking) = 0
          /\ \A w : Cardinality(Place(w)) = 0
      BY <1>1, <1>2, Zenon
    <2> QED
      BY <1>1, <2>1, <2>2 DEF Halting, Placed
  <1>8. Days
    <2> DEFINE zero == [r \in Runs |-> 0]
    <2>1. zero \in [Runs -> Nat] /\ Recorded = zero
      BY Zenon DEF Init, BudgetInit, NoReport, Recorded
    <2>2. \A k : Units(zero, Mine(k)) = {}
      BY DEF Units, Mine
    <2>3. \A r \in Runs : ClearedOf(r, zero)
      BY DEF Init, BudgetInit, NoReport, ClearedOf
    <2>4. \A k \in Keys : daySpend[k] = 0
      BY Zenon DEF Init, BudgetInit, Keys
    <2> HIDE DEF zero
    <2>5. Balanced(zero)
      BY <1>2, <2>1, <2>2, <2>3, <2>4 DEF Balanced
    <2> QED
      BY <2>1, <2>5, Zenon DEF Days
  <1> QED
    BY <1>3, <1>4, <1>5, <1>6, <1>7, <1>8, Zenon DEF IInv

---------------------------------------------------------------------------
\* What the steps leave alone, and how the submissions and the queue move

LEMMA OperatingFrame ==
    ASSUME Operating
    PROVE  UNCHANGED incidentFrame
  BY Zenon DEF Operating, PauseFleet, DrainFleet, ResumeFleet, UndrainFleet, NotifyOwners, Freeze

LEMMA UsageFrame ==
    ASSUME NEW r \in Runs, RecordUsage(r) \/ \E c \in Costs : Usage(r, c)
    PROVE  UNCHANGED usageFrame
  BY Zenon DEF RecordUsage, UsageAdd, UsageCompare, UsageSave, UsageFail, Usage

LEMMA RunFrame ==
    ASSUME NEW r \in Runs, Start(r) \/ Pause(r) \/ Checkpoint(r) \/ End(r) \/ Complete(r)
    PROVE  UNCHANGED runFrame
  BY Zenon DEF Start, Pause, Move, Checkpoint, End, Complete

\* The call of r goes to pc, the others stay.
At(r, pc) ==
    /\ sub' \in [Runs -> CallType] /\ sub'[r].pc = pc
    /\ \A x \in Runs \ {r} : sub'[x] = sub[x]

LEMMA GotoMoves ==
    ASSUME CallShape, NEW r \in Runs, NEW pc \in SubmitSteps, Goto(r, pc)
    PROVE  At(r, pc) /\ sub'[r].task = sub[r].task
  BY Zenon DEF CallShape, CallType, Goto, At

LEMMA TaskMoves ==
    ASSUME CallShape, NEW r \in Runs, NEW pc \in SubmitSteps, NEW t \in Runs,
           sub' = [sub EXCEPT ![r] = [pc |-> pc, task |-> t]]
    PROVE  At(r, pc) /\ sub'[r].task = t
  BY Zenon DEF CallShape, CallType, At

LEMMA Enqueues ==
    ASSUME SchedShape, QueuedOnce, NEW r \in Runs, r \notin Queued, Enqueue(r)
    PROVE  queue' \in Seq(Runs) /\ Distinct(queue') /\ Queued' = Queued \cup {r}
  <1>1. Queued = Entries(queue) /\ Queued' = Entries(queue')
    BY Zenon DEF Queued, Entries
  <1> QED
    BY <1>1, AppendedQueue, Zenon DEF Enqueue, SchedShape, QueuedOnce

LEMMA Dequeues ==
    ASSUME SchedShape, QueuedOnce, NEW t \in Queued, MoveToRunning(t)
    PROVE  /\ queue' \in Seq(Runs) /\ Distinct(queue') /\ Queued' = Queued \ {t}
           /\ running' = running \cup {t} /\ checkpointed' = checkpointed \ {t}
  <1>1. Queued = Entries(queue) /\ Queued' = Entries(queue')
    BY Zenon DEF Queued, Entries
  <1>2. PICK i \in 1..Len(queue) : queue[i] = t /\ queue' = Without(queue, i)
    BY Zenon DEF MoveToRunning, Without
  <1>3. queue' \in Seq(Runs) /\ Distinct(queue') /\ Entries(queue') = Entries(queue) \ {t}
    BY <1>2, WithoutEntry, Zenon DEF SchedShape, QueuedOnce
  <1> QED
    BY <1>1, <1>3, Zenon DEF MoveToRunning

\* The scheduler after each step that changes it: a new entry, an entry taken, a victim put
\* back or missed, a task completed.
LEMMA SubmitQueue ==
    ASSUME IInv, NEW r \in Runs, SchedulerSubmit(r)
    PROVE  /\ UNCHANGED <<profile, running, checkpointed, freezeVars, stranded>>
           /\ \/ UNCHANGED queue /\ At(r, "done")
              \/ /\ ~ Refuses(r) /\ At(r, "pick")
                 /\ queue' \in Seq(Runs) /\ Distinct(queue') /\ Queued' = Queued \cup {r}
  <1>1. r \notin Queued
    BY Zenon DEF IInv, Calls, SchedulerSubmit
  <1>2. UNCHANGED <<profile, running, checkpointed, freezeVars, stranded>>
    BY Zenon DEF SchedulerSubmit, submitFrame
  <1>3. CASE Refuses(r)
    BY <1>2, <1>3, GotoMoves, Zenon DEF SchedulerSubmit, IInv, Shape, SubmitSteps
  <1>4. CASE ~ Refuses(r)
    <2>1. Goto(r, "pick") /\ Enqueue(r)
      BY <1>4, Zenon DEF SchedulerSubmit
    <2>2. At(r, "pick")
      BY <2>1, GotoMoves, Zenon DEF IInv, Shape, SubmitSteps
    <2> QED
      BY <1>1, <1>2, <1>4, <2>1, <2>2, Enqueues, Zenon DEF IInv, Shape
  <1> QED
    BY <1>3, <1>4, Zenon

LEMMA TakeQueue ==
    ASSUME IInv, NEW r \in Runs, SchedulerTake(r)
    PROVE  /\ UNCHANGED <<profile, freezeVars>> /\ (At(r, "done") \/ At(r, "preempt"))
           /\ sub'[r].task = sub[r].task /\ sub[r].task \in Runs
           /\ \/ /\ sub[r].task \in Queued /\ UNCHANGED stranded
                 /\ queue' \in Seq(Runs) /\ Distinct(queue') /\ Queued' = Queued \ {sub[r].task}
                 /\ running' = running \cup {sub[r].task} /\ checkpointed' = checkpointed \ {sub[r].task}
              \/ UNCHANGED <<queue, running, checkpointed>> /\ stranded' = stranded + 1
  <1>1. UNCHANGED <<profile, freezeVars>> /\ sub[r].task \in Runs
    BY Zenon DEF SchedulerTake, submitFrame, IInv, Calls
  <1>2. CASE sub[r].task \in Queued
    <2>1. /\ MoveToRunning(sub[r].task) /\ UNCHANGED stranded
          /\ Goto(r, IF sub[r].task = r /\ ~ preemptible(r) THEN "preempt" ELSE "done")
      BY <1>2, Zenon DEF SchedulerTake
    <2>2. (At(r, "done") \/ At(r, "preempt")) /\ sub'[r].task = sub[r].task
      BY <2>1, GotoMoves, Zenon DEF IInv, Shape, SubmitSteps
    <2> QED
      BY <1>1, <1>2, <2>1, <2>2, Dequeues, Zenon DEF IInv, Shape
  <1>3. CASE sub[r].task \notin Queued
    <2>1. Goto(r, "done") /\ stranded' = stranded + 1 /\ UNCHANGED <<queue, running, checkpointed>>
      BY <1>3, Zenon DEF SchedulerTake
    <2>2. At(r, "done") /\ sub'[r].task = sub[r].task
      BY <2>1, GotoMoves, Zenon DEF IInv, Shape, SubmitSteps
    <2> QED
      BY <1>1, <2>1, <2>2, Zenon
  <1> QED
    BY <1>2, <1>3, Zenon

LEMMA RequeueQueue ==
    ASSUME IInv, NEW r \in Runs, SchedulerRequeue(r)
    PROVE  /\ UNCHANGED <<profile, freezeVars>> /\ At(r, "cancel") /\ stranded' = stranded + 1
           /\ sub'[r].task = sub[r].task /\ sub[r].task \in Runs
           /\ running' = running \ {sub[r].task} /\ checkpointed' = checkpointed \ {sub[r].task}
           /\ queue' \in Seq(Runs) /\ Distinct(queue')
           /\ Queued' = IF sub[r].task \in running THEN Queued \cup {sub[r].task} ELSE Queued
  <1>1. UNCHANGED <<profile, freezeVars>> /\ sub[r].task \in Runs
    BY Zenon DEF SchedulerRequeue, submitFrame, IInv, Calls
  <1>2. /\ Requeue(sub[r].task) /\ stranded' = stranded + 1 /\ Goto(r, "cancel")
    BY Zenon DEF SchedulerRequeue
  <1>3. At(r, "cancel") /\ sub'[r].task = sub[r].task
    BY <1>2, GotoMoves, Zenon DEF IInv, Shape, SubmitSteps
  <1>4. running' = running \ {sub[r].task} /\ checkpointed' = checkpointed \ {sub[r].task}
    BY <1>2, Zenon DEF Requeue, CompleteTask
  <1>5. CASE sub[r].task \in running
    <2>1. Enqueue(sub[r].task) /\ sub[r].task \notin Queued
      BY <1>2, <1>5, Zenon DEF Requeue, IInv, QueuedOnce
    <2> QED
      BY <1>1, <1>2, <1>3, <1>4, <1>5, <2>1, Enqueues, Zenon DEF IInv, Shape
  <1>6. CASE sub[r].task \notin running
    <2>1. UNCHANGED queue /\ UNCHANGED Queued
      BY <1>2, <1>6, Zenon DEF Requeue, Queued
    <2> QED
      BY <1>1, <1>2, <1>3, <1>4, <1>6, <2>1, Zenon DEF IInv, Shape, SchedShape, QueuedOnce
  <1> QED
    BY <1>5, <1>6, Zenon

---------------------------------------------------------------------------
\* Each conjunct is kept by every step: first the scheduler's state.

LEMMA SchedKept ==
    ASSUME IInv, [Next]_vars
    PROVE  SchedShape' /\ QueuedOnce'
  <1>s. SchedShape /\ QueuedOnce
    BY Zenon DEF IInv, Shape
  <1>0. CASE UNCHANGED schedVars
    BY <1>s, <1>0, Zenon DEF schedVars, freezeVars, SchedShape, QueuedOnce, Queued
  <1>1. ASSUME NEW r \in Runs, Submit(r) PROVE SchedShape' /\ QueuedOnce'
    <2>1. ASSUME NEW p \in Profiles, GateHalt(r, p) PROVE SchedShape' /\ QueuedOnce'
      <3>1. profile' \in [Runs -> Profiles \cup {NoProfile}]
        BY <1>s, <2>1, Zenon DEF GateHalt, SchedShape
      <3>2. UNCHANGED <<queue, running, checkpointed, frozenAll, frozenTenants, frozenWorkloads>>
        BY <2>1, Zenon DEF GateHalt, freezeVars
      <3> QED
        BY <1>s, <3>1, <3>2, Zenon DEF SchedShape, QueuedOnce, Queued
    <2>2. CASE SchedulerSubmit(r)
      <3>1. r \notin running
        BY <2>2, Zenon DEF IInv, Calls, SchedulerSubmit
      <3>2. CASE UNCHANGED queue
        <4>1. UNCHANGED schedVars
          BY <2>2, <3>2, SubmitQueue, Zenon DEF schedVars, freezeVars
        <4> QED
          BY <1>0, <4>1, Zenon
      <3>3. CASE queue' \in Seq(Runs) /\ Distinct(queue') /\ Queued' = Queued \cup {r}
        BY <1>s, <2>2, <3>1, <3>3, SubmitQueue, Zenon DEF freezeVars, SchedShape, QueuedOnce
      <3> QED
        BY <2>2, <3>2, <3>3, SubmitQueue, Zenon
    <2>3. CASE SchedulerTake(r)
      <3>1. CASE UNCHANGED <<queue, running, checkpointed>>
        BY <1>s, <2>3, <3>1, TakeQueue, Zenon DEF freezeVars, SchedShape, QueuedOnce, Queued
      <3>2. CASE /\ queue' \in Seq(Runs) /\ Distinct(queue') /\ Queued' = Queued \ {sub[r].task}
                 /\ running' = running \cup {sub[r].task} /\ checkpointed' = checkpointed \ {sub[r].task}
        <4>1. UNCHANGED <<profile, frozenAll, frozenTenants, frozenWorkloads>> /\ sub[r].task \in Runs
          BY <2>3, TakeQueue, Zenon DEF freezeVars
        <4> QED
          BY <1>s, <3>2, <4>1, Zenon DEF SchedShape, QueuedOnce
      <3> QED
        BY <2>3, <3>1, <3>2, TakeQueue, Zenon
    <2>4. CASE SchedulerRequeue(r)
      <3>1. UNCHANGED <<profile, frozenAll, frozenTenants, frozenWorkloads>> /\ sub[r].task \in Runs
        BY <2>4, RequeueQueue, Zenon DEF freezeVars
      <3>2. /\ running' = running \ {sub[r].task} /\ checkpointed' = checkpointed \ {sub[r].task}
            /\ queue' \in Seq(Runs) /\ Distinct(queue') /\ Queued' \subseteq Queued \cup {sub[r].task}
        BY <2>4, RequeueQueue, Zenon
      <3> QED
        BY <1>s, <3>1, <3>2, Zenon DEF SchedShape, QueuedOnce
    <2>5. CASE \/ \E a \in BOOLEAN : GateBudget(r, a)
               \/ \E s \in {"queued", "paused"}, q \in BOOLEAN : SaveRun(r, s, q)
               \/ SchedulerPick(r) \/ SchedulerPreempt(r) \/ CancelVictim(r)
      BY <1>0, <2>5, Zenon DEF GateBudget, SaveRun, SchedulerPick, SchedulerPreempt, CancelVictim, submitFrame, schedVars
    <2> QED
      BY <1>1, <2>1, <2>2, <2>3, <2>4, <2>5, Zenon DEF Submit
  <1>2. ASSUME NEW r \in Runs, Start(r) \/ Pause(r) \/ End(r) PROVE SchedShape' /\ QueuedOnce'
    BY <1>0, <1>2, Zenon DEF Start, Pause, End, Move, runFrame, schedVars
  <1>3. ASSUME NEW r \in Runs, Checkpoint(r) PROVE SchedShape' /\ QueuedOnce'
    BY <1>s, <1>3, Zenon DEF Checkpoint, MarkCheckpoint, runFrame, freezeVars, SchedShape, QueuedOnce, Queued
  <1>4. ASSUME NEW r \in Runs, Complete(r) PROVE SchedShape' /\ QueuedOnce'
    <2>1. /\ running' = running \ {r} /\ checkpointed' = checkpointed \ {r}
          /\ UNCHANGED <<profile, queue, frozenAll, frozenTenants, frozenWorkloads>>
      BY <1>4, Zenon DEF Complete, CompleteTask, runFrame, freezeVars
    <2> QED
      BY <1>s, <2>1, Zenon DEF SchedShape, QueuedOnce, Queued
  <1>5. ASSUME NEW r \in Runs, RecordUsage(r) \/ \E c \in Costs : Usage(r, c) PROVE SchedShape' /\ QueuedOnce'
    BY <1>0, <1>5, UsageFrame, Zenon DEF usageFrame
  <1>6. CASE Operating
    <2>1. UNCHANGED <<profile, queue, running, checkpointed>>
      BY <1>6, OperatingFrame, Zenon DEF incidentFrame
    <2>2. /\ frozenAll' \in BOOLEAN /\ frozenTenants' \subseteq Tenants /\ frozenWorkloads' \subseteq Workloads
      BY <1>s, <1>6, Zenon DEF Operating, PauseFleet, DrainFleet, ResumeFleet, UndrainFleet, NotifyOwners, Freeze,
         FreezeQueue, UnfreezeQueue, freezeVars, SchedShape
    <2> QED
      BY <1>s, <2>1, <2>2, Zenon DEF SchedShape, QueuedOnce, Queued
  <1>7. CASE UNCHANGED vars
    BY <1>0, <1>7, Zenon DEF vars
  <1> QED
    BY <1>1, <1>2, <1>3, <1>4, <1>5, <1>6, <1>7, Zenon DEF Next, Lifecycle, Driving

---------------------------------------------------------------------------
\* The calls

\* Where the steps of a submission that leave the scheduler alone take it
LEMMA SubmitMoves ==
    ASSUME IInv, NEW r \in Runs
    PROVE  /\ \A p \in Profiles : GateHalt(r, p) => At(r, "refused") \/ (At(r, "budget") /\ ~ Halted(p))
           /\ \A a \in BOOLEAN : GateBudget(r, a) => At(r, "save") \/ At(r, "refused")
           /\ \A s \in {"queued", "paused"}, q \in BOOLEAN : SaveRun(r, s, q) => At(r, "enqueue") \/ At(r, "done")
           /\ SchedulerPick(r) => At(r, "done") \/ (At(r, "take") /\ sub'[r].task \in Runs)
           /\ SchedulerPreempt(r) => At(r, "done") \/ (At(r, "requeue") /\ sub'[r].task \in Runs)
           /\ CancelVictim(r) => At(r, "done")
  <1>s. CallShape /\ {"budget", "refused", "save", "enqueue", "done", "take", "requeue"} \subseteq SubmitSteps
    BY Zenon DEF IInv, Shape, SubmitSteps
  <1>1. ASSUME NEW p \in Profiles, GateHalt(r, p) PROVE At(r, "refused") \/ (At(r, "budget") /\ ~ Halted(p))
    BY <1>s, <1>1, GotoMoves, Zenon DEF GateHalt
  <1>2. ASSUME NEW a \in BOOLEAN, GateBudget(r, a) PROVE At(r, "save") \/ At(r, "refused")
    <2>1. Goto(r, "save") \/ Goto(r, "refused")
      BY <1>2, Zenon DEF GateBudget
    <2> QED
      BY <1>s, <2>1, GotoMoves, Zenon
  <1>3. ASSUME NEW s \in {"queued", "paused"}, NEW q \in BOOLEAN, SaveRun(r, s, q)
        PROVE  At(r, "enqueue") \/ At(r, "done")
    <2>1. Goto(r, "enqueue") \/ Goto(r, "done")
      BY <1>3, Zenon DEF SaveRun
    <2> QED
      BY <1>s, <2>1, GotoMoves, Zenon
  <1>4. ASSUME SchedulerPick(r) PROVE At(r, "done") \/ (At(r, "take") /\ sub'[r].task \in Runs)
    <2>1. CASE Goto(r, "done")
      BY <1>s, <2>1, GotoMoves, Zenon
    <2>2. ASSUME NEW t \in Best, sub' = [sub EXCEPT ![r] = [pc |-> "take", task |-> t]]
          PROVE  At(r, "take") /\ sub'[r].task \in Runs
      <3>1. t \in Runs
        BY <2>2 DEF Best, IInv, Shape, SchedShape
      <3> QED
        BY <1>s, <2>2, <3>1, TaskMoves, Zenon
    <2> QED
      BY <1>4, <2>1, <2>2, Zenon DEF SchedulerPick
  <1>5. ASSUME SchedulerPreempt(r) PROVE At(r, "done") \/ (At(r, "requeue") /\ sub'[r].task \in Runs)
    <2>1. CASE Goto(r, "done")
      BY <1>s, <2>1, GotoMoves, Zenon
    <2>2. ASSUME NEW v \in Victims(r), sub' = [sub EXCEPT ![r] = [pc |-> "requeue", task |-> v]]
          PROVE  At(r, "requeue") /\ sub'[r].task \in Runs
      <3>1. v \in Runs
        BY <2>2, Zenon DEF Victims, Candidates, IInv, Shape, SchedShape
      <3> QED
        BY <1>s, <2>2, <3>1, TaskMoves, Zenon
    <2> QED
      BY <1>5, <2>1, <2>2, Zenon DEF SchedulerPreempt
  <1>6. ASSUME CancelVictim(r) PROVE At(r, "done")
    BY <1>s, <1>6, GotoMoves, Zenon DEF CancelVictim
  <1> QED
    BY <1>1, <1>2, <1>3, <1>4, <1>5, <1>6, Zenon

\* Every step of a submission moves its call and no other.
LEMMA SubmitAt ==
    ASSUME IInv, NEW r \in Runs, Submit(r)
    PROVE  \E pc \in SubmitSteps \ {"idle"} : At(r, pc)
  <1>1. At(r, "refused") \/ At(r, "budget") \/ At(r, "save") \/ At(r, "enqueue") \/ At(r, "pick")
        \/ At(r, "take") \/ At(r, "preempt") \/ At(r, "requeue") \/ At(r, "cancel") \/ At(r, "done")
    BY SubmitMoves, SubmitQueue, TakeQueue, RequeueQueue, Zenon DEF Submit
  <1> QED
    BY <1>1, Zenon DEF SubmitSteps

\* The incident at i, which is now active or not, changes in its place and keeps its scope.
Replaced(i, active) ==
    /\ incidents' \in Seq(IncidentType) /\ Len(incidents') = Len(incidents)
    /\ incidents'[i].scope = incidents[i].scope /\ incidents'[i].active = active
    /\ \A j \in 1..Len(incidents) \ {i} : incidents'[j] = incidents[j]

LEMMA IncidentMoves ==
    ASSUME CallShape, NEW i \in 1..Len(incidents)
    PROVE  /\ DrainFleet(i) \/ UndrainFleet(i) => Replaced(i, Active(i))
           /\ ResumeFleet(i) => Replaced(i, FALSE)
           /\ \A owners \in BOOLEAN : NotifyOwners(i, owners) => Replaced(i, Active(i) \/ owners)
  <1> DEFINE rec == incidents[i]
  <1>0. incidents \in Seq(IncidentType) /\ rec \in IncidentType
    BY DEF CallShape
  <1>p. ASSUME NEW new \in IncidentType, new.scope = rec.scope, incidents' = [incidents EXCEPT ![i] = new]
        PROVE  Replaced(i, new.active)
    BY <1>0, <1>p DEF Replaced
  <1>1. ASSUME DrainFleet(i) PROVE Replaced(i, Active(i))
    <2> DEFINE new == [rec EXCEPT !.pausing = "notify"]
    <2>1. incidents' = [incidents EXCEPT ![i] = new]
      BY <1>1, Zenon DEF DrainFleet
    <2>2. new \in IncidentType /\ new.scope = rec.scope /\ new.active = Active(i)
      BY <1>0, Zenon DEF IncidentType, PauseSteps, Active
    <2> QED
      BY <1>p, <2>1, <2>2, Zenon
  <1>2. ASSUME UndrainFleet(i) PROVE Replaced(i, Active(i))
    <2> DEFINE new == [rec EXCEPT !.lifting = @ - 1]
    <2>1. incidents' = [incidents EXCEPT ![i] = new] /\ rec.lifting > 0
      BY <1>2, Zenon DEF UndrainFleet
    <2>2. new \in IncidentType /\ new.scope = rec.scope /\ new.active = Active(i)
      BY <1>0, <2>1 DEF IncidentType, Active
    <2> QED
      BY <1>p, <2>1, <2>2, Zenon
  <1>3. ASSUME ResumeFleet(i) PROVE Replaced(i, FALSE)
    <2> DEFINE new == [rec EXCEPT !.active = FALSE, !.lifting = @ + 1]
    <2>1. incidents' = [incidents EXCEPT ![i] = new]
      BY <1>3, Zenon DEF ResumeFleet
    <2>2. new \in IncidentType /\ new.scope = rec.scope /\ new.active = FALSE
      <3> DEFINE n == rec.lifting + 1
                 mid == [rec EXCEPT !.active = FALSE]
      <3>1. n \in Nat /\ new = [mid EXCEPT !.lifting = n]
        BY <1>0 DEF IncidentType
      <3>2. mid \in IncidentType /\ mid.scope = rec.scope /\ mid.active = FALSE
        BY <1>0, Zenon DEF IncidentType
      <3> HIDE DEF n, mid
      <3> QED
        BY <3>1, <3>2, Zenon DEF IncidentType
    <2> QED
      BY <1>p, <2>1, <2>2, Zenon
  <1>4. ASSUME NEW owners \in BOOLEAN, NotifyOwners(i, owners) PROVE Replaced(i, Active(i) \/ owners)
    <2> DEFINE new == [rec EXCEPT !.pausing = "done", !.active = @ \/ owners]
    <2>1. incidents' = [incidents EXCEPT ![i] = new]
      BY <1>4, Zenon DEF NotifyOwners
    <2>2. new \in IncidentType /\ new.scope = rec.scope /\ new.active = (Active(i) \/ owners)
      BY <1>0, Zenon DEF IncidentType, PauseSteps, Active
    <2> QED
      BY <1>p, <2>1, <2>2, Zenon
  <1> QED
    BY <1>1, <1>2, <1>3, <1>4, Zenon

LEMMA CallShapeKept ==
    ASSUME IInv, [Next]_vars
    PROVE  CallShape'
  <1> USE ConstantTypes
  <1>s. CallShape
    BY Zenon DEF IInv, Shape
  <1>1. ASSUME NEW r \in Runs, Submit(r) PROVE CallShape'
    <2>1. sub' \in [Runs -> CallType]
      BY <1>1, SubmitAt, Zenon DEF At
    <2>2. UNCHANGED <<incidents, reports, ops, stray>>
      BY <1>1, Zenon DEF Submit, GateHalt, GateBudget, SaveRun, SchedulerSubmit, SchedulerPick, SchedulerTake,
         SchedulerPreempt, SchedulerRequeue, CancelVictim, submitFrame
    <2>3. late' \subseteq Runs
      <3>1. UNCHANGED late \/ late' = late \cup {r}
        BY <1>1, Zenon DEF Submit, GateHalt, GateBudget, SaveRun, SchedulerSubmit, SchedulerPick, SchedulerTake,
           SchedulerPreempt, SchedulerRequeue, CancelVictim
      <3> QED
        BY <1>s, <3>1, Zenon DEF CallShape
    <2>4. run' \in [Runs -> Live \cup {"none", "ended"}] /\ ending' \subseteq Runs
      <3>1. ASSUME NEW s \in {"queued", "paused"}, NEW q \in BOOLEAN, SaveRun(r, s, q)
            PROVE  run' \in [Runs -> Live \cup {"none", "ended"}] /\ ending' \subseteq Runs
        BY <1>s, <3>1, Zenon DEF SaveRun, CallShape, Live
      <3>2. ASSUME CancelVictim(r) PROVE run' \in [Runs -> Live \cup {"none", "ended"}] /\ ending' \subseteq Runs
        <4>1. sub[r].task \in Runs
          BY <3>2, Zenon DEF CancelVictim, IInv, Calls
        <4> QED
          BY <1>s, <3>2, <4>1, Zenon DEF CancelVictim, CallShape, Live
      <3>3. UNCHANGED <<run, ending>> \/ CancelVictim(r) \/ \E s \in {"queued", "paused"}, q \in BOOLEAN : SaveRun(r, s, q)
        BY <1>1, Zenon DEF Submit, GateHalt, GateBudget, SchedulerSubmit, SchedulerPick, SchedulerTake,
           SchedulerPreempt, SchedulerRequeue
      <3> QED
        BY <1>s, <3>1, <3>2, <3>3, Zenon DEF CallShape
    <2>5. stranded' \in Nat
      <3>1. UNCHANGED stranded \/ stranded' = stranded + 1
        BY <1>1, Zenon DEF Submit, GateHalt, GateBudget, SaveRun, SchedulerSubmit, SchedulerPick, SchedulerTake,
           SchedulerPreempt, SchedulerRequeue, CancelVictim
      <3> QED
        BY <1>s, <3>1 DEF CallShape
    <2> QED
      BY <1>s, <2>1, <2>2, <2>3, <2>4, <2>5, Zenon DEF CallShape
  <1>2. ASSUME NEW r \in Runs, Start(r) \/ Pause(r) \/ Checkpoint(r) \/ End(r) \/ Complete(r) PROVE CallShape'
    <2>1. UNCHANGED <<sub, incidents, stranded, late, ops, reports>>
      BY <1>2, RunFrame, Zenon DEF runFrame, Start, Pause, Move, Checkpoint, End, Complete
    <2>2. run' \in [Runs -> Live \cup {"none", "ended"}] /\ ending' \subseteq Runs /\ stray' \subseteq Runs
      BY <1>s, <1>2, Zenon DEF Start, Pause, Move, Checkpoint, End, Complete, CallShape, Live
    <2> QED
      BY <1>s, <2>1, <2>2, Zenon DEF CallShape
  <1>3. ASSUME NEW r \in Runs, RecordUsage(r) \/ \E c \in Costs : Usage(r, c) PROVE CallShape'
    <2>1. UNCHANGED <<sub, incidents, stray, stranded, late, ops>>
      BY <1>3, UsageFrame, Zenon DEF usageFrame
    <2>2. run' \in [Runs -> Live \cup {"none", "ended"}] /\ ending' \subseteq Runs
      <3>1. report[r].snap \in {"none"} \cup Live
        BY Zenon DEF IInv, Shape, SpendShape, ReportType
      <3> QED
        BY <1>s, <1>3, <3>1, Zenon DEF RecordUsage, UsageAdd, UsageCompare, UsageSave, UsageFail, Usage, CallShape, Live
    <2>3. reports' \in [Runs -> 0..MaxReports]
      BY <1>s, <1>3, SMTT(20) DEF RecordUsage, UsageAdd, UsageCompare, UsageSave, UsageFail, Usage, CallShape
    <2> QED
      BY <1>s, <2>1, <2>2, <2>3, Zenon DEF CallShape
  <1>4. CASE Operating
    <2>1. UNCHANGED <<run, sub, ending, reports, stray, stranded>>
      BY <1>4, OperatingFrame, Zenon DEF incidentFrame
    <2>2. late' \subseteq Runs
      BY <1>s, <1>4, Zenon DEF Operating, PauseFleet, DrainFleet, ResumeFleet, UndrainFleet, NotifyOwners, Freeze, CallShape
    <2>3. ops' \in 0..MaxOps
      <3>1. UNCHANGED ops \/ Operate
        BY <1>4, Zenon DEF Operating, PauseFleet, DrainFleet, ResumeFleet, UndrainFleet, NotifyOwners, Freeze
      <3> QED
        BY <1>s, <3>1 DEF CallShape, Operate
    <2>4. incidents' \in Seq(IncidentType)
      <3>1. ASSUME NEW s \in Scopes, PauseFleet(s) PROVE incidents' \in Seq(IncidentType)
        BY <1>s, <3>1 DEF PauseFleet, CallShape, IncidentType, PauseSteps
      <3>2. ASSUME NEW i \in 1..Len(incidents),
                   \/ DrainFleet(i) \/ ResumeFleet(i) \/ UndrainFleet(i) \/ \E owners \in BOOLEAN : NotifyOwners(i, owners)
            PROVE  incidents' \in Seq(IncidentType)
        BY <1>s, <3>2, IncidentMoves, Zenon DEF Replaced
      <3>4. ASSUME NEW t \in Tenants, NEW ws \in SUBSET Workloads, Freeze(t, ws) PROVE incidents' \in Seq(IncidentType)
        BY <1>s, <3>4, Zenon DEF Freeze, CallShape
      <3> QED
        BY <1>4, <3>1, <3>2, <3>4, Zenon DEF Operating
    <2> QED
      BY <1>s, <2>1, <2>2, <2>3, <2>4, Zenon DEF CallShape
  <1>5. CASE UNCHANGED vars
    BY <1>s, <1>5, Zenon DEF vars, CallShape
  <1> QED
    BY <1>1, <1>2, <1>3, <1>4, <1>5, Zenon DEF Next, Lifecycle, Driving

\* A step of the call of r, and a step of another kind
LEMMA CallsMove ==
    ASSUME IInv, NEW r \in Runs, NEW pc \in SubmitSteps \ {"idle"}, At(r, pc),
           profile'[r] \in Profiles, \A x \in Runs \ {r} : profile'[x] = profile[x],
           pc \in Early => run'[r] = "none",
           \A x \in Runs \ {r} : run'[x] = run[x] \/ run[x] \in Live,
           running' \cup Queued' \subseteq running \cup Queued \cup {r},
           pc \in Early \cup {"enqueue"} => r \notin running' \cup Queued',
           pc \in {"take", "requeue", "cancel"} => sub'[r].task \in Runs
    PROVE  Calls'
  <1> SUFFICES ASSUME NEW x \in Runs
               PROVE  /\ sub'[x].pc # "idle" => profile'[x] \in Profiles
                      /\ sub'[x].pc \in Early => run'[x] = "none"
                      /\ x \in running' \cup Queued' => sub'[x].pc \notin Early \cup {"enqueue"}
                      /\ sub'[x].pc \in {"take", "requeue", "cancel"} => sub'[x].task \in Runs
    BY Zenon DEF Calls, Early
  <1>1. CASE x = r
    BY <1>1, Zenon DEF At
  <1>2. CASE x # r
    <2>1. sub'[x] = sub[x] /\ profile'[x] = profile[x] /\ (run'[x] = run[x] \/ run[x] \in Live)
      BY <1>2, Zenon DEF At
    <2> QED
      BY <1>2, <2>1, Zenon DEF IInv, Calls, Live
  <1> QED
    BY <1>1, <1>2, Zenon

LEMMA CallsStay ==
    ASSUME IInv, UNCHANGED <<profile, sub>>, \A x \in Runs : run'[x] = run[x] \/ run[x] # "none",
           running' \cup Queued' \subseteq running \cup Queued
    PROVE  Calls'
  BY Zenon DEF IInv, Calls

\* A call that is past the first step has its profile, and its run its row after the save.
LEMMA CallsOf ==
    ASSUME IInv, NEW r \in Runs
    PROVE  /\ sub[r].pc # "idle" => profile[r] \in Profiles
           /\ sub[r].pc \in Early => run[r] = "none" /\ r \notin running \cup Queued
           /\ r \in running \cup Queued => sub[r].pc \notin Early \cup {"enqueue"}
  BY Zenon DEF IInv, Calls

LEMMA SubmitCalls ==
    ASSUME IInv, NEW r \in Runs, Submit(r)
    PROVE  Calls'
  <1>1. ASSUME NEW p \in Profiles, GateHalt(r, p) PROVE Calls'
    <2>1. profile'[r] \in Profiles /\ (\A x \in Runs \ {r} : profile'[x] = profile[x])
      BY <1>1, Zenon DEF GateHalt, IInv, Shape, SchedShape
    <2>2. UNCHANGED <<run, running>> /\ UNCHANGED Queued
      BY <1>1, Zenon DEF GateHalt, Queued
    <2>3. run[r] = "none" /\ r \notin running \cup Queued
      BY <1>1, CallsOf, Zenon DEF GateHalt, Early
    <2>4. At(r, "refused") \/ At(r, "budget")
      BY <1>1, SubmitMoves, Zenon
    <2>5. {"refused", "budget"} \subseteq (SubmitSteps \ {"idle"})
      BY Zenon DEF SubmitSteps
    <2> QED
      BY <2>1, <2>2, <2>3, <2>4, <2>5, CallsMove, Zenon
  <1>2. ASSUME NEW a \in BOOLEAN, GateBudget(r, a) PROVE Calls'
    <2>1. UNCHANGED <<profile, run, running>> /\ UNCHANGED Queued
      BY <1>2, Zenon DEF GateBudget, submitFrame, Queued
    <2>2. run[r] = "none" /\ r \notin running \cup Queued /\ profile[r] \in Profiles
      BY <1>2, CallsOf, Zenon DEF GateBudget, Early
    <2>3. At(r, "save") \/ At(r, "refused")
      BY <1>2, SubmitMoves, Zenon
    <2>4. {"refused", "save"} \subseteq (SubmitSteps \ {"idle"})
      BY Zenon DEF SubmitSteps
    <2> QED
      BY <2>1, <2>2, <2>3, <2>4, CallsMove, Zenon
  <1>3. ASSUME NEW s \in {"queued", "paused"}, NEW q \in BOOLEAN, SaveRun(r, s, q) PROVE Calls'
    <2>1. UNCHANGED <<profile, running>> /\ UNCHANGED Queued /\ \A x \in Runs \ {r} : run'[x] = run[x]
      <3>1. UNCHANGED <<profile, running>> /\ UNCHANGED Queued /\ run' = [run EXCEPT ![r] = s]
        BY <1>3, Zenon DEF SaveRun, submitFrame, Queued
      <3> QED
        BY <3>1, Zenon DEF IInv, Shape, CallShape
    <2>2. r \notin running \cup Queued /\ profile[r] \in Profiles
      BY <1>3, CallsOf, Zenon DEF SaveRun, Early
    <2>3. At(r, "enqueue") \/ At(r, "done")
      BY <1>3, SubmitMoves, Zenon
    <2>4. {"enqueue", "done"} \subseteq (SubmitSteps \ {"idle"}) \ Early
      BY Zenon DEF SubmitSteps, Early
    <2> QED
      BY <2>1, <2>2, <2>3, <2>4, CallsMove, Zenon
  <1>4. CASE SchedulerSubmit(r)
    <2>1. UNCHANGED <<profile, run, running>> /\ profile[r] \in Profiles
      BY <1>4, CallsOf, Zenon DEF SchedulerSubmit, submitFrame
    <2>2. Queued' \subseteq Queued \cup {r} /\ (At(r, "done") \/ At(r, "pick"))
      BY <1>4, SubmitQueue, Zenon DEF Queued
    <2>3. {"done", "pick"} \subseteq (SubmitSteps \ {"idle"}) \ (Early \cup {"enqueue"})
      BY Zenon DEF SubmitSteps, Early
    <2> QED
      BY <2>1, <2>2, <2>3, CallsMove, Zenon
  <1>5. CASE SchedulerPick(r) \/ SchedulerPreempt(r)
    <2>1. UNCHANGED <<profile, run, running>> /\ UNCHANGED Queued /\ profile[r] \in Profiles
      <3>1. UNCHANGED <<profile, run, running>> /\ UNCHANGED Queued /\ sub[r].pc \in {"pick", "preempt"}
        BY <1>5, Zenon DEF SchedulerPick, SchedulerPreempt, submitFrame, Queued
      <3> QED
        BY <3>1, CallsOf, Zenon
    <2>2. At(r, "done") \/ (At(r, "take") /\ sub'[r].task \in Runs) \/ (At(r, "requeue") /\ sub'[r].task \in Runs)
      BY <1>5, SubmitMoves, Zenon
    <2>3. {"done", "take", "requeue"} \subseteq (SubmitSteps \ {"idle"}) \ (Early \cup {"enqueue"})
      BY Zenon DEF SubmitSteps, Early
    <2> QED
      BY <2>1, <2>2, <2>3, CallsMove, Zenon
  <1>6. CASE SchedulerTake(r)
    <2>1. UNCHANGED <<profile, run>> /\ profile[r] \in Profiles
      BY <1>6, CallsOf, Zenon DEF SchedulerTake, submitFrame
    <2>2. running' \cup Queued' \subseteq running \cup Queued /\ (At(r, "done") \/ At(r, "preempt"))
      BY <1>6, TakeQueue, Zenon DEF Queued
    <2>3. {"done", "preempt"} \subseteq (SubmitSteps \ {"idle"}) \ (Early \cup {"enqueue"})
      BY Zenon DEF SubmitSteps, Early
    <2> QED
      BY <2>1, <2>2, <2>3, CallsMove, Zenon
  <1>7. CASE SchedulerRequeue(r)
    <2>1. UNCHANGED <<profile, run>> /\ profile[r] \in Profiles
      BY <1>7, CallsOf, Zenon DEF SchedulerRequeue, submitFrame
    <2>2. running' \cup Queued' \subseteq running \cup Queued /\ At(r, "cancel") /\ sub'[r].task \in Runs
      BY <1>7, RequeueQueue, Zenon
    <2>3. "cancel" \in (SubmitSteps \ {"idle"}) \ (Early \cup {"enqueue"})
      BY Zenon DEF SubmitSteps, Early
    <2> QED
      BY <2>1, <2>2, <2>3, CallsMove, Zenon
  <1>8. CASE CancelVictim(r)
    <2>1. UNCHANGED profile /\ UNCHANGED running /\ UNCHANGED Queued /\ sub[r].pc = "cancel"
      BY <1>8, Zenon DEF CancelVictim, submitFrame, Queued
    <2>2. profile[r] \in Profiles /\ \A x \in Runs : run'[x] = run[x] \/ run[x] \in Live
      BY <1>8, <2>1, CallsOf, Zenon DEF CancelVictim, IInv, Shape, CallShape
    <2>3. At(r, "done") /\ "done" \in (SubmitSteps \ {"idle"}) \ (Early \cup {"enqueue"})
      BY <1>8, SubmitMoves, Zenon DEF SubmitSteps, Early
    <2> QED
      BY <2>1, <2>2, <2>3, CallsMove, Zenon
  <1> QED
    BY <1>1, <1>2, <1>3, <1>4, <1>5, <1>6, <1>7, <1>8, Zenon DEF Submit

\* The steps that are not of a submission change only rows that are there, and take tasks
\* out of the scheduler; one that ends a run leaves it to be completed.
Others ==
    /\ UNCHANGED <<profile, sub, queue, stranded>>
    /\ \A x \in Runs : run'[x] = run[x] \/ (run[x] # "none" /\ run'[x] # "none")
    /\ \A x \in Runs : run'[x] = "ended" /\ x \notin ending' => run[x] = "ended"
    /\ \/ UNCHANGED <<running, stray>> /\ ending \subseteq ending'
       \/ \E r \in ending : /\ ending' = ending \ {r} /\ running' = running \ {r}
                            /\ stray' = IF r \in running THEN stray ELSE stray \cup {r}

LEMMA OtherSteps ==
    ASSUME IInv, [Next]_vars
    PROVE  Others \/ \E r \in Runs : Submit(r)
  <1>s. run \in [Runs -> Live \cup {"none", "ended"}] /\ Reported
    BY Zenon DEF IInv, Shape, CallShape
  <1>1. ASSUME NEW r \in Runs, Start(r) \/ Pause(r) PROVE Others
    <2>1. UNCHANGED <<profile, sub, queue, stranded, running, stray, ending>>
      BY <1>1, Zenon DEF Start, Pause, Move, runFrame
    <2>2. run[r] \in Live /\ \E to \in Live : run' = [run EXCEPT ![r] = to]
      BY <1>1, Zenon DEF Start, Pause, Move, Live
    <2> QED
      BY <1>s, <2>1, <2>2, Zenon DEF Others, Live
  <1>2. ASSUME NEW r \in Runs, Checkpoint(r) PROVE Others
    BY <1>2, Zenon DEF Checkpoint, runFrame, Others
  <1>3. ASSUME NEW r \in Runs, End(r) PROVE Others
    <2>1. UNCHANGED <<profile, sub, queue, stranded, running, stray>>
      BY <1>3, Zenon DEF End, runFrame
    <2> QED
      BY <1>s, <1>3, <2>1, Zenon DEF Others, End, Live
  <1>4. ASSUME NEW r \in Runs, Complete(r) PROVE Others
    <2>1. UNCHANGED <<profile, sub, queue, stranded, run>>
      BY <1>4, Zenon DEF Complete, runFrame
    <2> QED
      BY <1>4, <2>1, Zenon DEF Others, Complete, CompleteTask
  <1>5. ASSUME NEW r \in Runs, RecordUsage(r) \/ \E c \in Costs : Usage(r, c) PROVE Others
    <2>1. UNCHANGED <<profile, sub, queue, stranded, running, stray>>
      BY <1>5, UsageFrame, Zenon DEF usageFrame, schedVars
    <2>2. CASE UsageSave(r)
      <3>1. report[r].pc # "idle" /\ run' = [run EXCEPT ![r] = report[r].snap] /\ UNCHANGED ending
        BY <2>2, Zenon DEF UsageSave
      <3>2. run[r] # "none" /\ report[r].snap \in {"running", "paused"}
        BY <1>s, <3>1, Zenon DEF Reported
      <3> QED
        BY <1>s, <2>1, <3>1, <3>2, Zenon DEF Others
    <2>3. CASE UsageFail(r)
      BY <1>s, <2>1, <2>3, Zenon DEF Others, UsageFail
    <2>4. CASE UNCHANGED <<run, ending>>
      BY <2>1, <2>4, Zenon DEF Others
    <2> QED
      BY <1>5, <2>2, <2>3, <2>4, Zenon DEF RecordUsage, UsageAdd, UsageCompare, Usage
  <1>6. CASE Operating
    BY <1>6, OperatingFrame, Zenon DEF incidentFrame, Others
  <1>7. CASE UNCHANGED vars
    BY <1>7, Zenon DEF vars, schedVars, Others
  <1> QED
    BY <1>1, <1>2, <1>3, <1>4, <1>5, <1>6, <1>7, Zenon DEF Next, Lifecycle, Driving

LEMMA CallsKept ==
    ASSUME IInv, [Next]_vars
    PROVE  Calls'
  <1>1. CASE Others
    <2>1. UNCHANGED <<profile, sub>> /\ UNCHANGED Queued /\ running' \subseteq running
      BY <1>1, Zenon DEF Others, Queued
    <2>2. \A x \in Runs : run'[x] = run[x] \/ run[x] # "none"
      BY <1>1, Zenon DEF Others
    <2> QED
      BY <2>1, <2>2, CallsStay, Zenon
  <1> QED
    BY <1>1, OtherSteps, SubmitCalls, Zenon

---------------------------------------------------------------------------
\* Capacity

\* What a step of a submission may do to the runs that ended
LEMMA SubmitEnds ==
    ASSUME IInv, NEW r \in Runs, Submit(r)
    PROVE  /\ UNCHANGED stray /\ ending \subseteq ending'
           /\ \A x \in Runs : run'[x] = "ended" /\ x \notin ending' => run[x] = "ended"
           /\ running' \cup Queued' \subseteq running \cup Queued \cup {x \in {r} : sub[x].pc = "enqueue"}
           /\ sub'[r].pc = "enqueue" => run'[r] # "ended"
  <1> DEFINE P == /\ UNCHANGED stray /\ ending \subseteq ending'
                  /\ \A x \in Runs : run'[x] = "ended" /\ x \notin ending' => run[x] = "ended"
             Q == running' \cup Queued' \subseteq running \cup Queued \cup {x \in {r} : sub[x].pc = "enqueue"}
  <1>s. run \in [Runs -> Live \cup {"none", "ended"}]
    BY Zenon DEF IInv, Shape, CallShape
  <1>1. ASSUME NEW p \in Profiles, GateHalt(r, p) PROVE P /\ Q /\ sub'[r].pc # "enqueue"
    <2>1. UNCHANGED <<stray, ending, run, running>> /\ UNCHANGED Queued
      BY <1>1, Zenon DEF GateHalt, Queued
    <2> QED
      BY <1>1, <2>1, SubmitMoves, Zenon DEF At
  <1>2. ASSUME NEW a \in BOOLEAN, GateBudget(r, a) PROVE P /\ Q /\ sub'[r].pc # "enqueue"
    <2>1. UNCHANGED <<stray, ending, run, running>> /\ UNCHANGED Queued
      BY <1>2, Zenon DEF GateBudget, Queued
    <2> QED
      BY <1>2, <2>1, SubmitMoves, Zenon DEF At
  <1>3. ASSUME NEW s \in {"queued", "paused"}, NEW q \in BOOLEAN, SaveRun(r, s, q) PROVE P /\ Q /\ run'[r] # "ended"
    <2>1. UNCHANGED <<stray, ending, running>> /\ UNCHANGED Queued
      BY <1>3, Zenon DEF SaveRun, Queued
    <2> QED
      BY <1>s, <1>3, <2>1, Zenon DEF SaveRun
  <1>4. CASE SchedulerSubmit(r)
    <2>1. UNCHANGED <<stray, ending, run, running>> /\ sub[r].pc = "enqueue"
      BY <1>4, Zenon DEF SchedulerSubmit
    <2>2. Queued' \subseteq Queued \cup {r} /\ sub'[r].pc # "enqueue"
      <3>1. Queued' \subseteq Queued \cup {r} /\ (At(r, "done") \/ At(r, "pick"))
        BY <1>4, SubmitQueue, Zenon DEF Queued
      <3> QED
        BY <3>1, Zenon DEF At
    <2> QED
      BY <2>1, <2>2
  <1>5. CASE SchedulerPick(r) \/ SchedulerPreempt(r)
    <2>1. UNCHANGED <<stray, ending, run, running>> /\ UNCHANGED Queued
      BY <1>5, Zenon DEF SchedulerPick, SchedulerPreempt, Queued
    <2>2. sub'[r].pc # "enqueue"
      BY <1>5, SubmitMoves, Zenon DEF At
    <2> QED
      BY <2>1, <2>2, Zenon
  <1>6. CASE SchedulerTake(r)
    <2>1. UNCHANGED <<stray, ending, run>>
      BY <1>6, Zenon DEF SchedulerTake
    <2>2. running' \cup Queued' \subseteq running \cup Queued /\ sub'[r].pc # "enqueue"
      BY <1>6, TakeQueue, Zenon DEF Queued, At
    <2> QED
      BY <2>1, <2>2, Zenon
  <1>7. CASE SchedulerRequeue(r)
    <2>1. UNCHANGED <<stray, ending, run>>
      BY <1>7, Zenon DEF SchedulerRequeue
    <2>2. running' \cup Queued' \subseteq running \cup Queued /\ sub'[r].pc # "enqueue"
      BY <1>7, RequeueQueue, Zenon DEF At
    <2> QED
      BY <2>1, <2>2, Zenon
  <1>8. CASE CancelVictim(r)
    <2>1. UNCHANGED <<stray, running>> /\ UNCHANGED Queued
      BY <1>8, Zenon DEF CancelVictim, Queued
    <2>2. ending \subseteq ending' /\ \A x \in Runs : run'[x] = "ended" /\ x \notin ending' => run[x] = "ended"
      BY <1>s, <1>8, Zenon DEF CancelVictim
    <2>3. sub'[r].pc # "enqueue"
      BY <1>8, SubmitMoves, Zenon DEF At
    <2> QED
      BY <2>1, <2>2, <2>3, Zenon
  <1> QED
    BY <1>1, <1>2, <1>3, <1>4, <1>5, <1>6, <1>7, <1>8, Zenon DEF Submit

LEMMA FreedKept ==
    ASSUME IInv, [Next]_vars
    PROVE  Freed'
  <1>s. Freed /\ Calls
    BY Zenon DEF IInv
  <1> SUFFICES ASSUME NEW x \in Runs \ (ending' \cup stray'), run'[x] = "ended"
               PROVE  x \notin running' \cup Queued' /\ sub'[x].pc # "enqueue"
    BY Zenon DEF Freed
  <1>1. CASE Others
    <2>1. run[x] = "ended" /\ UNCHANGED sub /\ UNCHANGED Queued
      BY <1>1, Zenon DEF Others, Queued
    <2>2. CASE UNCHANGED <<running, stray>> /\ ending \subseteq ending'
      BY <1>s, <2>1, <2>2, Zenon DEF Freed
    <2>3. ASSUME NEW r \in ending, ending' = ending \ {r}, running' = running \ {r},
                 stray' = IF r \in running THEN stray ELSE stray \cup {r}
          PROVE  x \notin running' \cup Queued' /\ sub'[x].pc # "enqueue"
      <3>1. CASE x = r
        <4>1. x \in running /\ x \notin Queued
          BY <2>3, <3>1, Zenon DEF IInv, QueuedOnce
        <4> QED
          BY <1>s, <2>1, <2>3, <3>1, <4>1, Zenon DEF Calls
      <3>2. CASE x # r
        BY <1>s, <2>1, <2>3, <3>2, Zenon DEF Freed
      <3> QED
        BY <3>1, <3>2, Zenon
    <2> QED
      BY <1>1, <2>2, <2>3, Zenon DEF Others
  <1>2. ASSUME NEW r \in Runs, Submit(r) PROVE x \notin running' \cup Queued' /\ sub'[x].pc # "enqueue"
    <2>1. x \notin running \cup Queued /\ sub[x].pc # "enqueue"
      BY <1>s, <1>2, SubmitEnds, Zenon DEF Freed
    <2>2. x \notin running' \cup Queued'
      BY <1>2, <2>1, SubmitEnds, Zenon
    <2>3. sub'[x].pc # "enqueue"
      <3>1. PICK pc \in SubmitSteps : At(r, pc)
        BY <1>2, SubmitAt, Zenon
      <3>2. x # r => sub'[x] = sub[x]
        BY <3>1, Zenon DEF At
      <3>3. x = r => sub'[x].pc # "enqueue"
        BY <1>2, SubmitEnds
      <3> QED
        BY <2>1, <3>2, <3>3, Zenon
    <2> QED
      BY <2>2, <2>3, Zenon
  <1> QED
    BY <1>1, <1>2, OtherSteps, Zenon

---------------------------------------------------------------------------
\* The spend

\* A run with a row was submitted with a profile.
LEMMA KeyOf ==
    ASSUME IInv, NEW r \in Runs, run[r] # "none"
    PROVE  Key(r) \in Keys /\ Tenant(r) \in Tenants
  <1>1. profile[r] \in Profiles
    BY CallsOf, Zenon DEF Early
  <1> QED
    BY <1>1, Zenon DEF Key, Tenant, Keys, Tenants

\* The report of r is now at pc, with this cost and the state it read, and the others stay.
Filed(r, pc, cost, snap) ==
    /\ report' \in [Runs -> ReportType] /\ report'[r].pc = pc
    /\ report'[r].cost = cost /\ report'[r].snap = snap
    /\ \A x \in Runs \ {r} : report'[x] = report[x]

LEMMA ReportMoves ==
    ASSUME SpendShape, NEW r \in Runs, NEW pc \in ReportSteps, NEW n \in Nat
    PROVE  /\ report' = [report EXCEPT ![r].pc = pc] => Filed(r, pc, report[r].cost, report[r].snap)
           /\ report' = [report EXCEPT ![r].pc = pc, ![r].seen = n] => Filed(r, pc, report[r].cost, report[r].snap)
           /\ report' = [report EXCEPT ![r] = NoReport] => Filed(r, "idle", 0, "none")
  BY SMTT(20) DEF SpendShape, ReportType, ReportSteps, Filed, NoReport

LEMMA UsageStarts ==
    ASSUME IInv, NEW r \in Runs, NEW c \in Costs, Usage(r, c)
    PROVE  /\ run[r] \in {"running", "paused"} /\ report[r].pc = "idle" /\ Filed(r, "day", c, run[r])
           /\ runSpend' = [runSpend EXCEPT ![r] = @ + c] /\ report'[r].seen = daySpend[Key(r)]
           /\ UNCHANGED <<daySpend, periodSpend, lost, run, profile>>
  <1>1. /\ run[r] \in {"running", "paused"} /\ report[r].pc = "idle"
        /\ UNCHANGED <<daySpend, periodSpend, lost, run, profile>>
    BY Zenon DEF Usage, StartReport, usageFrame, schedVars
  <1>2. daySpend[Key(r)] \in Nat /\ c \in Nat
    BY <1>1, KeyOf, ConstantTypes, Zenon DEF IInv, Shape, SpendShape
  <1>3. /\ report' = [report EXCEPT ![r] = [pc |-> "day", cost |-> c, snap |-> run[r], seen |-> daySpend[Key(r)]]]
        /\ runSpend' = [runSpend EXCEPT ![r] = @ + c]
    BY Zenon DEF Usage, StartReport
  <1>4. Filed(r, "day", c, run[r]) /\ report'[r].seen = daySpend[Key(r)]
    BY <1>1, <1>2, <1>3, Zenon DEF Filed, IInv, Shape, SpendShape, ReportType, ReportSteps, Live
  <1> QED
    BY <1>1, <1>3, <1>4, Zenon

LEMMA UsageAdds ==
    ASSUME IInv, NEW r \in Runs, UsageAdd(r)
    PROVE  /\ run[r] # "none" /\ UNCHANGED <<runSpend, run, profile>>
           /\ \/ /\ report[r].pc = "day" /\ Filed(r, "period", report[r].cost, report[r].snap) /\ UNCHANGED periodSpend
                 /\ daySpend' = [daySpend EXCEPT ![Key(r)] = report[r].seen + report[r].cost]
                 /\ lost' = IF daySpend[Key(r)] # report[r].seen THEN lost \cup {Key(r)} ELSE lost
              \/ /\ report[r].pc = "period" /\ Filed(r, "check", report[r].cost, report[r].snap) /\ UNCHANGED daySpend
                 /\ periodSpend' = [periodSpend EXCEPT ![Tenant(r)] = report[r].seen + report[r].cost]
                 /\ lost \subseteq lost'
  <1>1. UNCHANGED <<runSpend, run, profile>> /\ report[r].pc # "idle"
    BY Zenon DEF UsageAdd, WriteDay, WritePeriod, usageFrame, schedVars
  <1>2. run[r] # "none"
    BY <1>1, Zenon DEF IInv, Reported
  <1>3. periodSpend[Tenant(r)] \in Nat /\ {"period", "check"} \subseteq ReportSteps /\ SpendShape
    BY <1>2, KeyOf, Zenon DEF IInv, Shape, SpendShape, ReportSteps
  <1>4. CASE WriteDay(r, Key(r), Tenant(r))
    <2>1. Filed(r, "period", report[r].cost, report[r].snap)
      BY <1>3, <1>4, ReportMoves, Zenon DEF WriteDay
    <2> QED
      BY <1>1, <1>2, <1>4, <2>1, Zenon DEF WriteDay
  <1>5. CASE WritePeriod(r, Tenant(r))
    <2>1. Filed(r, "check", report[r].cost, report[r].snap)
      BY <1>3, <1>5, ReportMoves, Zenon DEF WritePeriod
    <2> QED
      BY <1>1, <1>2, <1>5, <2>1, Zenon DEF WritePeriod
  <1> QED
    BY <1>4, <1>5, Zenon DEF UsageAdd

LEMMA UsageChecks ==
    ASSUME IInv, NEW r \in Runs, UsageCompare(r)
    PROVE  /\ report[r].pc = "check" /\ UNCHANGED <<runSpend, daySpend, periodSpend, lost, run, profile>>
           /\ \/ Filed(r, "over", report[r].cost, report[r].snap)
              \/ ~ Exceeded(r, Key(r), Tenant(r)) /\ Filed(r, "within", report[r].cost, report[r].snap)
  <1>1. /\ report[r].pc = "check" /\ UNCHANGED <<runSpend, daySpend, periodSpend, lost, run, profile>>
        /\ \/ report' = [report EXCEPT ![r].pc = "over"]
           \/ ~ Exceeded(r, Key(r), Tenant(r)) /\ report' = [report EXCEPT ![r].pc = "within"]
    BY Zenon DEF UsageCompare, Compare, usageFrame, schedVars
  <1>2. {"over", "within"} \subseteq ReportSteps /\ SpendShape /\ 0 \in Nat
    BY Zenon DEF ReportSteps, IInv, Shape
  <1> QED
    BY <1>1, <1>2, ReportMoves, Zenon

LEMMA UsageEnds ==
    ASSUME IInv, NEW r \in Runs, UsageSave(r) \/ UsageFail(r)
    PROVE  /\ report[r].pc \in {"over", "within", "fail"} /\ UNCHANGED <<runSpend, daySpend, periodSpend, lost, profile>>
           /\ \/ /\ report[r].pc = "over" /\ Filed(r, "fail", report[r].cost, report[r].snap)
                 /\ run' = [run EXCEPT ![r] = report[r].snap]
              \/ report[r].pc = "within" /\ Filed(r, "idle", 0, "none") /\ run' = [run EXCEPT ![r] = report[r].snap]
              \/ report[r].pc = "fail" /\ Filed(r, "idle", 0, "none") /\ run' = [run EXCEPT ![r] = "ended"]
  <1>1. {"fail", "idle"} \subseteq ReportSteps /\ SpendShape /\ 0 \in Nat
    BY Zenon DEF ReportSteps, IInv, Shape
  <1>2. UNCHANGED <<runSpend, daySpend, periodSpend, lost, profile>>
    BY Zenon DEF UsageSave, UsageFail, EndReport, usageFrame, schedVars
  <1>3. CASE UsageSave(r)
    <2>1. CASE report[r].pc = "over"
      <3>1. report' = [report EXCEPT ![r].pc = "fail"] /\ run' = [run EXCEPT ![r] = report[r].snap]
        BY <1>3, <2>1, Zenon DEF UsageSave
      <3> QED
        BY <1>1, <1>2, <2>1, <3>1, ReportMoves, Zenon
    <2>2. CASE report[r].pc # "over"
      <3>1. report' = [report EXCEPT ![r] = NoReport] /\ run' = [run EXCEPT ![r] = report[r].snap] /\ report[r].pc = "within"
        BY <1>3, <2>2, Zenon DEF UsageSave, EndReport
      <3> QED
        BY <1>1, <1>2, <3>1, ReportMoves, Zenon
    <2> QED
      BY <2>1, <2>2, Zenon
  <1>4. CASE UsageFail(r)
    <2>1. report' = [report EXCEPT ![r] = NoReport] /\ report[r].pc = "fail"
      BY <1>4, Zenon DEF UsageFail, EndReport
    <2>2. run[r] \in {"running", "paused", "ended"}
      BY <2>1, Zenon DEF IInv, Reported
    <2>3. run' = [run EXCEPT ![r] = "ended"]
      BY <1>4, <2>2, Zenon DEF UsageFail, IInv, Shape, CallShape
    <2> QED
      BY <1>1, <1>2, <2>1, <2>3, ReportMoves, Zenon
  <1> QED
    BY <1>3, <1>4, Zenon

\* The other steps leave the spend alone; a run they end stays ended.
Unspent ==
    /\ UNCHANGED budgetVars
    /\ \A x \in Runs : \/ run'[x] = run[x]
                       \/ run[x] = "none" /\ run'[x] # "none"
                       \/ run[x] \in Live /\ run'[x] \in {"running", "paused", "ended"}

LEMMA SpendSteps ==
    ASSUME IInv, [Next]_vars
    PROVE  Unspent \/ \E r \in Runs : RecordUsage(r) \/ \E c \in Costs : Usage(r, c)
  <1>s. run \in [Runs -> Live \cup {"none", "ended"}]
    BY Zenon DEF IInv, Shape, CallShape
  <1>1. ASSUME NEW r \in Runs, Submit(r) PROVE Unspent
    <2>1. UNCHANGED budgetVars
      BY <1>1, Zenon DEF Submit, GateHalt, GateBudget, SaveRun, SchedulerSubmit, SchedulerPick, SchedulerTake,
         SchedulerPreempt, SchedulerRequeue, CancelVictim, submitFrame
    <2>2. CASE UNCHANGED run
      BY <2>1, <2>2, Zenon DEF Unspent
    <2>3. ASSUME NEW s \in {"queued", "paused"}, NEW q \in BOOLEAN, SaveRun(r, s, q) PROVE Unspent
      <3>1. run[r] = "none"
        BY <2>3, CallsOf, Zenon DEF SaveRun, Early
      <3> QED
        BY <1>s, <2>1, <2>3, <3>1, Zenon DEF Unspent, SaveRun
    <2>4. CASE CancelVictim(r)
      BY <1>s, <2>1, <2>4, Zenon DEF Unspent, CancelVictim
    <2> QED
      BY <1>1, <2>2, <2>3, <2>4, Zenon DEF Submit, GateHalt, GateBudget, SchedulerSubmit, SchedulerPick,
         SchedulerTake, SchedulerPreempt, SchedulerRequeue
  <1>2. ASSUME NEW r \in Runs, Start(r) \/ Pause(r) \/ Checkpoint(r) \/ End(r) \/ Complete(r) PROVE Unspent
    <2>1. UNCHANGED budgetVars
      BY <1>2, Zenon DEF Start, Pause, Move, Checkpoint, End, Complete
    <2> QED
      BY <1>s, <1>2, <2>1, Zenon DEF Unspent, Start, Pause, Move, Checkpoint, End, Complete, Live
  <1>3. CASE Operating
    BY <1>3, OperatingFrame, Zenon DEF incidentFrame, Unspent
  <1>4. CASE UNCHANGED vars
    BY <1>4, Zenon DEF vars, Unspent
  <1> QED
    BY <1>1, <1>2, <1>3, <1>4, Zenon DEF Next, Lifecycle, Driving

LEMMA SpendKept ==
    ASSUME IInv, [Next]_vars
    PROVE  SpendShape' /\ Reported' /\ OverBudgetEnds'
  <1> USE ConstantTypes
  <1>s. SpendShape /\ Reported /\ OverBudgetEnds /\ run \in [Runs -> Live \cup {"none", "ended"}]
    BY Zenon DEF IInv, Shape, CallShape
  <1>1. CASE Unspent
    <2>1. UNCHANGED <<runSpend, daySpend, periodSpend, report>>
      BY <1>1, Zenon DEF Unspent, budgetVars
    <2>2. SpendShape'
      BY <1>s, <2>1, Zenon DEF SpendShape
    <2>3. Reported' /\ OverBudgetEnds'
      BY <1>s, <1>1, <2>1, Zenon DEF Unspent, Reported, OverBudgetEnds, Live
    <2> QED
      BY <2>2, <2>3, Zenon
  <1>2. ASSUME NEW r \in Runs, NEW c \in Costs, Usage(r, c) PROVE SpendShape' /\ Reported' /\ OverBudgetEnds'
    <2>1. /\ run[r] \in {"running", "paused"} /\ Filed(r, "day", c, run[r])
          /\ runSpend' = [runSpend EXCEPT ![r] = @ + c] /\ UNCHANGED <<daySpend, periodSpend, run>>
      BY <1>2, UsageStarts, Zenon
    <2>2. SpendShape'
      BY <1>s, <2>1 DEF SpendShape, Filed
    <2>3. Reported'
      BY <1>s, <2>1, Zenon DEF SpendShape, Filed, Reported
    <2>4. OverBudgetEnds'
      BY <1>s, <2>1, Zenon DEF SpendShape, Filed, OverBudgetEnds
    <2> QED
      BY <2>2, <2>3, <2>4, Zenon
  <1>3. ASSUME NEW r \in Runs, UsageAdd(r) PROVE SpendShape' /\ Reported' /\ OverBudgetEnds'
    <2>1. UNCHANGED <<runSpend, run>> /\ Key(r) \in Keys /\ Tenant(r) \in Tenants /\ report[r].pc # "idle"
      BY <1>3, UsageAdds, KeyOf, Zenon
    <2>2. PICK pc \in {"period", "check"} : Filed(r, pc, report[r].cost, report[r].snap)
      BY <1>3, UsageAdds, Zenon
    <2>3. daySpend' \in [Keys -> Nat] /\ periodSpend' \in [Tenants -> Nat]
      <3>1. report[r].seen + report[r].cost \in Nat
        BY <1>s DEF SpendShape, ReportType
      <3> QED
        BY <1>s, <1>3, <2>1, <3>1, UsageAdds, Zenon DEF SpendShape
    <2>4. SpendShape'
      BY <1>s, <2>1, <2>2, <2>3, Zenon DEF SpendShape, Filed
    <2>5. Reported' /\ OverBudgetEnds'
      BY <1>s, <2>1, <2>2, Zenon DEF Filed, Reported, OverBudgetEnds
    <2> QED
      BY <2>4, <2>5, Zenon
  <1>4. ASSUME NEW r \in Runs, UsageCompare(r) PROVE SpendShape' /\ Reported' /\ OverBudgetEnds'
    <2>1. UNCHANGED <<runSpend, daySpend, periodSpend, run>> /\ report[r].pc = "check"
      BY <1>4, UsageChecks, Zenon
    <2>2. PICK pc \in {"over", "within"} : /\ Filed(r, pc, report[r].cost, report[r].snap)
                                           /\ pc = "within" => runSpend[r] <= PerRun
      <3>1. ~ Exceeded(r, Key(r), Tenant(r)) => runSpend[r] <= PerRun
        BY <1>s DEF Exceeded, SpendShape
      <3> QED
        BY <1>4, <3>1, UsageChecks, Zenon
    <2>3. SpendShape'
      BY <1>s, <2>1, <2>2, Zenon DEF SpendShape, Filed
    <2>4. Reported' /\ OverBudgetEnds'
      BY <1>s, <2>1, <2>2, Zenon DEF Filed, Reported, OverBudgetEnds
    <2> QED
      BY <2>3, <2>4, Zenon
  <1>5. ASSUME NEW r \in Runs, UsageSave(r) \/ UsageFail(r) PROVE SpendShape' /\ Reported' /\ OverBudgetEnds'
    <2>1. UNCHANGED <<runSpend, daySpend, periodSpend>> /\ report[r].pc # "idle"
      BY <1>5, UsageEnds, Zenon
    <2>2. /\ report[r].snap \in {"running", "paused"} /\ report[r].cost \in Costs
          /\ report[r].pc = "within" => ~ runSpend[r] > PerRun
      BY <1>s, <2>1 DEF Reported, SpendShape
    <2>3. report' \in [Runs -> ReportType]
      BY <1>5, UsageEnds, Zenon DEF Filed
    <2>4. SpendShape'
      BY <1>s, <2>1, <2>3, Zenon DEF SpendShape
    <2>5. CASE /\ Filed(r, "fail", report[r].cost, report[r].snap) /\ run' = [run EXCEPT ![r] = report[r].snap]
      BY <1>s, <2>1, <2>2, <2>4, <2>5, Zenon DEF Filed, Reported, OverBudgetEnds
    <2>6. CASE report[r].pc = "within" /\ Filed(r, "idle", 0, "none") /\ run' = [run EXCEPT ![r] = report[r].snap]
      BY <1>s, <2>1, <2>2, <2>4, <2>6, Zenon DEF Filed, Reported, OverBudgetEnds
    <2>7. CASE Filed(r, "idle", 0, "none") /\ run' = [run EXCEPT ![r] = "ended"]
      BY <1>s, <2>1, <2>2, <2>4, <2>7, ZenonT(40) DEF Filed, Reported, OverBudgetEnds
    <2> QED
      BY <1>5, <2>5, <2>6, <2>7, UsageEnds, Zenon
  <1> QED
    BY <1>1, <1>2, <1>3, <1>4, <1>5, SpendSteps, Zenon DEF RecordUsage

---------------------------------------------------------------------------
\* Halting

\* A submission comes in only below the bound, and not while the fleet is halted; a later
\* step of it brings no run closer to being saved.
LEMMA SubmitFlight ==
    ASSUME IInv, NEW r \in Runs, Submit(r)
    PROVE  /\ UNCHANGED incidents /\ (~ FleetHalted => UNCHANGED late)
           /\ InFlight' \subseteq InFlight \cup {r}
           /\ r \in InFlight \/ Cardinality(InFlight) < MaxThreads
           /\ FleetHalted => late' \cup Entering' \subseteq late \cup Entering
  <1>1. UNCHANGED incidents /\ (~ FleetHalted => UNCHANGED late)
    BY Zenon DEF Submit, GateHalt, GateBudget, SaveRun, SchedulerSubmit, SchedulerPick, SchedulerTake,
       SchedulerPreempt, SchedulerRequeue, CancelVictim, submitFrame
  <1>2. InFlight' \subseteq InFlight \cup {r}
    <2>1. \A x \in Runs \ {r} : sub'[x] = sub[x]
      BY SubmitAt, Zenon DEF At
    <2> QED
      BY <2>1, Zenon DEF InFlight
  <1>3. r \in InFlight \/ Cardinality(InFlight) < MaxThreads
    <2>1. sub[r].pc \notin {"idle", "done", "refused"} \/ Cardinality(InFlight) < MaxThreads
      BY Zenon DEF Submit, GateHalt, GateBudget, SaveRun, SchedulerSubmit, SchedulerPick, SchedulerTake,
         SchedulerPreempt, SchedulerRequeue, CancelVictim
    <2> QED
      BY <2>1, Zenon DEF InFlight
  <1>4. ASSUME FleetHalted PROVE late' \cup Entering' \subseteq late \cup Entering
    <2>0. \A pc : At(r, pc) => Entering' \subseteq IF pc \in {"budget", "save"} THEN Entering \cup {r} ELSE Entering
      BY Zenon DEF At, Entering
    <2>1. ASSUME NEW p \in Profiles, GateHalt(r, p) PROVE late' \cup Entering' \subseteq late \cup Entering
      <3>1. UNCHANGED late
        BY <2>1, Zenon DEF GateHalt
      <3>2. Halted(p)
        BY <1>4, Zenon DEF FleetHalted, Halted, Covers
      <3>3. At(r, "refused")
        BY <2>1, <3>2, SubmitMoves, Zenon
      <3> QED
        BY <2>0, <3>1, <3>3
    <2>2. ASSUME NEW a \in BOOLEAN, GateBudget(r, a) PROVE late' \cup Entering' \subseteq late \cup Entering
      <3>1. UNCHANGED late /\ r \in Entering
        BY <2>2, Zenon DEF GateBudget, Entering
      <3>2. At(r, "save") \/ At(r, "refused")
        BY <2>2, SubmitMoves, Zenon
      <3> QED
        BY <2>0, <3>1, <3>2, Zenon
    <2>3. ASSUME NEW s \in {"queued", "paused"}, NEW q \in BOOLEAN, SaveRun(r, s, q)
          PROVE  late' \cup Entering' \subseteq late \cup Entering
      <3>1. late' = late \cup {r} /\ r \in Entering
        BY <1>4, <2>3, Zenon DEF SaveRun, Entering
      <3>2. At(r, "enqueue") \/ At(r, "done")
        BY <2>3, SubmitMoves, Zenon
      <3> QED
        BY <2>0, <3>1, <3>2, Zenon
    <2>4. ASSUME \/ SchedulerSubmit(r) \/ SchedulerPick(r) \/ SchedulerTake(r)
                 \/ SchedulerPreempt(r) \/ SchedulerRequeue(r) \/ CancelVictim(r)
          PROVE  late' \cup Entering' \subseteq late \cup Entering
      <3>1. UNCHANGED late
        BY <2>4, Zenon DEF SchedulerSubmit, SchedulerPick, SchedulerTake, SchedulerPreempt, SchedulerRequeue, CancelVictim
      <3>2. \/ At(r, "done") \/ At(r, "pick") \/ At(r, "take") \/ At(r, "preempt") \/ At(r, "requeue")
            \/ At(r, "cancel")
        BY <2>4, SubmitMoves, SubmitQueue, TakeQueue, RequeueQueue, Zenon
      <3> QED
        BY <2>0, <3>1, <3>2
    <2> QED
      BY <2>1, <2>2, <2>3, <2>4, Zenon DEF Submit
  <1> QED
    BY <1>1, <1>2, <1>3, <1>4, Zenon

\* Only the resume of an incident lifts the halt, and then it forgets who was saved.
LEMMA OperatingHalt ==
    ASSUME IInv, Operating
    PROVE  late' \in {late, {}} /\ (FleetHalted' \/ late' = {} \/ ~ FleetHalted)
  <1>s. CallShape
    BY Zenon DEF IInv, Shape
  <1>0. ASSUME NEW i \in 1..Len(incidents), NEW a \in BOOLEAN, Replaced(i, a), Active(i) => a, FleetHalted
        PROVE  FleetHalted'
    <2>1. PICK j \in 1..Len(incidents) : incidents[j].active /\ incidents[j].scope = "fleet"
      BY <1>0, Zenon DEF FleetHalted, Active
    <2>2. incidents'[j].active /\ incidents'[j].scope = "fleet" /\ j \in 1..Len(incidents')
      <3>1. CASE j = i
        BY <1>0, <2>1, <3>1, Zenon DEF Replaced, Active
      <3>2. CASE j # i
        BY <1>0, <2>1, <3>2, Zenon DEF Replaced
      <3> QED
        BY <3>1, <3>2, Zenon
    <2> QED
      BY <2>2, Zenon DEF FleetHalted, Active
  <1>1. ASSUME NEW s \in Scopes, PauseFleet(s) PROVE UNCHANGED late /\ (FleetHalted => FleetHalted')
    <2>1. UNCHANGED late
      BY <1>1, Zenon DEF PauseFleet
    <2>2. Len(incidents') = Len(incidents) + 1 /\ \A j \in 1..Len(incidents) : incidents'[j] = incidents[j]
      BY <1>s, <1>1 DEF PauseFleet, CallShape
    <2>3. \A j \in 1..Len(incidents) : j \in 1..Len(incidents')
      BY <1>s, <2>2 DEF CallShape
    <2> QED
      BY <2>1, <2>2, <2>3, Zenon DEF FleetHalted, Active
  <1>2. ASSUME NEW i \in 1..Len(incidents),
               \/ DrainFleet(i) \/ UndrainFleet(i) \/ \E owners \in BOOLEAN : NotifyOwners(i, owners)
        PROVE  UNCHANGED late /\ (FleetHalted => FleetHalted')
    <2>1. UNCHANGED late
      BY <1>2, Zenon DEF DrainFleet, UndrainFleet, NotifyOwners
    <2>2. Active(i) \in BOOLEAN
      <3>1. incidents[i] \in IncidentType
        BY <1>s DEF CallShape
      <3>2. incidents[i].active \in BOOLEAN
        BY <3>1, Zenon DEF IncidentType
      <3> QED
        BY <3>2, Zenon DEF Active
    <2>3. \E a \in BOOLEAN : Replaced(i, a) /\ (Active(i) => a)
      BY <1>s, <1>2, <2>2, IncidentMoves, Zenon
    <2> QED
      BY <1>0, <2>1, <2>3, Zenon
  <1>3. ASSUME NEW i \in 1..Len(incidents), ResumeFleet(i) PROVE late' = IF FleetHalted' THEN late ELSE {}
    BY <1>3, Zenon DEF ResumeFleet
  <1>4. ASSUME NEW t \in Tenants, NEW ws \in SUBSET Workloads, Freeze(t, ws)
        PROVE  UNCHANGED late /\ (FleetHalted => FleetHalted')
    BY <1>4, Zenon DEF Freeze, FleetHalted, Active
  <1> QED
    BY <1>1, <1>2, <1>3, <1>4, Zenon DEF Operating

LEMMA HaltingKept ==
    ASSUME Sizes, IInv, [Next]_vars
    PROVE  Halting'
  <1> USE ConstantTypes
  <1>s. Halting /\ late \subseteq Runs
    BY Zenon DEF IInv, Shape, CallShape
  <1>a. InFlight \subseteq Runs /\ Entering \subseteq InFlight /\ Entering \subseteq Runs
    BY Zenon DEF InFlight, Entering
  <1>b. Cardinality(InFlight) \in Nat /\ Cardinality(Entering) <= Cardinality(InFlight) /\ Cardinality(Entering) \in Nat
    BY <1>a, SizeType, SizePart, Zenon
  <1>1. ASSUME NEW r \in Runs, Submit(r) PROVE Halting'
    <2>1. Cardinality(InFlight') <= MaxThreads
      <3>1. InFlight' \subseteq InFlight \cup {r} /\ InFlight \cup {r} \in SUBSET Runs
        BY <1>1, <1>a, SubmitFlight, Zenon
      <3>2. Cardinality(InFlight') <= Cardinality(InFlight \cup {r}) /\ Cardinality(InFlight') \in Nat
        BY <3>1, SizePart, SizeType, Zenon
      <3>3. Cardinality(InFlight \cup {r}) <= MaxThreads
        BY <1>s, <1>a, <1>b, <1>1, SizeAdd, SubmitFlight DEF Halting
      <3>4. Cardinality(InFlight \cup {r}) \in Nat
        BY <3>1, SizeType, Zenon
      <3> QED
        BY <3>2, <3>3, <3>4
    <2>2. FleetHalted' = FleetHalted
      BY <1>1, SubmitFlight, Zenon DEF FleetHalted, Active
    <2>3. ~ FleetHalted => late' = {}
      BY <1>s, <1>1, SubmitFlight, Zenon DEF Halting
    <2>4. FleetHalted => Cardinality(late' \cup Entering') <= MaxThreads
      <3> HAVE FleetHalted
      <3>1. late \cup Entering \in SUBSET Runs /\ late' \cup Entering' \in SUBSET (late \cup Entering)
        BY <1>s, <1>a, <1>1, SubmitFlight, Zenon
      <3>2. /\ Cardinality(late' \cup Entering') <= Cardinality(late \cup Entering)
            /\ Cardinality(late' \cup Entering') \in Nat /\ Cardinality(late \cup Entering) \in Nat
        BY <3>1, SizePart, SizeType, Zenon
      <3> QED
        BY <1>s, <3>2 DEF Halting
    <2> QED
      BY <2>1, <2>2, <2>3, <2>4, Zenon DEF Halting
  <1>2. ASSUME UNCHANGED sub, late' \in {late, {}}, FleetHalted' \/ late' = {} \/ ~ FleetHalted PROVE Halting'
    <2>1. InFlight' = InFlight /\ Entering' = Entering
      BY <1>2, Zenon DEF InFlight, Entering
    <2>2. ~ FleetHalted' => late' = {}
      BY <1>s, <1>2, Zenon DEF Halting
    <2>3. Cardinality(late' \cup Entering) <= MaxThreads
      <3>1. CASE late' = {}
        <4>1. late' \cup Entering = Entering
          BY <3>1, Zenon
        <4> QED
          BY <1>s, <1>b, <4>1 DEF Halting
      <3>2. CASE late' # {}
        BY <1>s, <1>2, <3>2, Zenon DEF Halting
      <3> QED
        BY <3>1, <3>2, Zenon
    <2> QED
      BY <1>s, <2>1, <2>2, <2>3, Zenon DEF Halting
  <1>3. CASE Operating
    BY <1>2, <1>3, OperatingFrame, OperatingHalt, Zenon DEF incidentFrame
  <1>4. CASE UNCHANGED <<sub, late, incidents>>
    BY <1>2, <1>4, Zenon DEF FleetHalted, Active
  <1>5. ASSUME NEW r \in Runs, Start(r) \/ Pause(r) \/ Checkpoint(r) \/ End(r) \/ Complete(r) PROVE Halting'
    BY <1>4, <1>5, RunFrame, Zenon DEF runFrame
  <1>6. ASSUME NEW r \in Runs, RecordUsage(r) \/ \E c \in Costs : Usage(r, c) PROVE Halting'
    BY <1>4, <1>6, UsageFrame, Zenon DEF usageFrame
  <1>7. CASE UNCHANGED vars
    BY <1>4, <1>7, Zenon DEF vars
  <1> QED
    BY <1>1, <1>3, <1>5, <1>6, <1>7, Zenon DEF Next, Lifecycle, Driving

---------------------------------------------------------------------------
\* The limit of a workload

LEMMA TakingMoves ==
    ASSUME NEW r \in Runs, NEW pc, At(r, pc)
    PROVE  Taking' = IF pc \in {"pick", "take"} THEN Taking \cup {r} ELSE Taking \ {r}
  BY Zenon DEF At, Taking

\* Without a new task the places do not grow.
LEMMA PlaceKept ==
    ASSUME Sizes, IInv, stranded' \in Nat, stranded' >= stranded,
           running' \cup Queued' \subseteq running \cup Queued,
           \A x \in running \cup Queued : profile'[x] = profile[x]
    PROVE  \A w : Cardinality(Place(w)') <= PerWorkloadLimit - 1 + MaxThreads + stranded'
  <1> TAKE w
  <1> USE ConstantTypes
  <1>1. Place(w) \in SUBSET Runs /\ Place(w)' \in SUBSET Place(w)
    BY EntriesOf, Zenon DEF Place, IInv, Shape, SchedShape
  <1>2. /\ Cardinality(Place(w)') <= Cardinality(Place(w)) /\ Cardinality(Place(w)') \in Nat
        /\ Cardinality(Place(w)) \in Nat
    BY <1>1, SizePart, SizeType, Zenon
  <1>3. Cardinality(Place(w)) <= PerWorkloadLimit - 1 + MaxThreads + stranded /\ stranded \in Nat
    BY Zenon DEF IInv, Placed, Shape, CallShape
  <1> QED
    BY <1>2, <1>3

LEMMA PlacedKept ==
    ASSUME Sizes, IInv, [Next]_vars
    PROVE  Placed'
  <1> USE ConstantTypes
  <1>s. /\ Queued \in SUBSET Runs /\ Taking \in SUBSET Runs /\ stranded \in Nat
        /\ Cardinality(Queued) <= Cardinality(Taking) + stranded
    BY EntriesOf, Zenon DEF IInv, Shape, SchedShape, CallShape, Placed, Taking
  <1>n. Cardinality(Queued) \in Nat /\ Cardinality(Taking) \in Nat
    BY <1>s, SizeType, Zenon
  <1>0. ASSUME UNCHANGED <<running, stranded>>, UNCHANGED Queued, UNCHANGED Taking,
               \A x \in running \cup Queued : profile'[x] = profile[x]
        PROVE  Placed'
    BY <1>s, <1>0, PlaceKept DEF Placed
  <1>1. CASE Others
    <2>1. UNCHANGED <<profile, stranded>> /\ UNCHANGED Queued /\ UNCHANGED Taking /\ running' \subseteq running
      BY <1>1, Zenon DEF Others, Queued, Taking
    <2> QED
      BY <1>s, <2>1, PlaceKept DEF Placed
  <1>2. ASSUME NEW r \in Runs, Submit(r) PROVE Placed'
    <2>1. ASSUME NEW p \in Profiles, GateHalt(r, p) PROVE Placed'
      <3>1. UNCHANGED <<running, stranded>> /\ UNCHANGED Queued /\ profile' = [profile EXCEPT ![r] = p]
        BY <2>1, Zenon DEF GateHalt, Queued
      <3>2. r \notin running \cup Queued /\ r \notin Taking
        BY <2>1, CallsOf, Zenon DEF GateHalt, Early, Taking
      <3>3. At(r, "refused") \/ At(r, "budget")
        BY <2>1, SubmitMoves, Zenon
      <3>4. UNCHANGED Taking
        BY <3>2, <3>3, TakingMoves
      <3>5. \A x \in running \cup Queued : profile'[x] = profile[x]
        BY <1>s, <3>1, <3>2, Zenon DEF IInv, Shape, SchedShape
      <3> QED
        BY <1>0, <3>1, <3>4, <3>5, Zenon
    <2>2. CASE \/ \E a \in BOOLEAN : GateBudget(r, a)
               \/ \E s \in {"queued", "paused"}, q \in BOOLEAN : SaveRun(r, s, q)
               \/ SchedulerPreempt(r) \/ CancelVictim(r)
      <3>1. /\ UNCHANGED <<profile, running, stranded>> /\ UNCHANGED Queued
            /\ sub[r].pc \in {"budget", "save", "preempt", "cancel"}
        BY <2>2, Zenon DEF GateBudget, SaveRun, SchedulerPreempt, CancelVictim, submitFrame, Queued
      <3>2. At(r, "save") \/ At(r, "refused") \/ At(r, "enqueue") \/ At(r, "done") \/ At(r, "requeue")
        BY <2>2, SubmitMoves, Zenon
      <3>3. UNCHANGED Taking
        BY <3>1, <3>2, TakingMoves DEF Taking
      <3> QED
        BY <1>0, <3>1, <3>3, Zenon
    <2>3. CASE SchedulerSubmit(r)
      <3>1. UNCHANGED <<profile, running, stranded>> /\ r \notin Taking
        BY <2>3, SubmitQueue, Zenon DEF SchedulerSubmit, Taking
      <3>2. CASE UNCHANGED queue /\ At(r, "done")
        <4>1. UNCHANGED Taking /\ UNCHANGED Queued
          BY <3>1, <3>2, TakingMoves DEF Queued
        <4> QED
          BY <1>0, <3>1, <4>1, Zenon
      <3>3. CASE ~ Refuses(r) /\ At(r, "pick") /\ Queued' = Queued \cup {r}
        <4>1. Taking' = Taking \cup {r} /\ Taking' \in SUBSET Runs /\ Queued' \in SUBSET Runs
          BY <1>s, <3>3, TakingMoves, Zenon
        <4>2. Cardinality(Taking') = Cardinality(Taking) + 1 /\ Cardinality(Queued') <= Cardinality(Queued) + 1
          BY <1>s, <1>n, <3>1, <3>3, <4>1, SizeAdd
        <4>n. Cardinality(Taking') \in Nat /\ Cardinality(Queued') \in Nat
          BY <4>1, SizeType, Zenon
        <4>3. Cardinality(Queued') <= Cardinality(Taking') + stranded'
          BY <1>s, <1>n, <3>1, <4>2, <4>n
        <4>4. Cardinality(Taking') <= MaxThreads
          <5>1. Cardinality(InFlight') <= MaxThreads
            BY HaltingKept, Zenon DEF Halting
          <5>2. InFlight' \in SUBSET Runs /\ Taking' \in SUBSET InFlight'
            BY Zenon DEF InFlight, Taking
          <5>3. Cardinality(Taking') <= Cardinality(InFlight') /\ Cardinality(InFlight') \in Nat
            BY <5>2, SizePart, SizeType, Zenon
          <5> QED
            BY <4>n, <5>1, <5>3
        <4>5. ASSUME NEW w PROVE Cardinality(Place(w)') <= PerWorkloadLimit - 1 + MaxThreads + stranded'
          <5>1. CASE w = profile[r].workload
            <6> DEFINE mine == {x \in running : profile[x].workload = w}
            <6>1. ~ Cardinality(mine) >= PerWorkloadLimit
              BY <3>3, <5>1, Zenon DEF Refuses, RunningForWorkload
            <6>2. mine \in SUBSET Runs /\ Place(w)' \in SUBSET (mine \cup Queued') /\ mine \cup Queued' \in SUBSET Runs
              BY <3>1, <4>1, Zenon DEF Place, IInv, Shape, SchedShape
            <6> HIDE DEF mine
            <6>3. Cardinality(mine) \in Nat /\ Cardinality(Place(w)') \in Nat /\ Cardinality(mine \cup Queued') \in Nat
              BY <6>2, SizeType, Zenon
            <6>4. /\ Cardinality(Place(w)') <= Cardinality(mine \cup Queued')
                  /\ Cardinality(mine \cup Queued') <= Cardinality(mine) + Cardinality(Queued')
              BY <4>1, <6>2, Zenon DEF Sizes
            <6> QED
              BY <1>s, <3>1, <4>3, <4>4, <4>n, <6>1, <6>3, <6>4
          <5>2. CASE w # profile[r].workload
            <6>1. Place(w)' = Place(w)
              BY <3>1, <3>3, <5>2, Zenon DEF Place
            <6> QED
              BY <3>1, <6>1, Zenon DEF IInv, Placed
          <5> QED
            BY <5>1, <5>2, Zenon
        <4> QED
          BY <4>3, <4>5, Zenon DEF Placed
      <3> QED
        BY <2>3, <3>2, <3>3, SubmitQueue, Zenon
    <2>4. CASE SchedulerPick(r)
      <3>1. UNCHANGED <<profile, running, stranded>> /\ UNCHANGED Queued /\ r \in Taking
        BY <2>4, Zenon DEF SchedulerPick, submitFrame, Queued, Taking
      <3>2. CASE queue = <<>>
        <4>0. Cardinality({}) = 0
          BY Zenon DEF Sizes
        <4>q. Queued = {}
          BY <3>2 DEF Queued
        <4>1. Cardinality(Queued') = 0
          BY <3>1, <4>0, <4>q, Zenon
        <4>2. Cardinality(Taking') \in Nat
          BY SizeType, Zenon DEF Taking
        <4>3. \A w : Cardinality(Place(w)') <= PerWorkloadLimit - 1 + MaxThreads + stranded'
          BY <1>s, <3>1, PlaceKept
        <4> QED
          BY <1>s, <3>1, <4>1, <4>2, <4>3 DEF Placed
      <3>3. CASE queue # <<>>
        <4>1. PICK t \in Best : sub' = [sub EXCEPT ![r] = [pc |-> "take", task |-> t]]
          BY <2>4, <3>3, Zenon DEF SchedulerPick
        <4>2. UNCHANGED Taking
          BY <3>1, <4>1, Zenon DEF Taking, IInv, Shape, CallShape
        <4> QED
          BY <1>0, <3>1, <4>2, Zenon
      <3> QED
        BY <3>2, <3>3, Zenon
    <2>5. CASE SchedulerTake(r)
      <3>1. UNCHANGED profile /\ r \in Taking /\ Taking' = Taking \ {r} /\ stranded' \in {stranded, stranded + 1}
        <4>1. UNCHANGED profile /\ r \in Taking
          BY <2>5, Zenon DEF SchedulerTake, submitFrame, Taking
        <4>2. (At(r, "done") \/ At(r, "preempt")) /\ stranded' \in {stranded, stranded + 1}
          BY <2>5, TakeQueue, Zenon
        <4> QED
          BY <4>1, <4>2, TakingMoves
      <3>2. running' \cup Queued' \subseteq running \cup Queued
        BY <2>5, TakeQueue, Zenon DEF Queued
      <3>3. \A w : Cardinality(Place(w)') <= PerWorkloadLimit - 1 + MaxThreads + stranded'
        BY <1>s, <3>1, <3>2, PlaceKept
      <3>4. Cardinality(Taking') = Cardinality(Taking) - 1
        BY <1>s, <3>1, SizeLess, Zenon
      <3>5. CASE stranded' = stranded + 1 /\ UNCHANGED Queued
        BY <1>s, <1>n, <3>3, <3>4, <3>5 DEF Placed
      <3>6. CASE UNCHANGED stranded /\ sub[r].task \in Queued /\ Queued' = Queued \ {sub[r].task}
        <4>1. Cardinality(Queued') = Cardinality(Queued) - 1
          BY <1>s, <3>6, SizeLess
        <4> QED
          BY <1>s, <1>n, <3>3, <3>4, <3>6, <4>1 DEF Placed
      <3> QED
        BY <2>5, <3>5, <3>6, TakeQueue, Zenon DEF Queued
    <2>6. CASE SchedulerRequeue(r)
      <3>1. UNCHANGED profile /\ r \notin Taking /\ UNCHANGED Taking /\ stranded' = stranded + 1
        <4>1. UNCHANGED profile /\ r \notin Taking
          BY <2>6, Zenon DEF SchedulerRequeue, submitFrame, Taking
        <4>2. At(r, "cancel") /\ stranded' = stranded + 1
          BY <2>6, RequeueQueue, Zenon
        <4> QED
          BY <4>1, <4>2, TakingMoves
      <3>2. /\ running' \cup Queued' \subseteq running \cup Queued /\ sub[r].task \in Runs
            /\ Queued' = Queued \/ Queued' = Queued \cup {sub[r].task}
        BY <2>6, RequeueQueue, Zenon
      <3>3. \A w : Cardinality(Place(w)') <= PerWorkloadLimit - 1 + MaxThreads + stranded'
        BY <1>s, <3>1, <3>2, PlaceKept
      <3>4. Cardinality(Queued') <= Cardinality(Queued) + 1 /\ Cardinality(Queued') \in Nat
        BY <1>s, <1>n, <3>2, SizeAdd
      <3> QED
        BY <1>s, <1>n, <3>1, <3>3, <3>4 DEF Placed
    <2> QED
      BY <1>2, <2>1, <2>2, <2>3, <2>4, <2>5, <2>6, Zenon DEF Submit
  <1> QED
    BY <1>1, <1>2, OtherSteps, Zenon

---------------------------------------------------------------------------
\* Units of money

LEMMA UnitsOf ==
    ASSUME NEW f, NEW S, NEW z
    PROVE  z \in Units(f, S) <=> \E r, u : r \in S /\ u \in 1..f[r] /\ z = <<r, u>>
  BY DEF Units

\* A run that spent nothing does not count.
LEMMA UnitsBut ==
    ASSUME NEW f, NEW S, NEW T, NEW r, S \ {r} = T \ {r}, f[r] = 0
    PROVE  Units(f, S) = Units(f, T)
  <1>1. 1..f[r] = {}
    OBVIOUS
  <1>2. ASSUME NEW z, NEW A, NEW B, A \ {r} = B \ {r}, z \in Units(f, A) PROVE z \in Units(f, B)
    <2>1. PICK x, u : x \in A /\ u \in 1..f[x] /\ z = <<x, u>>
      BY <1>2, UnitsOf
    <2>2. x \in B
      BY <1>1, <1>2, <2>1, Zenon
    <2> QED
      BY <2>1, <2>2, UnitsOf, Zenon
  <1>3. \A z : z \in Units(f, S) <=> z \in Units(f, T)
    BY <1>2, Zenon
  <1> QED
    BY <1>3, Zenon

\* Less money is fewer units.
LEMMA UnitsPart ==
    ASSUME NEW f \in [Runs -> Nat], NEW g \in [Runs -> Nat], NEW S \in SUBSET Runs, \A r \in S : f[r] <= g[r]
    PROVE  Units(f, S) \subseteq Units(g, S)
  <1> SUFFICES ASSUME NEW z \in Units(f, S) PROVE z \in Units(g, S)
    BY Zenon
  <1>1. PICK r, u : r \in S /\ u \in 1..f[r] /\ z = <<r, u>>
    BY UnitsOf
  <1>2. u \in 1..g[r]
    BY <1>1
  <1> QED
    BY <1>1, <1>2, UnitsOf, Zenon

\* Spending c more adds the c units after those there were.
More(r, n, c) == {<<r, n + i>> : i \in 1..c}

LEMMA UnitsMore ==
    ASSUME NEW f \in [Runs -> Nat], NEW g \in [Runs -> Nat], NEW S \in SUBSET Runs, NEW r \in S, NEW c \in Nat,
           Grows(f, g, r, c)
    PROVE  Units(g, S) = Units(f, S) \cup More(r, f[r], c) /\ Units(f, S) \cap More(r, f[r], c) = {}
  <1> DEFINE n == f[r]
             more == More(r, n, c)
  <1> n \in Nat /\ g[r] = n + c /\ \A x \in Runs \ {r} : g[x] = f[x]
    BY Zenon DEF Grows
  <1>1. \A z : z \in more <=> \E i \in 1..c : z = <<r, n + i>>
    BY Zenon DEF More
  <1> HIDE DEF n, more
  <1>2. ASSUME NEW z \in Units(g, S) PROVE z \in Units(f, S) \cup more
    <2>1. PICK x, u : x \in S /\ u \in 1..g[x] /\ z = <<x, u>>
      BY UnitsOf
    <2>2. u \in 1..f[x] \/ (x = r /\ u - n \in 1..c /\ u = n + (u - n))
      BY <2>1 DEF n
    <2> QED
      BY <1>1, <2>1, <2>2, UnitsOf, Zenon
  <1>3. ASSUME NEW z \in Units(f, S) PROVE z \in Units(g, S) /\ z \notin more
    <2>1. PICK x, u : x \in S /\ u \in 1..f[x] /\ z = <<x, u>>
      BY UnitsOf
    <2>2. u \in 1..g[x] /\ \A i \in 1..c : z # <<r, n + i>>
      BY <2>1 DEF n
    <2> QED
      BY <1>1, <2>1, <2>2, UnitsOf, Zenon
  <1>4. ASSUME NEW z \in more PROVE z \in Units(g, S)
    <2>1. PICK i \in 1..c : z = <<r, n + i>>
      BY <1>1, Zenon
    <2>2. n + i \in 1..g[r]
      OBVIOUS
    <2> QED
      BY <2>1, <2>2, UnitsOf, Zenon
  <1> QED
    BY <1>2, <1>3, <1>4, Zenon DEF more, n

\* Where each run spent at most m more, the units added are at most m for each.
Embeds(A, B) == \E inj \in [A -> B] : \A y, z \in A : inj[y] = inj[z] => y = z

LEMMA UnitsExtra ==
    ASSUME NEW f \in [Runs -> Nat], NEW g \in [Runs -> Nat], NEW S \in SUBSET Runs, NEW m \in Nat,
           \A r \in S : f[r] <= g[r] /\ g[r] <= f[r] + m
    PROVE  Embeds(Units(g, S) \ Units(f, S), S \X (1..m))
  <1> DEFINE extra == Units(g, S) \ Units(f, S)
             inj == [z \in extra |-> <<z[1], z[2] - f[z[1]]>>]
  <1>1. ASSUME NEW z \in extra
        PROVE  /\ z = <<z[1], z[2]>> /\ z[1] \in S /\ z[2] \in Nat /\ f[z[1]] \in Nat
               /\ z[2] - f[z[1]] \in 1..m
    <2>1. PICK r, u : r \in S /\ u \in 1..g[r] /\ z = <<r, u>>
      BY UnitsOf
    <2>2. u \notin 1..f[r]
      BY <2>1, UnitsOf, Zenon
    <2>3. f[r] \in Nat /\ u \in Nat /\ u - f[r] \in 1..m
      BY <2>1, <2>2
    <2> QED
      BY <2>1, <2>3, Zenon
  <1> HIDE DEF extra
  <1>2. inj \in [extra -> S \X (1..m)]
    BY <1>1, Zenon
  <1>3. ASSUME NEW y \in extra, NEW z \in extra, inj[y] = inj[z] PROVE y = z
    <2>1. <<y[1], y[2] - f[y[1]]>> = <<z[1], z[2] - f[z[1]]>>
      BY <1>3, Zenon
    <2>2. y[1] = z[1] /\ y[2] = z[2]
      BY <1>1, <2>1
    <2> QED
      BY <1>1, <2>2, Zenon
  <1> HIDE DEF inj
  <1> QED
    BY <1>2, <1>3, Zenon DEF Embeds, extra

---------------------------------------------------------------------------
\* The day of a workload

\* The cleared spend is recorded, also while a report is on its way to the day.
LEMMA RecordedOf ==
    ASSUME SpendShape, NEW cleared \in [Runs -> Nat], \A r \in Runs : ClearedOf(r, cleared)
    PROVE  Recorded \in [Runs -> Nat] /\ \A r \in Runs : cleared[r] <= Recorded[r]
  BY DEF SpendShape, ReportType, ClearedOf, Recorded

LEMMA ProfileSteps ==
    ASSUME IInv, [Next]_vars
    PROVE  UNCHANGED profile \/ \E r \in Runs, p \in Profiles : GateHalt(r, p)
  <1>1. ASSUME NEW r \in Runs, Submit(r) PROVE UNCHANGED profile \/ \E p \in Profiles : GateHalt(r, p)
    BY <1>1, Zenon DEF Submit, GateBudget, SaveRun, SchedulerSubmit, SchedulerPick, SchedulerTake,
       SchedulerPreempt, SchedulerRequeue, CancelVictim, submitFrame
  <1> QED
    BY <1>1, OtherSteps, Zenon DEF Others

\* A step that moves no money keeps the balance; a run that gets its profile has none yet.
LEMMA DaysUnspent ==
    ASSUME IInv, [Next]_vars, Unspent, NEW cleared \in [Runs -> Nat], Balanced(cleared)
    PROVE  Balanced(cleared)'
  <1>1. UNCHANGED <<runSpend, daySpend, report, lost>>
    BY Zenon DEF Unspent, budgetVars
  <1>2. \A r \in Runs : run[r] = "ended" => run'[r] = "ended"
    BY Zenon DEF Unspent, Live
  <1>3. \A r \in Runs : ClearedOf(r, cleared)'
    BY <1>1, <1>2, Zenon DEF Balanced, ClearedOf
  <1>4. Recorded' = Recorded
    BY <1>1, Zenon DEF Recorded
  <1>5. \A k : Units(Recorded, Mine(k)') = Units(Recorded, Mine(k)) /\ Units(cleared, Mine(k)') = Units(cleared, Mine(k))
    <2>1. CASE UNCHANGED profile
      BY <2>1, Zenon DEF Mine, Key
    <2>2. ASSUME NEW r \in Runs, NEW p \in Profiles, GateHalt(r, p)
          PROVE  \A k : Units(Recorded, Mine(k)') = Units(Recorded, Mine(k)) /\ Units(cleared, Mine(k)') = Units(cleared, Mine(k))
      <3>1. run[r] = "none" /\ profile' = [profile EXCEPT ![r] = p]
        BY <2>2, CallsOf, Zenon DEF GateHalt, Early
      <3>2. runSpend[r] = 0 /\ report[r].pc = "idle"
        BY <3>1, Zenon DEF IInv, Reported
      <3>3. Recorded[r] = 0 /\ cleared[r] = 0
        BY <3>2, SMTT(20) DEF Recorded, Balanced, ClearedOf
      <3>4. \A k : Mine(k)' \ {r} = Mine(k) \ {r}
        BY <3>1, Zenon DEF Mine, Key, IInv, Shape, SchedShape
      <3> QED
        BY <3>3, <3>4, UnitsBut, Zenon
    <2> QED
      BY <2>1, <2>2, ProfileSteps, Zenon
  <1> QED
    BY <1>1, <1>3, <1>4, <1>5, Zenon DEF Balanced

\* A report adds its cost to the run: nothing is recorded yet.
LEMMA DaysUsage ==
    ASSUME IInv, NEW r \in Runs, NEW c \in Costs, Usage(r, c), NEW cleared \in [Runs -> Nat], Balanced(cleared)
    PROVE  Balanced(cleared)'
  <1>s. SpendShape /\ c \in Nat
    BY ConstantTypes, Zenon DEF IInv, Shape
  <1>1. /\ run[r] # "ended" /\ report[r].pc = "idle" /\ Filed(r, "day", c, run[r])
        /\ runSpend' = [runSpend EXCEPT ![r] = @ + c] /\ UNCHANGED <<daySpend, lost, run, profile>>
    BY UsageStarts, Zenon
  <1>2. /\ runSpend'[r] = runSpend[r] + c /\ runSpend[r] \in Nat /\ \A x \in Runs \ {r} : runSpend'[x] = runSpend[x]
    BY <1>s, <1>1, Zenon DEF SpendShape
  <1>3. \A x \in Runs : ClearedOf(x, cleared)'
    <2>1. ClearedOf(r, cleared)'
      BY <1>s, <1>1, <1>2, SMTT(20) DEF Balanced, ClearedOf, Filed
    <2>2. ASSUME NEW x \in Runs \ {r} PROVE ClearedOf(x, cleared)'
      BY <1>1, <1>2, ZenonT(40) DEF Balanced, ClearedOf, Filed
    <2> QED
      BY <2>1, <2>2, Zenon
  <1>4. Recorded' = Recorded
    <2>1. \A x \in Runs : Recorded'[x] = Recorded[x]
      BY <1>s, <1>1, <1>2, SMTT(20) DEF Recorded, Filed
    <2> QED
      BY <2>1, Zenon DEF Recorded
  <1>5. \A k : Mine(k)' = Mine(k)
    BY <1>1, Zenon DEF Mine, Key
  <1> QED
    BY <1>1, <1>3, <1>4, <1>5, Zenon DEF Balanced

\* The day gets the cost, unless an addition came between: then it is among the lost.
LEMMA DaysAdd ==
    ASSUME UnitSizes, IInv, NEW r \in Runs, UsageAdd(r), NEW cleared \in [Runs -> Nat], Balanced(cleared)
    PROVE  Balanced(cleared)'
  <1>s. SpendShape /\ Key(r) \in Keys /\ report[r].cost \in Nat
    BY UsageAdds, KeyOf, Zenon DEF IInv, Shape, SpendShape, ReportType
  <1>1. UNCHANGED <<runSpend, run, profile>>
    BY UsageAdds, Zenon
  <1>2. PICK pc \in {"period", "check"} : Filed(r, pc, report[r].cost, report[r].snap)
    BY UsageAdds, Zenon
  <1>3. \A x \in Runs : ClearedOf(x, cleared)'
    <2>1. report[r].pc \in {"day", "period"}
      BY UsageAdds, Zenon
    <2> QED
      BY <1>1, <1>2, <2>1, Zenon DEF Balanced, ClearedOf, Filed
  <1>4. \A k : Mine(k)' = Mine(k)
    BY <1>1, Zenon DEF Mine, Key
  <1>5. Recorded \in [Runs -> Nat] /\ Recorded' \in [Runs -> Nat]
    <2>1. SpendShape'
      BY SpendKept, Zenon DEF Next, Driving, RecordUsage
    <2>2. Recorded \in [Runs -> Nat]
      BY <1>s, RecordedOf, Zenon DEF Balanced
    <2>3. \A x \in Runs : Recorded'[x] \in Nat
      BY <1>2, <1>3, <2>1, SMTT(20) DEF SpendShape, ReportType, ClearedOf, Recorded
    <2> QED
      BY <2>2, <2>3, Zenon DEF Recorded
  <1>6. CASE /\ report[r].pc = "day" /\ daySpend' = [daySpend EXCEPT ![Key(r)] = report[r].seen + report[r].cost]
             /\ lost' = IF daySpend[Key(r)] # report[r].seen THEN lost \cup {Key(r)} ELSE lost
    <2>1. /\ Recorded'[r] = Recorded[r] + report[r].cost /\ Recorded[r] \in Nat
          /\ \A x \in Runs \ {r} : Recorded'[x] = Recorded[x]
      BY <1>s, <1>1, <1>2, <1>5, <1>6, SMTT(20) DEF SpendShape, Recorded, Filed, Balanced, ClearedOf
    <2>2. ASSUME NEW k \in Keys \ lost'
          PROVE  /\ Cardinality(Units(Recorded', Mine(k))) = daySpend'[k]
                 /\ Cardinality(Units(cleared, Mine(k))) <= PerDay
      <3>1. /\ k \in Keys \ lost /\ Mine(k) \in SUBSET Runs /\ (r \in Mine(k) <=> k = Key(r))
        BY <1>6, Zenon DEF Mine
      <3>2. Cardinality(Units(Recorded, Mine(k))) = daySpend[k] /\ Cardinality(Units(cleared, Mine(k))) <= PerDay
        BY <3>1, Zenon DEF Balanced
      <3>3. Cardinality(Units(Recorded', Mine(k))) = daySpend[k] + IF r \in Mine(k) THEN report[r].cost ELSE 0
        BY <1>s, <1>5, <2>1, <3>1, <3>2, SMTT(20) DEF UnitSizes, Grows
      <3>4. CASE k = Key(r)
        <4>1. daySpend'[k] = daySpend[k] + report[r].cost
          BY <1>s, <1>6, <3>4, Zenon DEF SpendShape
        <4> QED
          BY <3>1, <3>2, <3>3, <3>4, <4>1, SMTT(20)
      <3>5. CASE k # Key(r)
        <4>1. daySpend'[k] = daySpend[k] /\ daySpend[k] \in Nat
          BY <1>s, <1>6, <3>5, Zenon DEF SpendShape
        <4> QED
          BY <3>1, <3>2, <3>3, <3>5, <4>1, SMTT(20)
      <3> QED
        BY <3>4, <3>5, Zenon
    <2> QED
      BY <1>3, <1>4, <2>2, Zenon DEF Balanced
  <1>7. CASE report[r].pc = "period" /\ pc = "check" /\ UNCHANGED daySpend /\ lost \subseteq lost'
    <2>1. \A x \in Runs : Recorded'[x] = Recorded[x]
      BY <1>1, <1>2, <1>7, Zenon DEF Recorded, Filed
    <2>2. Recorded' = Recorded
      BY <1>5, <2>1
    <2> QED
      BY <1>3, <1>4, <1>7, <2>2, Zenon DEF Balanced
  <1> QED
    BY <1>2, <1>6, <1>7, UsageAdds, Zenon DEF Filed

\* A report that finds the day within its limit clears all that is recorded of its run.
LEMMA DaysCompare ==
    ASSUME UnitSizes, IInv, NEW r \in Runs, UsageCompare(r), NEW cleared \in [Runs -> Nat], Balanced(cleared)
    PROVE  Days'
  <1>s. SpendShape /\ PerDay \in Nat
    BY ConstantTypes, Zenon DEF IInv, Shape
  <1>1. report[r].pc = "check" /\ UNCHANGED <<runSpend, daySpend, lost, run, profile>>
    BY UsageChecks, Zenon
  <1>2. \A k : Mine(k)' = Mine(k)
    BY <1>1, Zenon DEF Mine, Key
  <1>3. Recorded \in [Runs -> Nat] /\ \A x \in Runs : cleared[x] <= Recorded[x]
    BY <1>s, RecordedOf, Zenon DEF Balanced
  <1>4. ASSUME NEW pc \in {"over", "within"}, Filed(r, pc, report[r].cost, report[r].snap) PROVE Recorded' = Recorded
    <2>1. \A x \in Runs : Recorded'[x] = Recorded[x]
      BY <1>1, <1>4, Zenon DEF Recorded, Filed
    <2> QED
      BY <2>1, Zenon DEF Recorded
  <1>5. CASE Filed(r, "over", report[r].cost, report[r].snap)
    <2>1. \A x \in Runs : ClearedOf(x, cleared)'
      BY <1>1, <1>5, Zenon DEF Balanced, ClearedOf, Filed
    <2>2. Balanced(cleared)'
      BY <1>1, <1>2, <1>4, <1>5, <2>1, Zenon DEF Balanced
    <2> QED
      BY <2>2, Zenon DEF Days
  <1>6. CASE ~ Exceeded(r, Key(r), Tenant(r)) /\ Filed(r, "within", report[r].cost, report[r].snap)
    <2>0. PICK new : new = [cleared EXCEPT ![r] = runSpend[r]]
      BY Zenon
    <2>1. /\ new \in [Runs -> Nat] /\ new[r] = runSpend[r] /\ runSpend[r] \in Nat
          /\ \A x \in Runs \ {r} : new[x] = cleared[x]
      BY <1>s, <2>0, Zenon DEF SpendShape
    <2>2. \A x \in Runs : ClearedOf(x, new)'
      <3>1. ClearedOf(r, new)'
        BY <1>1, <1>6, <2>1, SMTT(20) DEF ClearedOf, Filed
      <3>2. ASSUME NEW x \in Runs \ {r} PROVE ClearedOf(x, new)'
        BY <1>1, <1>6, <2>1, Zenon DEF Balanced, ClearedOf, Filed
      <3> QED
        BY <3>1, <3>2, Zenon
    <2>3. ASSUME NEW k \in Keys \ lost PROVE Cardinality(Units(new, Mine(k))) <= PerDay
      <3>0. Mine(k) \in SUBSET Runs /\ (r \in Mine(k) <=> k = Key(r))
        BY Zenon DEF Mine
      <3>1. CASE k = Key(r)
        <4>1. \A x \in Mine(k) : new[x] <= Recorded[x]
          BY <1>1, <1>3, <2>1, <3>0, SMTT(20) DEF Recorded
        <4>2. Cardinality(Units(new, Mine(k))) <= Cardinality(Units(Recorded, Mine(k)))
          BY <1>3, <2>1, <3>0, <4>1, Zenon DEF UnitSizes
        <4>3. Cardinality(Units(Recorded, Mine(k))) = daySpend[k] /\ daySpend[k] \in Nat
          BY <1>s, Zenon DEF Balanced, SpendShape
        <4>4. Cardinality(Units(new, Mine(k))) \in Nat
          BY <2>1, <3>0, Zenon DEF UnitSizes
        <4>5. ~ daySpend[k] > PerDay
          BY <1>6, <3>1, Zenon DEF Exceeded
        <4> QED
          BY <1>s, <4>2, <4>3, <4>4, <4>5, SMTT(20)
      <3>2. CASE k # Key(r)
        <4>1. \A x \in Mine(k) : new[x] = cleared[x]
          BY <2>1, <3>0, <3>2, Zenon
        <4>2. Units(new, Mine(k)) = Units(cleared, Mine(k))
          BY <4>1, Zenon DEF Units
        <4> QED
          BY <4>2, Zenon DEF Balanced
      <3> QED
        BY <3>1, <3>2, Zenon
    <2>4. Balanced(new)'
      BY <1>1, <1>2, <1>4, <1>6, <2>2, <2>3, Zenon DEF Balanced
    <2> QED
      BY <2>1, <2>4, Zenon DEF Days
  <1> QED
    BY <1>5, <1>6, UsageChecks, Zenon

\* A run whose report found too much spent is failed, with that report uncleared.
LEMMA DaysEnd ==
    ASSUME IInv, NEW r \in Runs, UsageSave(r) \/ UsageFail(r), NEW cleared \in [Runs -> Nat], Balanced(cleared)
    PROVE  Balanced(cleared)'
  <1>s. SpendShape /\ run \in [Runs -> Live \cup {"none", "ended"}] /\ Reported
    BY Zenon DEF IInv, Shape, CallShape
  <1>1. report[r].pc \in {"over", "within", "fail"} /\ UNCHANGED <<runSpend, daySpend, lost, profile>>
    BY UsageEnds, Zenon
  <1>2. \A k : Mine(k)' = Mine(k)
    BY <1>1, Zenon DEF Mine, Key
  <1>3. report[r].cost \in Nat /\ report[r].cost <= MaxCost /\ MaxCost \in Nat
    BY <1>s, <1>1, ConstantTypes, Zenon DEF Reported
  <1>4. PICK pc \in {"fail", "idle"} : /\ report'[r].pc = pc
                                       /\ \A x \in Runs \ {r} : report'[x] = report[x] /\ run'[x] = run[x]
    BY <1>s, UsageEnds, ZenonT(40) DEF Filed
  <1>5. Recorded' = Recorded
    <2>1. \A x \in Runs : Recorded'[x] = Recorded[x]
      BY <1>1, <1>4, Zenon DEF Recorded
    <2> QED
      BY <2>1, Zenon DEF Recorded
  <1>6. ClearedOf(r, cleared)'
    <2>1. ClearedOf(r, cleared) /\ runSpend[r] \in Nat /\ cleared[r] \in Nat
      BY <1>s, Zenon DEF Balanced, SpendShape
    <2>2. CASE report[r].pc = "over" /\ Filed(r, "fail", report[r].cost, report[r].snap)
      BY <1>1, <2>1, <2>2, Zenon DEF ClearedOf, Filed
    <2>3. CASE report[r].pc = "within" /\ Filed(r, "idle", 0, "none")
      BY <1>1, <2>1, <2>3, Zenon DEF ClearedOf, Filed
    <2>4. CASE report[r].pc = "fail" /\ Filed(r, "idle", 0, "none") /\ run' = [run EXCEPT ![r] = "ended"]
      BY <1>s, <1>1, <1>3, <2>1, <2>4, SMTT(20) DEF ClearedOf, Filed
    <2> QED
      BY <2>2, <2>3, <2>4, UsageEnds, Zenon
  <1>7. ASSUME NEW x \in Runs \ {r} PROVE ClearedOf(x, cleared)'
    BY <1>1, <1>4, Zenon DEF Balanced, ClearedOf
  <1> QED
    BY <1>1, <1>2, <1>5, <1>6, <1>7, Zenon DEF Balanced

LEMMA DaysKept ==
    ASSUME UnitSizes, IInv, [Next]_vars
    PROVE  Days'
  <1>1. PICK cleared \in [Runs -> Nat] : Balanced(cleared)
    BY Zenon DEF IInv, Days
  <1>2. CASE Unspent
    BY <1>1, <1>2, DaysUnspent, Zenon DEF Days
  <1>3. ASSUME NEW r \in Runs, NEW c \in Costs, Usage(r, c) PROVE Days'
    BY <1>1, <1>3, DaysUsage, Zenon DEF Days
  <1>4. ASSUME NEW r \in Runs, RecordUsage(r) PROVE Days'
    BY <1>1, <1>4, DaysAdd, DaysCompare, DaysEnd, Zenon DEF RecordUsage, Days
  <1> QED
    BY <1>2, <1>3, <1>4, SpendSteps, Zenon

---------------------------------------------------------------------------
\* Every step keeps the invariant.
LEMMA StepIInv ==
    ASSUME Sizes, UnitSizes, IInv, [Next]_vars
    PROVE  IInv'
  BY SchedKept, CallShapeKept, SpendKept, CallsKept, FreedKept, HaltingKept, PlacedKept, DaysKept, Zenon
     DEF IInv, Shape

---------------------------------------------------------------------------
\* What the invariant says of the types, the limit, the day and the halt

LEMMA TypeOf ==
    ASSUME Sizes, IInv
    PROVE  TypeOK
  <1>1. Cardinality(Queued) = Len(queue)
    BY EntriesOf, Zenon DEF Sizes, IInv, Shape, SchedShape, QueuedOnce
  <1> QED
    BY <1>1, Zenon DEF IInv, Shape, SchedShape, CallShape, QueuedOnce, TypeOK, CallType, IncidentType

LEMMA LimitOf ==
    ASSUME Sizes, IInv
    PROVE  LimitOvershoot
  <1> SUFFICES ASSUME NEW w \in Workloads
               PROVE  RunningForWorkload(w) <= PerWorkloadLimit - 1 + MaxThreads + stranded
    BY Zenon DEF LimitOvershoot
  <1> DEFINE mine == {r \in running : profile[r].workload = w}
  <1>1. mine \in SUBSET Place(w) /\ Place(w) \in SUBSET Runs /\ mine \in SUBSET Runs
    BY EntriesOf, Zenon DEF Place, IInv, Shape, SchedShape
  <1>2. RunningForWorkload(w) = Cardinality(mine)
    BY Zenon DEF RunningForWorkload
  <1> HIDE DEF mine
  <1>3. /\ Cardinality(mine) <= Cardinality(Place(w)) /\ Cardinality(mine) \in Nat
        /\ Cardinality(Place(w)) \in Nat
    BY <1>1, SizePart, SizeType, Zenon
  <1>4. Cardinality(Place(w)) <= PerWorkloadLimit - 1 + MaxThreads + stranded /\ stranded \in Nat
    BY Zenon DEF IInv, Placed, Shape, CallShape
  <1> QED
    BY <1>2, <1>3, <1>4, ConstantTypes

LEMMA DayOf ==
    ASSUME Sizes, UnitSizes, IInv
    PROVE  DayOvershoot
  <1> USE ConstantTypes
  <1> SpendShape /\ Reported
    BY Zenon DEF IInv, Shape
  <1> PICK cleared \in [Runs -> Nat] : Balanced(cleared)
    BY Zenon DEF IInv, Days
  <1>1. \A r \in Runs : cleared[r] <= runSpend[r] /\ runSpend[r] <= cleared[r] + MaxCost
    <2> SUFFICES ASSUME NEW r \in Runs PROVE cleared[r] <= runSpend[r] /\ runSpend[r] <= cleared[r] + MaxCost
      BY Zenon
    <2>1. ClearedOf(r, cleared) /\ runSpend[r] \in Nat /\ cleared[r] \in Nat
      BY Zenon DEF Balanced, SpendShape
    <2>2. report[r].pc # "idle" => report[r].cost \in Nat /\ report[r].cost <= MaxCost
      BY Zenon DEF Reported
    <2> QED
      BY <2>1, <2>2 DEF ClearedOf
  <1>2. DOMAIN daySpend = Keys
    BY Zenon DEF SpendShape
  <1>3. ASSUME NEW k \in Keys \ lost
        PROVE  Cardinality(Units(runSpend, Mine(k))) <= PerDay + MaxCost * Cardinality(Mine(k))
    <2>1. Mine(k) \in SUBSET Runs /\ runSpend \in [Runs -> Nat]
      BY Zenon DEF Mine, SpendShape
    <2>2. Cardinality(Units(runSpend, Mine(k))) <= Cardinality(Units(cleared, Mine(k))) + MaxCost * Cardinality(Mine(k))
      BY <1>1, <2>1, Zenon DEF UnitSizes
    <2>3. Cardinality(Units(cleared, Mine(k))) <= PerDay
      BY Zenon DEF Balanced
    <2>4. /\ Cardinality(Units(runSpend, Mine(k))) \in Nat /\ Cardinality(Units(cleared, Mine(k))) \in Nat
          /\ Cardinality(Mine(k)) \in Nat
      BY <2>1, SizeType, Zenon DEF UnitSizes
    <2>5. MaxCost * Cardinality(Mine(k)) \in Nat
      BY <2>4
    <2> QED
      BY <2>2, <2>3, <2>4, <2>5
  <1> QED
    BY <1>2, <1>3, Zenon DEF DayOvershoot, Mine

LEMMA HaltOf ==
    ASSUME Sizes, IInv
    PROVE  HaltBounded
  <1>1. /\ late \cup Entering \in SUBSET Runs /\ late \in SUBSET (late \cup Entering)
        /\ late \in SUBSET Runs
    BY Zenon DEF IInv, Shape, CallShape, Entering
  <1>2. /\ Cardinality(late) <= Cardinality(late \cup Entering)
        /\ Cardinality(late) \in Nat /\ Cardinality(late \cup Entering) \in Nat
    BY <1>1, SizePart, SizeType, Zenon
  <1>3. ~ FleetHalted => Cardinality(late) = 0
    BY Zenon DEF IInv, Halting, Sizes
  <1> QED
    BY <1>2, <1>3, ConstantTypes DEF IInv, Halting, HaltBounded

---------------------------------------------------------------------------
\* The sizes, from the library

FST == INSTANCE FiniteSetTheorems

LEMMA SameSizes ==
    /\ \A U : IsFiniteSet(U) <=> FST!IsFiniteSet(U)
    /\ \A U : Cardinality(U) = FST!Cardinality(U)
  BY DEF IsFiniteSet, FST!IsFiniteSet, Cardinality, FST!Cardinality

LEMMA RunsFinite ==
    ASSUME NEW S \in SUBSET Runs
    PROVE  IsFiniteSet(S) /\ Cardinality(S) \in Nat
  BY FleetAssumption, SameSizes, FST!FS_Subset, FST!FS_CardinalityType, SMTT(20)

\* A set that is counted by 1..n has n members.
LEMMA Counted ==
    ASSUME NEW n \in Nat, NEW U, NEW b \in [1..n -> U],
           \A i, j \in 1..n : b[i] = b[j] => i = j, \A z \in U : \E i \in 1..n : b[i] = z
    PROVE  IsFiniteSet(U) /\ Cardinality(U) = n
  <1>1. FST!IsFiniteSet(1..n) /\ FST!Cardinality(1..n) = n
    BY FST!FS_Interval
  <1>2. b \in FST!Bijection(1..n, U)
    BY DEF FST!Bijection, FST!Injection, FST!Surjection, FST!IsInjective
  <1>3. FST!ExistsBijection(1..n, U)
    BY <1>2, Zenon DEF FST!ExistsBijection
  <1> QED
    BY <1>1, <1>3, SameSizes, FST!FS_Bijection, Zenon

LEMMA SizesHold == Sizes
  <1>1. Cardinality({}) = 0
    BY SameSizes, FST!FS_EmptySet
  <1>2. ASSUME NEW q \in Seq(Runs), Distinct(q) PROVE Cardinality(Entries(q)) = Len(q)
    <2>1. /\ Len(q) \in Nat /\ q \in [1..Len(q) -> Entries(q)]
          /\ \A i, j \in 1..Len(q) : q[i] = q[j] => i = j
          /\ \A z \in Entries(q) : \E i \in 1..Len(q) : q[i] = z
      BY <1>2 DEF Entries, Distinct
    <2> QED
      BY <2>1, Counted, Zenon
  <1>3. ASSUME NEW S \in SUBSET Runs, NEW T \in SUBSET S PROVE Cardinality(T) <= Cardinality(S)
    BY RunsFinite, SameSizes, FST!FS_Subset, SMTT(20)
  <1>4. ASSUME NEW S \in SUBSET Runs, NEW T \in SUBSET Runs
        PROVE  Cardinality(S \cup T) <= Cardinality(S) + Cardinality(T)
    <2>1. Cardinality(S) \in Nat /\ Cardinality(T) \in Nat /\ Cardinality(S \cap T) \in Nat
      BY RunsFinite
    <2>2. Cardinality(S \cup T) = Cardinality(S) + Cardinality(T) - Cardinality(S \cap T)
      BY RunsFinite, SameSizes, FST!FS_Union, SMTT(20)
    <2> QED
      BY <2>1, <2>2
  <1>5. ASSUME NEW S \in SUBSET Runs, NEW r \in Runs
        PROVE  /\ Cardinality(S \cup {r}) = IF r \in S THEN Cardinality(S) ELSE Cardinality(S) + 1
               /\ Cardinality(S \ {r}) = IF r \in S THEN Cardinality(S) - 1 ELSE Cardinality(S)
    BY RunsFinite, SameSizes, FST!FS_AddElement, FST!FS_RemoveElement, SMTT(20)
  <1> QED
    BY <1>1, <1>2, <1>3, <1>4, <1>5, RunsFinite, ZenonT(40) DEF Sizes

LEMMA UnitsFinite ==
    ASSUME NEW f \in [Runs -> Nat], NEW S \in SUBSET Runs
    PROVE  IsFiniteSet(Units(f, S)) /\ Cardinality(Units(f, S)) \in Nat
  <1> DEFINE fam == {{r} \X (1..f[r]) : r \in S}
             g == [r \in S |-> {r} \X (1..f[r])]
  <1>1. g \in FST!Surjection(S, fam)
    BY Zenon DEF FST!Surjection
  <1>2. FST!IsFiniteSet(fam)
    BY <1>1, RunsFinite, SameSizes, FST!FS_Surjection, Zenon
  <1>3. ASSUME NEW r \in S PROVE FST!IsFiniteSet({r} \X (1..f[r]))
    <2>1. 1 \in Int /\ f[r] \in Int
      OBVIOUS
    <2>2. FST!IsFiniteSet({r}) /\ FST!IsFiniteSet(1..f[r])
      BY <2>1, FST!FS_Singleton, FST!FS_Interval, Zenon
    <2> QED
      BY <2>2, FST!FS_Product, Zenon
  <1>4. FST!IsFiniteSet(UNION fam)
    BY <1>2, <1>3, FST!FS_UNION, Zenon
  <1>5. Units(f, S) = UNION fam
    BY DEF Units
  <1> QED
    BY <1>4, <1>5, SameSizes, FST!FS_CardinalityType, SMTT(20)

LEMMA UnitsGrow ==
    ASSUME NEW f \in [Runs -> Nat], NEW g \in [Runs -> Nat], NEW S \in SUBSET Runs, NEW r \in Runs, NEW c \in Nat,
           Grows(f, g, r, c)
    PROVE  Cardinality(Units(g, S)) = Cardinality(Units(f, S)) + IF r \in S THEN c ELSE 0
  <1>0. Cardinality(Units(f, S)) \in Nat
    BY UnitsFinite
  <1>1. CASE r \notin S
    <2>1. Units(g, S) = Units(f, S)
      BY <1>1, Zenon DEF Units, Grows
    <2> QED
      BY <1>0, <1>1, <2>1, SMTT(20)
  <1>2. CASE r \in S
    <2> DEFINE more == More(r, f[r], c)
    <2>1. IsFiniteSet(more) /\ Cardinality(more) = c
      <3> DEFINE b == [i \in 1..c |-> <<r, f[r] + i>>]
      <3>1. b \in [1..c -> more] /\ \A z \in more : \E i \in 1..c : b[i] = z
        BY DEF More
      <3>2. \A i, j \in 1..c : b[i] = b[j] => i = j
        OBVIOUS
      <3> HIDE DEF b, more
      <3> QED
        BY <3>1, <3>2, Counted, ZenonT(40)
    <2> HIDE DEF more
    <2>2. Units(g, S) = Units(f, S) \cup more /\ Units(f, S) \cap more = {}
      BY <1>2, UnitsMore, ZenonT(40) DEF more
    <2>3. Cardinality(Units(g, S)) = Cardinality(Units(f, S)) + Cardinality(more) - Cardinality({})
      BY <2>1, <2>2, UnitsFinite, SameSizes, FST!FS_Union, SMTT(20)
    <2> QED
      BY <1>0, <1>2, <2>1, <2>3, SizesHold, SMTT(20) DEF Sizes
  <1> QED
    BY <1>1, <1>2, SMTT(20)

LEMMA UnitsExcess ==
    ASSUME NEW f \in [Runs -> Nat], NEW g \in [Runs -> Nat], NEW S \in SUBSET Runs, NEW m \in Nat,
           \A r \in S : f[r] <= g[r] /\ g[r] <= f[r] + m
    PROVE  Cardinality(Units(g, S)) <= Cardinality(Units(f, S)) + m * Cardinality(S)
  <1> DEFINE F == Units(f, S)
             G == Units(g, S)
             n == FST!Cardinality(S)
  <1>1. PICK inj \in [G \ F -> S \X (1..m)] : \A y, z \in G \ F : inj[y] = inj[z] => y = z
    <2>1. Embeds(G \ F, S \X (1..m))
      BY UnitsExtra, SMTT(20)
    <2> QED
      BY <2>1, Zenon DEF Embeds
  <1>2. /\ FST!IsFiniteSet(F) /\ FST!IsFiniteSet(G) /\ FST!IsFiniteSet(S)
        /\ FST!Cardinality(F) \in Nat /\ FST!Cardinality(G) \in Nat /\ n \in Nat
    BY UnitsFinite, RunsFinite, SameSizes, SMTT(20)
  <1> HIDE DEF F, G, n
  <1>3. FST!IsFiniteSet(S \X (1..m)) /\ FST!Cardinality(S \X (1..m)) = n * m
    <2>1. FST!IsFiniteSet(1..m) /\ FST!Cardinality(1..m) = m
      BY FST!FS_Interval
    <2> QED
      BY <1>2, <2>1, FST!FS_Product, ZenonT(40) DEF n
  <1>4. inj \in FST!Injection(G \ F, S \X (1..m))
    BY <1>1 DEF FST!Injection, FST!IsInjective
  <1>5. FST!IsFiniteSet(G \ F) /\ FST!Cardinality(G \ F) <= n * m /\ FST!Cardinality(G \ F) \in Nat
    BY <1>3, <1>4, FST!FS_Injection, FST!FS_CardinalityType, SMTT(20)
  <1>6. /\ FST!Cardinality(G \ F) = FST!Cardinality(G) - FST!Cardinality(G \cap F)
        /\ FST!IsFiniteSet(G \cap F) /\ FST!Cardinality(G \cap F) <= FST!Cardinality(F)
    BY <1>2, FST!FS_Difference, FST!FS_Intersection, Zenon
  <1>7. FST!Cardinality(G) <= FST!Cardinality(F) + m * n
    <2>1. n * m = m * n /\ m * n \in Nat /\ FST!Cardinality(G \cap F) \in Nat
      BY <1>2, <1>6, FST!FS_CardinalityType, SMTT(20)
    <2> QED
      BY <1>2, <1>5, <1>6, <2>1, SMTT(20)
  <1> QED
    BY <1>7, SameSizes, Zenon DEF F, G, n

LEMMA UnitSizesHold == UnitSizes
  <1>1. ASSUME NEW f \in [Runs -> Nat], NEW g \in [Runs -> Nat], NEW S \in SUBSET Runs, \A r \in S : f[r] <= g[r]
        PROVE  Cardinality(Units(f, S)) <= Cardinality(Units(g, S))
    BY <1>1, UnitsPart, UnitsFinite, SameSizes, FST!FS_Subset, SMTT(20)
  <1> SUFFICES ASSUME NEW f \in [Runs -> Nat], NEW g \in [Runs -> Nat], NEW S \in SUBSET Runs
               PROVE  UnitSizes!(f, g, S)
    BY Zenon DEF UnitSizes
  <1> QED
    BY <1>1, UnitsFinite, UnitsGrow, UnitsExcess, SMTT(20)

---------------------------------------------------------------------------
\* The inductive invariant holds throughout, for any number of runs and any limits.
THEOREM Inductive == Spec => []IInv
  <1>1. Init => IInv
    BY SizesHold, InitIInv
  <1>2. IInv /\ [Next]_vars => IInv'
    BY SizesHold, UnitSizesHold, StepIInv
  <1> QED
    BY <1>1, <1>2, PTL DEF Spec

\* TypeOK: the scheduler, the calls and the incidents keep their types, and no task is queued
\* twice or both queued and running, although submit, dequeue, preempt and complete of
\* concurrent requests take no lock.
THEOREM TypeCorrect == Spec => []TypeOK
  <1>1. IInv => TypeOK
    BY SizesHold, TypeOf, SMTT(20)
  <1> QED
    BY <1>1, Inductive, PTL

\* NoSlotLeak: a run that ended and was completed holds neither capacity nor a place in the
\* queue, unless complete came before its registration or after its preemption.
THEOREM CapacityFreed == Spec => []NoSlotLeak
  <1>1. IInv => NoSlotLeak
    BY Zenon DEF IInv, Freed, NoSlotLeak
  <1> QED
    BY <1>1, Inductive, PTL

\* LimitOvershoot: the tasks of a workload exceed its limit by at most the submissions in
\* flight, less one, and the entries left behind, for any limit and any number of threads.
THEOREM LimitOvershootBounded == Spec => []LimitOvershoot
  <1>1. IInv => LimitOvershoot
    BY SizesHold, LimitOf
  <1> QED
    BY <1>1, Inductive, PTL

\* DayOvershoot: what is spent on a workload in a day exceeds its budget by at most the cost
\* of one report of each of its runs, unless racing additions lost a part, for any costs.
THEOREM DayOvershootBounded == Spec => []DayOvershoot
  <1>1. IInv => DayOvershoot
    BY SizesHold, UnitSizesHold, DayOf, SMTT(20)
  <1> QED
    BY <1>1, Inductive, PTL

\* OverBudgetEnds: when the report that exceeded the budget of a run has returned, the run has
\* ended, whatever paused, resumed or stopped it while the report was written.
THEOREM OverBudgetEnded == Spec => []OverBudgetEnds
  <1>1. IInv => OverBudgetEnds
    BY Zenon DEF IInv
  <1> QED
    BY <1>1, Inductive, PTL

\* HaltBounded: while a fleet incident is active, only submissions that were in flight when it
\* was recorded are saved, at most as many as there are threads, whatever other incidents are
\* opened and resumed.
THEOREM HaltedBounded == Spec => []HaltBounded
  <1>1. IInv => HaltBounded
    BY SizesHold, HaltOf
  <1> QED
    BY <1>1, Inductive, PTL
===========================================================================
