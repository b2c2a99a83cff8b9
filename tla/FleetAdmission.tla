--------------------------- MODULE FleetAdmission ---------------------------
(***************************************************************************)
(* How runs get in and what holds them back: RunService.submit with the    *)
(* gates of execution/admission.py, the scheduler registration that ends   *)
(* it, usage reports and the budget that fails a run, and the incidents    *)
(* of incident/service.py that halt the fleet.                             *)
(*                                                                         *)
(* A request thread per submission walks through the gates, saves the run  *)
(* and registers it; each step of it is one access to shared state.  The   *)
(* run row is abstracted to live states and "ended"; RunLifecycle has the  *)
(* detail of its transitions, but the save of record_usage, which writes   *)
(* back the state it read, is kept.                                        *)
(***************************************************************************)
EXTENDS Scheduler, Budget

CONSTANTS
    MaxThreads,        \* submissions in flight at once
    MaxOps,            \* operator requests: incidents, resumes, freezes
    MaxReports         \* usage reports of one run

\* The runs are those that spend, finitely many, and a report costs at most so much.
ASSUME FleetAssumption ==
    /\ Spenders = Runs /\ IsFiniteSet(Runs)
    /\ {MaxThreads, MaxOps, MaxReports} \subseteq Nat
    /\ \E c \in Costs : \A d \in Costs : d <= c

VARIABLES
    run,               \* Run.state: "none" before the save, "ended" when terminal
    sub,               \* the submit call of each run
    ending,            \* runs saved terminal whose scheduler.complete is to come
    incidents,         \* IncidentRecords by age
    reports,           \* usage reports made by each run
    stray,             \* history: runs completed while not among the running tasks
    stranded,          \* history: entries a preemption or a raised dequeue left queued
    late,              \* history: runs saved since the fleet was halted
    ops                \* operator requests so far

vars == <<schedVars, budgetVars, run, sub, ending, incidents, reports, stray, stranded,
          late, ops>>

Key(r) == <<profile[r].tenant, profile[r].workload>>
Tenant(r) == profile[r].tenant

Scopes == {"fleet"} \cup Tenants \cup Workloads
PauseSteps == {"drain", "notify", "done"}
SubmitSteps == {"idle", "budget", "save", "enqueue", "pick", "take", "preempt",
                "requeue", "cancel", "done", "refused"}
InFlight == {r \in Runs : sub[r].pc \notin {"idle", "done", "refused"}}
Live == {"queued", "running", "paused"}

NoCall == [pc |-> "idle", task |-> "none"]

Init ==
    /\ SchedInit
    /\ BudgetInit({<<p.tenant, p.workload>> : p \in Profiles}, Tenants)
    /\ run = [r \in Runs |-> "none"]
    /\ sub = [r \in Runs |-> NoCall]
    /\ ending = {} /\ incidents = <<>>
    /\ reports = [r \in Runs |-> 0]
    /\ stray = {} /\ stranded = 0 /\ late = {} /\ ops = 0

---------------------------------------------------------------------------
\* Incidents

Active(i) == incidents[i].active

Covers(i, p) == incidents[i].scope \in {"fleet", p.tenant, p.workload}

\* Mutation of Halted: only the newest active incident counts.
HaltedNewest(p) ==
    \E i \in 1..Len(incidents) :
        Active(i) /\ Covers(i, p) /\ \A j \in 1..Len(incidents) : Active(j) => j <= i

\* halted: any active incident that covers the run's tenant or workload
Halted(p) == \E i \in 1..Len(incidents) : Active(i) /\ Covers(i, p)

FleetHalted == \E i \in 1..Len(incidents) : Active(i) /\ incidents[i].scope = "fleet"

incidentFrame == <<profile, queue, running, checkpointed, budgetVars, run, sub, ending,
                   reports, stray, stranded>>

Operate == ops < MaxOps /\ ops' = ops + 1

\* pause: the record is saved, then drain freezes the queue, whatever the scope.
PauseFleet(scope) ==
    /\ Operate
    /\ incidents' = Append(incidents, [scope |-> scope, active |-> TRUE,
                                       pausing |-> "drain", lifting |-> 0])
    /\ UNCHANGED <<freezeVars, late, incidentFrame>>

DrainFleet(i) ==
    /\ incidents[i].pausing = "drain"
    /\ incidents' = [incidents EXCEPT ![i].pausing = "notify"]
    /\ frozenAll' = TRUE
    /\ UNCHANGED <<frozenTenants, frozenWorkloads, late, ops, incidentFrame>>

\* The owners are notified over the network; if there were any, the record of the
\* start is saved once more, and a resume that came meanwhile is undone.
NotifyOwners(i, owners) ==
    /\ incidents[i].pausing = "notify"
    /\ incidents' = [incidents EXCEPT ![i].pausing = "done", ![i].active = @ \/ owners]
    /\ UNCHANGED <<freezeVars, late, ops, incidentFrame>>

\* resume: the record is saved, then undrain lifts the freeze, even if another
\* incident is active.
ResumeFleet(i) ==
    /\ Active(i)
    /\ Operate
    /\ incidents' = [incidents EXCEPT ![i].active = FALSE, ![i].lifting = @ + 1]
    /\ late' = IF FleetHalted' THEN late ELSE {}
    /\ UNCHANGED <<freezeVars, incidentFrame>>

UndrainFleet(i) ==
    /\ incidents[i].lifting > 0
    /\ incidents' = [incidents EXCEPT ![i].lifting = @ - 1]
    /\ frozenAll' = FALSE
    /\ UNCHANGED <<frozenTenants, frozenWorkloads, late, ops, incidentFrame>>

\* The freeze and unfreeze requests of the queue.
Freeze(t, ws) ==
    /\ Operate
    /\ FreezeQueue(t, ws) \/ UnfreezeQueue(t, ws)
    /\ UNCHANGED <<incidents, late, incidentFrame>>

---------------------------------------------------------------------------
\* submit

Goto(r, pc) == sub' = [sub EXCEPT ![r].pc = pc]

submitFrame == <<profile, freezeVars, budgetVars, incidents, reports, ops>>

\* A submission arrives, and passes the halt gate or is refused.
GateHalt(r, p) ==
    /\ sub[r].pc = "idle"
    /\ Cardinality(InFlight) < MaxThreads
    /\ profile' = [profile EXCEPT ![r] = p]
    /\ Goto(r, IF Halted(p) THEN "refused" ELSE "budget")
    /\ UNCHANGED <<freezeVars, budgetVars, incidents, reports, ops, late, queue, running, checkpointed, run, ending, stray, stranded>>

\* The budget gate, and the certification and policy gates, which may refuse.
GateBudget(r, allowed) ==
    /\ sub[r].pc = "budget"
    /\ Goto(r, IF allowed /\ Headroom(Key(r), Tenant(r)) THEN "save" ELSE "refused")
    /\ UNCHANGED <<submitFrame, late, queue, running, checkpointed, run, ending, stray, stranded>>

\* The run is saved, queued or held for approval; without a QoS class that is all.
SaveRun(r, state, qos) ==
    /\ sub[r].pc = "save"
    /\ run' = [run EXCEPT ![r] = state]
    /\ late' = IF FleetHalted THEN late \cup {r} ELSE late
    /\ Goto(r, IF qos THEN "enqueue" ELSE "done")
    /\ UNCHANGED <<submitFrame, queue, running, checkpointed, ending, stray, stranded>>

\* _register_with_scheduler: submit
SchedulerSubmit(r) ==
    /\ sub[r].pc = "enqueue"
    /\ IF Refuses(r)
       THEN Goto(r, "done") /\ UNCHANGED queue
       ELSE Goto(r, "pick") /\ Enqueue(r)
    /\ UNCHANGED <<submitFrame, late, running, checkpointed, run, ending, stray, stranded>>

\* dequeue chooses an entry, of whichever run; with nothing queued there is none.
SchedulerPick(r) ==
    /\ sub[r].pc = "pick"
    /\ IF queue = <<>>
       THEN Goto(r, "done")
       ELSE \E t \in Best : sub' = [sub EXCEPT ![r] = [pc |-> "take", task |-> t]]
    /\ UNCHANGED <<submitFrame, late, queue, running, checkpointed, run, ending, stray, stranded>>

\* dequeue moves it, or raises when another request moved it first; the request
\* goes on only if the task is its own and guaranteed.
SchedulerTake(r) ==
    LET t == sub[r].task IN
    /\ sub[r].pc = "take"
    /\ \/ /\ t \in Queued
          /\ MoveToRunning(t)
          /\ Goto(r, IF t = r /\ ~ preemptible(r) THEN "preempt" ELSE "done")
          /\ UNCHANGED stranded
       \/ /\ t \notin Queued
          /\ Goto(r, "done")
          /\ stranded' = stranded + 1
          /\ UNCHANGED <<queue, running, checkpointed>>
    /\ UNCHANGED <<submitFrame, late, run, ending, stray>>

\* preempt chooses a victim ...
SchedulerPreempt(r) ==
    /\ sub[r].pc = "preempt"
    /\ IF Victims(r) = {}
       THEN Goto(r, "done")
       ELSE \E v \in Victims(r) : sub' = [sub EXCEPT ![r] = [pc |-> "requeue", task |-> v]]
    /\ UNCHANGED <<submitFrame, late, queue, running, checkpointed, run, ending, stray, stranded>>

\* ... and puts it back in the queue.
SchedulerRequeue(r) ==
    /\ sub[r].pc = "requeue"
    /\ Requeue(sub[r].task)
    /\ stranded' = stranded + 1
    /\ Goto(r, "cancel")
    /\ UNCHANGED <<submitFrame, late, run, ending, stray>>

\* _preempt_victim: a victim of another tenant is not found and keeps running.
CancelVictim(r) ==
    LET v == sub[r].task IN
    /\ sub[r].pc = "cancel"
    /\ IF Tenant(v) = Tenant(r) /\ run[v] \in Live
       THEN run' = [run EXCEPT ![v] = "ended"] /\ ending' = ending \cup {v}
       ELSE UNCHANGED <<run, ending>>
    /\ Goto(r, "done")
    /\ UNCHANGED <<submitFrame, late, queue, running, checkpointed, stray, stranded>>

---------------------------------------------------------------------------
\* The run: started, paused, resumed, checkpointed and ended by others

runFrame == <<profile, queue, freezeVars, sub, incidents, stranded, late, ops>>

Move(r, from, to) ==
    /\ run[r] \in from
    /\ run' = [run EXCEPT ![r] = to]
    /\ UNCHANGED <<runFrame, running, checkpointed, budgetVars, ending, reports, stray>>

Start(r) == Move(r, {"queued", "paused"}, "running")
Pause(r) == Move(r, {"running"}, "paused")

Checkpoint(r) ==
    /\ run[r] # "none" /\ r \in running \ checkpointed
    /\ MarkCheckpoint(r)
    /\ UNCHANGED <<runFrame, running, budgetVars, run, ending, reports, stray>>

\* A result, a failure or a stop is saved ...
End(r) ==
    /\ run[r] \in Live
    /\ run' = [run EXCEPT ![r] = "ended"]
    /\ ending' = ending \cup {r}
    /\ UNCHANGED <<runFrame, running, checkpointed, budgetVars, reports, stray>>

\* Mutation of Complete: the capacity is not given back.
CompleteKeepsSlot(r) ==
    /\ r \in ending
    /\ ending' = ending \ {r}
    /\ UNCHANGED <<runFrame, running, checkpointed, stray, budgetVars, run, reports>>

\* ... and the scheduler is told.
Complete(r) ==
    /\ r \in ending
    /\ ending' = ending \ {r}
    /\ CompleteTask(r)
    /\ stray' = IF r \in running THEN stray ELSE stray \cup {r}
    /\ UNCHANGED <<runFrame, budgetVars, run, reports>>

---------------------------------------------------------------------------
\* record_usage, called by the worker of a run

usageFrame == <<schedVars, sub, incidents, stray, stranded, late, ops>>

Usage(r, cost) ==
    /\ run[r] \in {"running", "paused"} /\ reports[r] < MaxReports
    /\ StartReport(r, Key(r), run[r], cost)
    /\ reports' = [reports EXCEPT ![r] = @ + 1]
    /\ UNCHANGED <<usageFrame, run, ending>>

UsageAdd(r) ==
    /\ WriteDay(r, Key(r), Tenant(r)) \/ WritePeriod(r, Tenant(r))
    /\ UNCHANGED <<usageFrame, run, ending, reports>>

UsageCompare(r) ==
    /\ Compare(r, Key(r), Tenant(r))
    /\ UNCHANGED <<usageFrame, run, ending, reports>>

\* save_run writes back the state read at the start.
UsageSave(r) ==
    /\ report[r].pc \in {"over", "within"}
    /\ run' = [run EXCEPT ![r] = report[r].snap]
    /\ IF report[r].pc = "over"
       THEN /\ report' = [report EXCEPT ![r].pc = "fail"]
            /\ UNCHANGED <<runSpend, daySpend, periodSpend, lost>>
       ELSE EndReport(r)
    /\ UNCHANGED <<usageFrame, ending, reports>>

\* Mutation of UsageFail: a paused run is left alone.
UsageFailRunning(r) ==
    /\ report[r].pc = "fail"
    /\ IF run[r] = "running"
       THEN run' = [run EXCEPT ![r] = "ended"] /\ ending' = ending \cup {r}
       ELSE UNCHANGED <<run, ending>>
    /\ EndReport(r)
    /\ UNCHANGED <<usageFrame, reports>>

\* fail, which raises for a run that is terminal already
UsageFail(r) ==
    /\ report[r].pc = "fail"
    /\ IF run[r] \in {"running", "paused"}
       THEN run' = [run EXCEPT ![r] = "ended"] /\ ending' = ending \cup {r}
       ELSE UNCHANGED <<run, ending>>
    /\ EndReport(r)
    /\ UNCHANGED <<usageFrame, reports>>

---------------------------------------------------------------------------
Submit(r) ==
    \/ \E p \in Profiles : GateHalt(r, p)
    \/ \E a \in BOOLEAN : GateBudget(r, a)
    \/ \E s \in {"queued", "paused"}, q \in BOOLEAN : SaveRun(r, s, q)
    \/ SchedulerSubmit(r) \/ SchedulerPick(r) \/ SchedulerTake(r)
    \/ SchedulerPreempt(r) \/ SchedulerRequeue(r) \/ CancelVictim(r)

RecordUsage(r) ==
    UsageAdd(r) \/ UsageCompare(r) \/ UsageSave(r) \/ UsageFail(r)

Lifecycle ==
    \E r \in Runs :
        Submit(r) \/ Checkpoint(r) \/ End(r) \/ Complete(r)

Driving ==
    \E r \in Runs :
        Start(r) \/ Pause(r) \/ RecordUsage(r) \/ \E c \in Costs : Usage(r, c)

Operating ==
    \/ \E s \in Scopes : PauseFleet(s)
    \/ \E i \in 1..Len(incidents) :
        \/ DrainFleet(i) \/ ResumeFleet(i) \/ UndrainFleet(i)
        \/ \E owners \in BOOLEAN : NotifyOwners(i, owners)
    \/ \E t \in Tenants, ws \in SUBSET Workloads : Freeze(t, ws)

Next == Lifecycle \/ Driving \/ Operating

Spec == Init /\ [][Next]_vars

---------------------------------------------------------------------------
\* Shape of the state, and a task is queued or running, never both and never twice.
TypeOK ==
    /\ profile \in [Runs -> Profiles \cup {NoProfile}]
    /\ queue \in Seq(Runs) /\ running \subseteq Runs /\ checkpointed \subseteq running
    /\ Queued \cap running = {} /\ Cardinality(Queued) = Len(queue)
    /\ frozenAll \in BOOLEAN /\ frozenTenants \subseteq Tenants
    /\ frozenWorkloads \subseteq Workloads
    /\ run \in [Runs -> Live \cup {"none", "ended"}]
    /\ sub \in [Runs -> [pc : SubmitSteps, task : Runs \cup {"none"}]]
    /\ ending \subseteq Runs /\ stray \subseteq Runs /\ late \subseteq Runs
    /\ incidents \in Seq([scope : Scopes, active : BOOLEAN, pausing : PauseSteps,
                          lifting : Nat])
    /\ stranded \in Nat /\ ops \in 0..MaxOps /\ reports \in [Runs -> 0..MaxReports]

\* A run that ended, and whose end the scheduler was told, holds neither capacity nor a
\* place in the queue.  Left out are the runs in stray: preempted ones, and ones that
\* ended before their registration was through, for which complete finds nothing.
NoSlotLeak ==
    \A r \in Runs \ (ending \cup stray) :
        run[r] = "ended" /\ sub[r].pc \in {"done", "idle"} => r \notin running \cup Queued

\* submit compares the limit with the running tasks, dequeue does not compare at all:
\* a workload exceeds its limit by no more than the submissions that were in flight
\* together and the entries that preemptions and raised dequeues left behind.
LimitOvershoot ==
    \A w \in Workloads :
        RunningForWorkload(w) <= PerWorkloadLimit - 1 + MaxThreads + stranded

\* The units of money in f[r], for each run r of S
Units(f, S) == UNION {{r} \X (1..f[r]) : r \in S}
MaxCost == CHOOSE c \in Costs : \A d \in Costs : d <= c

\* The day's budget is checked before a run starts and after each report: what is
\* really spent on a workload exceeds the limit by at most one report of each run,
\* unless racing additions lost part of the recorded spend.
DayOvershoot ==
    \A k \in DOMAIN daySpend \ lost :
        LET mine == {r \in Runs : Key(r) = k} IN
        Cardinality(Units(runSpend, mine)) <= PerDay + MaxCost * Cardinality(mine)

\* Once the report that went over the run's own budget has returned, the run has ended,
\* also when it was paused or stopped meanwhile.
OverBudgetEnds ==
    \A r \in Runs : report[r].pc = "idle" /\ runSpend[r] > PerRun => run[r] = "ended"

\* From the moment a fleet incident is recorded until it is resumed, only submissions
\* that were in flight then are saved, whatever other incidents are opened or resumed
\* and although a resume lifts the freeze of the queue for all of them.
HaltBounded == Cardinality(late) <= MaxThreads
=============================================================================
