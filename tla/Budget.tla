------------------------------- MODULE Budget -------------------------------
(***************************************************************************)
(* Spend counters and limits: budget/service.py over the Postgres store,   *)
(* with the tenant's enforced cost period of cost/service.py.  A usage     *)
(* report adds its cost to the run, to the day of the workload and to the  *)
(* period of the tenant, and only then compares.  Each addition reads the  *)
(* row and writes the sum in a transaction that locks nothing, so two      *)
(* reports on the same row may lose one of the costs; a run's own row has  *)
(* a single writer, its worker.                                            *)
(*                                                                         *)
(* Costs are in units of money.  The workloads have no team, the branches  *)
(* on workload.team fall away, and all reports fall in one day and period. *)
(***************************************************************************)
EXTENDS Naturals, FiniteSets

CONSTANTS
    Spenders,          \* run ids
    Costs,             \* what one report may cost
    PerRun,            \* budget.per_run_usd
    PerDay,            \* budget.per_day_usd
    TenantCap          \* cap_usd of the enforced tenant period

ASSUME BudgetAssumption ==
    Costs \subseteq Nat /\ PerRun \in Nat /\ PerDay \in Nat /\ TenantCap \in Nat

VARIABLES
    runSpend,          \* BudgetRunSpendRow, by run
    daySpend,          \* BudgetDaySpendRow, by tenant and workload
    periodSpend,       \* BudgetPeriod.spent_usd, by tenant
    report,            \* the record_usage call in flight, by run
    lost               \* history: keys of the rows that lost an addition

budgetVars == <<runSpend, daySpend, periodSpend, report, lost>>

NoReport == [pc |-> "idle", cost |-> 0, snap |-> "none", seen |-> 0]

BudgetInit(keys, tenants) ==
    /\ runSpend = [r \in Spenders |-> 0]
    /\ daySpend = [k \in keys |-> 0]
    /\ periodSpend = [t \in tenants |-> 0]
    /\ report = [r \in Spenders |-> NoReport]
    /\ lost = {}

\* check: the admission gate compares the day with >=, the period with > and a
\* projection of zero.
Headroom(k, t) == daySpend[k] < PerDay /\ ~ periodSpend[t] > TenantCap

\* record_usage compares what is recorded now with >.
Exceeded(r, k, t) ==
    runSpend[r] > PerRun \/ daySpend[k] > PerDay \/ periodSpend[t] > TenantCap

\* The report is priced and added to the run, and the row of the day is read; s is
\* the state the run row had.
StartReport(r, k, s, cost) ==
    /\ report[r].pc = "idle"
    /\ runSpend' = [runSpend EXCEPT ![r] = @ + cost]
    /\ report' = [report EXCEPT ![r] = [pc |-> "day", cost |-> cost, snap |-> s,
                                        seen |-> daySpend[k]]]
    /\ UNCHANGED <<daySpend, periodSpend, lost>>

\* The sum is written to the day, and the row of the period is read.
WriteDay(r, k, t) ==
    /\ report[r].pc = "day"
    /\ daySpend' = [daySpend EXCEPT ![k] = report[r].seen + report[r].cost]
    /\ lost' = IF daySpend[k] # report[r].seen THEN lost \cup {k} ELSE lost
    /\ report' = [report EXCEPT ![r].pc = "period", ![r].seen = periodSpend[t]]
    /\ UNCHANGED <<runSpend, periodSpend>>

WritePeriod(r, t) ==
    /\ report[r].pc = "period"
    /\ periodSpend' = [periodSpend EXCEPT ![t] = report[r].seen + report[r].cost]
    /\ lost' = IF periodSpend[t] # report[r].seen THEN lost \cup {t} ELSE lost
    /\ report' = [report EXCEPT ![r].pc = "check"]
    /\ UNCHANGED <<runSpend, daySpend>>

\* Mutation of Compare: the limits are compared as they were before this report.
CompareBefore(r, k, t) ==
    /\ report[r].pc = "check"
    /\ report' = [report EXCEPT ![r].pc =
                     IF \/ runSpend[r] - report[r].cost > PerRun
                        \/ daySpend[k] - report[r].cost > PerDay
                        \/ periodSpend[t] - report[r].cost > TenantCap
                     THEN "over" ELSE "within"]
    /\ UNCHANGED <<runSpend, daySpend, periodSpend, lost>>

Compare(r, k, t) ==
    /\ report[r].pc = "check"
    /\ report' = [report EXCEPT ![r].pc = IF Exceeded(r, k, t) THEN "over" ELSE "within"]
    /\ UNCHANGED <<runSpend, daySpend, periodSpend, lost>>

EndReport(r) ==
    /\ report' = [report EXCEPT ![r] = NoReport]
    /\ UNCHANGED <<runSpend, daySpend, periodSpend, lost>>
=============================================================================
