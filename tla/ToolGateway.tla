---------------------------- MODULE ToolGateway ----------------------------
(***************************************************************************)
(* The tool calls of one run: ToolGateway.invoke (execution/tools.py) with *)
(* the breaker of the tools, the approval queue (policy/approvals.py), the *)
(* operators that answer it (api/approvals.py) and the adapter that drives *)
(* the run again from the start when it resumes (adapters/raw_worker.py).  *)
(*                                                                         *)
(* A drive makes the calls of its script one after the other; requests     *)
(* make single calls of the same run beside it.  A step is one access to   *)
(* the store, the breaker or the set of consumed approvals.  A transition  *)
(* of the run is one step (RunLifecycle has its parts), and the checks     *)
(* that read nothing of this state are choices: the allow-list, the kill   *)
(* switch, read-only runs, taint, the policy's rules and egress.           *)
(***************************************************************************)
EXTENDS Breaker

CONSTANTS
    Scripts,          \* sequences of tools
    Tools,
    Escalating,       \* the tools whose calls the policy escalates
    Requests,         \* threads that make single calls
    Operators,        \* threads that answer and comment
    MaxDrives, MaxCalls, MaxAsks, MaxOps, MaxTime, MaxCrashes

ASSUME GatewayAssumption ==
    /\ Escalating \subseteq Tools
    /\ MaxDrives >= 1 /\ Requests \cap (1..MaxDrives) = {}    \* a request is not a drive
    /\ {MaxDrives, MaxCalls, MaxAsks, MaxOps, MaxTime, MaxCrashes} \subseteq Nat

VARIABLES
    script,
    run,              \* its state
    asks,             \* approval records: tool, status
    consumed,         \* _consumed[run]
    breaker, now,
    call,             \* by caller: where it is in invoke
    escalated,        \* the adapter's flag: resume drives the run again
    drives,           \* drives so far
    op,               \* by operator: where it is in a request
    calls, ops, crashes,
    done,             \* history: escalated calls let through since the last reset, by tool
    overlap,          \* history: two calls were between lookup and use of approvals at once
    torn,             \* history: an approval was saved from an old copy, or a crash came between
    strayed           \* history: a probe was let through and turned away afterwards

vars == <<script, run, asks, consumed, breaker, now, call, escalated, drives, op, calls, ops, crashes,
          done, overlap, torn, strayed>>
history == <<done, overlap, torn, strayed>>
bounds == <<calls, ops, crashes>>

Callers == (1..MaxDrives) \cup Requests
Terminal == {"completed", "failed", "cancelled"}
NoCall == [pc |-> "none", pos |-> 0, tool |-> "none", run |-> "none", pick |-> 0, probe |-> FALSE]
NoOp == [pc |-> "idle", id |-> 0, copy |-> "none", set |-> "none"]

Init ==
    /\ script \in Scripts
    /\ run = "running" /\ asks = <<>> /\ consumed = {} /\ breaker = NewBreaker /\ now = 0
    /\ call = [c \in Callers |-> IF c = 1 THEN [NoCall EXCEPT !.pc = "ready", !.pos = 1] ELSE NoCall]
    /\ escalated = FALSE /\ drives = 1
    /\ op = [o \in Operators |-> NoOp]
    /\ calls = 0 /\ ops = 0 /\ crashes = 0
    /\ done = [t \in Tools |-> 0] /\ overlap = FALSE /\ torn = FALSE /\ strayed = FALSE

---------------------------------------------------------------------------
\* ToolGateway.invoke

To(c, pc) == call' = [call EXCEPT ![c].pc = pc]

\* The call is answered: a drive goes on, a request is over.
Answered(c) == IF c \in Requests THEN NoCall ELSE [NoCall EXCEPT !.pc = "ready", !.pos = call[c].pos + 1]

\* invoke reads the run.
Invoke(c, t) ==
    /\ \/ c \in Requests /\ call[c].pc = "none" /\ calls < MaxCalls /\ calls' = calls + 1
       \/ /\ c \notin Requests /\ call[c].pc = "ready" /\ call[c].pos <= Len(script)
          /\ t = script[call[c].pos] /\ UNCHANGED calls
    /\ call' = [call EXCEPT ![c] = [@ EXCEPT !.pc = "breaker", !.tool = t, !.run = run]]
    /\ UNCHANGED <<script, run, asks, consumed, breaker, now, escalated, drives, op, ops, crashes, history>>

\* ToolCallDeniedError, ToolCallBlockedError or what the tool raised: the run of a drive fails.
Denied(c) ==
    /\ call' = [call EXCEPT ![c] = NoCall]
    /\ run' = IF c \in Requests \/ run \notin {"running", "paused"} THEN run ELSE "failed"

\* The checks before the breaker: the run ended, the tool is not allowed or is disabled.
Refuse(c) ==
    /\ call[c].pc = "breaker"
    /\ Denied(c)
    /\ UNCHANGED <<script, asks, consumed, breaker, now, escalated, drives, op, bounds, history>>

CheckBreaker(c) ==
    /\ call[c].pc = "breaker" /\ call[c].run \notin Terminal
    /\ breaker' = AfterAllow(breaker, now)
    /\ IF Allows(breaker, now)
       THEN /\ call' = [call EXCEPT ![c] = [@ EXCEPT !.pc = "policy", !.probe = breaker.state = "open"]]
            /\ UNCHANGED run
       ELSE Denied(c)
    /\ UNCHANGED <<script, asks, consumed, now, escalated, drives, op, bounds, history>>

\* The checks behind the breaker: read-only, taint, a rule that denies, egress.  They do not
\* tell the breaker.
TurnAway(c) ==
    /\ call[c].pc \in {"policy", "execute"}
    /\ Denied(c)
    /\ strayed' = (strayed \/ call[c].probe)
    /\ UNCHANGED <<script, asks, consumed, breaker, now, escalated, drives, op, bounds, done, overlap, torn>>

\* The policy lets the call through.
Allow(c) ==
    /\ call[c].pc = "policy" /\ call[c].tool \notin Escalating
    /\ To(c, "execute")
    /\ UNCHANGED <<script, run, asks, consumed, breaker, now, escalated, drives, op, bounds, history>>

\* Mutation of Grants: any approval of the run
GrantsAny(t) == {i \in 1..Len(asks) : asks[i].status = "approved" /\ i \notin consumed}

\* Mutation of Grants: an approval is good for every call.
GrantsAgain(t) == {i \in 1..Len(asks) : asks[i].status = "approved" /\ asks[i].tool = t}

\* _granted_approval
Grants(t) == {i \in 1..Len(asks) : asks[i].status = "approved" /\ asks[i].tool = t /\ i \notin consumed}

\* The policy escalates: the oldest approval of the tool that is not consumed is taken.
Lookup(c) ==
    LET grants == Grants(call[c].tool) IN
    /\ call[c].pc = "policy" /\ call[c].tool \in Escalating
    /\ \/ grants = {} /\ call' = [call EXCEPT ![c] = [@ EXCEPT !.pc = "pause", !.pick = 0]]
       \/ \E i \in grants :
             /\ \A j \in grants : i <= j
             /\ call' = [call EXCEPT ![c] = [@ EXCEPT !.pc = "consume", !.pick = i]]
    /\ overlap' = (overlap \/ \E d \in Callers \ {c} : call[d].pc = "consume")
    /\ UNCHANGED <<script, run, asks, consumed, breaker, now, escalated, drives, op, bounds, done, torn, strayed>>

Consume(c) ==
    /\ call[c].pc = "consume"
    /\ consumed' = consumed \cup {call[c].pick}
    /\ done' = [done EXCEPT ![call[c].tool] = @ + 1]
    /\ To(c, "execute")
    /\ UNCHANGED <<script, run, asks, breaker, now, escalated, drives, op, bounds, overlap, torn, strayed>>

\* _escalate: a run seen running is paused; when it no longer runs, intervene raises.
Pause(c) ==
    /\ call[c].pc = "pause"
    /\ \/ call[c].run # "running" /\ To(c, "ask") /\ UNCHANGED <<run, strayed>>
       \/ call[c].run = "running" /\ run = "running" /\ run' = "paused" /\ To(c, "ask") /\ UNCHANGED strayed
       \/ call[c].run = "running" /\ run # "running" /\ Denied(c) /\ strayed' = (strayed \/ call[c].probe)
    /\ UNCHANGED <<script, asks, consumed, breaker, now, escalated, drives, op, bounds, done, overlap, torn>>

\* ApprovalService.request; a drive then unwinds.
Ask(c) ==
    /\ call[c].pc = "ask" /\ Len(asks) < MaxAsks
    /\ asks' = Append(asks, [tool |-> call[c].tool, status |-> "pending"])
    /\ call' = [call EXCEPT ![c] = IF c \in Requests THEN NoCall ELSE [NoCall EXCEPT !.pc = "unwind"]]
    /\ strayed' = (strayed \/ call[c].probe)
    /\ UNCHANGED <<script, run, consumed, breaker, now, escalated, drives, op, bounds, done, overlap, torn>>

\* _resolve_output, and the outcome recorded.  An output that scans as an injection is refused.
Execute(c, success, clean) ==
    /\ call[c].pc = "execute"
    /\ breaker' = AfterRecord(breaker, success, now)
    /\ IF success /\ clean
       THEN call' = [call EXCEPT ![c] = Answered(c)] /\ UNCHANGED run
       ELSE Denied(c)
    /\ UNCHANGED <<script, asks, consumed, now, escalated, drives, op, bounds, history>>

---------------------------------------------------------------------------
\* The adapter

\* ToolCallEscalatedError reached _execute.
Unwind(d) ==
    /\ call[d].pc = "unwind"
    /\ escalated' = TRUE
    /\ call' = [call EXCEPT ![d] = NoCall]
    /\ UNCHANGED <<script, run, asks, consumed, breaker, now, drives, op, bounds, history>>

\* The script is over.  transition refuses a run that does not run.
Complete(d) ==
    /\ d \notin Requests /\ call[d].pc = "ready" /\ call[d].pos > Len(script)
    /\ run' = IF run = "running" THEN "completed" ELSE run
    /\ call' = [call EXCEPT ![d] = NoCall]
    /\ UNCHANGED <<script, asks, consumed, breaker, now, escalated, drives, op, bounds, history>>

\* reset_drive
Reset == consumed' = {}

\* RESUME: a run that escalated is driven again, from the start.
Resume ==
    /\ run' = "running"
    /\ IF escalated
       THEN /\ drives < MaxDrives /\ drives' = drives + 1
            /\ call' = [call EXCEPT ![drives + 1] = [NoCall EXCEPT !.pc = "ready", !.pos = 1]]
            /\ Reset
            /\ done' = [t \in Tools |-> 0]
            /\ overlap' = (overlap \/ \E c \in Callers : call[c].pc = "consume")
            /\ escalated' = FALSE
       ELSE UNCHANGED <<drives, call, consumed, done, overlap, escalated>>

---------------------------------------------------------------------------
\* The operators

SetOp(o, v) == op' = [op EXCEPT ![o] = v]

\* apply_approval_decision reads the approval and requires the run to be paused; comment and
\* delegate (set is "none") do not.
Open(o, i, set) ==
    /\ op[o].pc = "idle" /\ ops < MaxOps /\ ops' = ops + 1
    /\ set # "none" => run = "paused"
    /\ SetOp(o, [pc |-> "read", id |-> i, copy |-> "none", set |-> set])
    /\ UNCHANGED <<script, run, asks, consumed, breaker, now, call, escalated, drives, calls, crashes, history>>

\* decide refuses an approval that is not pending.
Decidable(status) == status = "pending"

ReadApproval(o) ==
    /\ op[o].pc = "read"
    /\ SetOp(o, IF op[o].set # "none" /\ ~ Decidable(asks[op[o].id].status) THEN NoOp
                ELSE [op[o] EXCEPT !.pc = "save", !.copy = asks[op[o].id].status])
    /\ UNCHANGED <<script, run, asks, consumed, breaker, now, call, escalated, drives, bounds, history>>

\* The copy is saved, with the decision or as it was read.
SaveApproval(o) ==
    LET new == IF op[o].set = "none" THEN op[o].copy ELSE op[o].set IN
    /\ op[o].pc = "save"
    /\ asks' = [asks EXCEPT ![op[o].id].status = new]
    /\ torn' = (torn \/ asks[op[o].id].status # op[o].copy)
    /\ SetOp(o, IF op[o].set = "none" THEN NoOp ELSE [op[o] EXCEPT !.pc = "apply"])
    /\ UNCHANGED <<script, run, consumed, breaker, now, call, escalated, drives, bounds, done, overlap, strayed>>

\* Mutation of Failed: only a paused run is failed.
FailedPaused(state) == IF state = "paused" THEN "failed" ELSE state

\* RunService.fail
Failed(state) == IF state \in Terminal THEN state ELSE "failed"

\* An approval resumes the run if it is paused; a denial fails it unless it has ended.
ApplyDecision(o) ==
    /\ op[o].pc = "apply"
    /\ SetOp(o, NoOp)
    /\ \/ op[o].set = "approved" /\ run = "paused" /\ Resume
       \/ op[o].set = "approved" /\ run # "paused"
          /\ UNCHANGED <<run, drives, call, consumed, done, overlap, escalated>>
       \/ /\ op[o].set = "denied"
          /\ run' = Failed(run)
          /\ UNCHANGED <<drives, call, consumed, done, overlap, escalated>>
    /\ UNCHANGED <<script, asks, breaker, now, bounds, torn, strayed>>

\* A plain RESUME or STOP of an operator
Intervene(action) ==
    /\ ops < MaxOps /\ ops' = ops + 1
    /\ \/ action = "resume" /\ run = "paused" /\ Resume
       \/ /\ action = "stop" /\ run \in {"running", "paused"} /\ run' = "cancelled"
          /\ UNCHANGED <<drives, call, consumed, done, overlap, escalated>>
    /\ UNCHANGED <<script, asks, breaker, now, op, calls, crashes, torn, strayed>>

\* The process dies.  A run that was running fails at recovery, a paused one is to be driven
\* again (RunLifecycle); consumption, breakers and calls are gone.
Crash ==
    /\ crashes < MaxCrashes /\ crashes' = crashes + 1
    /\ call' = [c \in Callers |-> NoCall] /\ op' = [o \in Operators |-> NoOp]
    /\ consumed' = {} /\ breaker' = NewBreaker /\ done' = [t \in Tools |-> 0]
    /\ run' = IF run = "running" THEN "failed" ELSE run
    /\ escalated' = (run = "paused")
    /\ torn' = (torn \/ \E o \in Operators : op[o].pc = "apply")
    /\ strayed' = FALSE
    /\ UNCHANGED <<script, asks, now, drives, calls, ops, overlap>>

Tick ==
    /\ now < MaxTime /\ now' = now + 1
    /\ UNCHANGED <<script, run, asks, consumed, breaker, call, escalated, drives, op, bounds, history>>

Next ==
    \/ \E c \in Callers :
          \/ \E t \in Tools : Invoke(c, t)
          \/ Refuse(c) \/ CheckBreaker(c) \/ TurnAway(c) \/ Allow(c) \/ Lookup(c) \/ Consume(c)
          \/ Pause(c) \/ Ask(c) \/ Unwind(c) \/ Complete(c)
          \/ \E success, clean \in BOOLEAN : Execute(c, success, clean)
    \/ \E o \in Operators, i \in 1..Len(asks), set \in {"none", "approved", "denied"} : Open(o, i, set)
    \/ \E o \in Operators : ReadApproval(o) \/ SaveApproval(o) \/ ApplyDecision(o)
    \/ \E action \in {"resume", "stop"} : Intervene(action)
    \/ Crash \/ Tick

Spec == Init /\ [][Next]_vars

---------------------------------------------------------------------------
\* Types, and a probe is carried only by a call the breaker let through; a call that consumes
\* has picked an approval of its tool (ToolGateway._granted_approval).
TypeOK ==
    /\ script \in Scripts
    /\ run \in Terminal \cup {"running", "paused"}
    /\ \A i \in 1..Len(asks) : asks[i] \in [tool : Escalating, status : {"pending", "approved", "denied"}]
    /\ consumed \subseteq 1..Len(asks)
    /\ breaker.state \in BreakerState /\ Len(breaker.outcomes) <= Window /\ breaker.opened <= now
    /\ \A c \in Callers :
          /\ call[c].pc = "consume" => asks[call[c].pick].tool = call[c].tool
          /\ call[c].probe => call[c].pc \in {"policy", "execute", "consume", "pause", "ask"}
    /\ drives \in 1..MaxDrives

\* "An approval authorizes one escalated call per execution attempt": since the last reset, the
\* escalated calls of a tool that went through are no more than its approvals, unless two calls
\* looked at once or an approval was saved from an old copy.
GrantCovers ==
    overlap \/ torn \/
    \A t \in Tools : done[t] <= Cardinality({i \in 1..Len(asks) : asks[i].tool = t /\ asks[i].status = "approved"})

\* "Deny a request and fail the paused run": once no operator is at work, a run with a denied
\* approval has ended, whatever was resumed, stopped or decided meanwhile.
DeniedEnds ==
    (\A o \in Operators : op[o].pc = "idle") /\ ~ torn /\ (\E i \in 1..Len(asks) : asks[i].status = "denied")
        => run \in Terminal

\* A half-open breaker waits for a probe that is on its way, unless a check behind the breaker
\* turned the probe away: then no call is let through again.
ProbeHeld == breaker.state = "half_open" => strayed \/ \E c \in Callers : call[c].probe
===========================================================================
