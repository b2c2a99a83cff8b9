--------------------------- MODULE RunLifecycle ---------------------------
(***************************************************************************)
(* One run of hiveplane: the state machine of core/run.py, the RunService  *)
(* of execution/service.py that moves it, the runtime adapter that drives  *)
(* it (adapters/dispatch.py, adapters/raw_worker.py), and the recovery     *)
(* pass of execution/recovery.py after a restart.                          *)
(*                                                                         *)
(* Requests of operators, the worker threads the adapter spawns and the    *)
(* recovery pass all go through RunService, which takes no lock: get_run,  *)
(* provision, save_run, the executor's calls and the terminal effects are  *)
(* separate steps, and save_run writes back the whole copy that was read.  *)
(* The row is durable; sessions, controls, sandboxes and threads die with  *)
(* the process.                                                            *)
(***************************************************************************)
EXTENDS Naturals, FiniteSets

CONSTANTS
    Clients,      \* request threads of the API
    Drives,       \* worker threads an adapter may spawn, per process lifetime
    MaxControls,  \* bound on RunControl objects per process lifetime
    MaxBoxes,     \* bound on sandboxes ever provisioned
    MaxOps,       \* bound on requests
    MaxCrashes    \* bound on process crashes

ASSUME ProcsAssumption ==
    /\ Clients \cap Drives = {} /\ "recovery" \notin Clients \cup Drives
    /\ IsFiniteSet(Clients) /\ IsFiniteSet(Drives)
ASSUME BoundsAssumption ==
    {MaxControls, MaxBoxes, MaxOps, MaxCrashes} \subseteq Nat

VARIABLES
    run,       \* the row: state, sandbox (flag), box (sandbox_id, 0 for None)
    up,        \* "down", "booting" (recovery runs) or "up"
    call,      \* by process: where it is in a call to RunService
    session,   \* the adapter's bookkeeping for the run
    ctl,       \* RunControl objects: paused and cancelled flags
    ctlOf,     \* the control each worker thread was spawned with
    boxes,     \* SandboxInstance status by id
    ops,       \* requests so far
    crashes,   \* crashes so far
    launched,  \* history: a worker thread has been spawned for the run
    owed       \* history: terminal saves of each state minus fan-outs of it

vars == <<run, up, call, session, ctl, ctlOf, boxes, ops, crashes, launched, owed>>
memory == <<session, ctl, ctlOf>>

Terminal == {"completed", "failed", "cancelled"}
RunStates == Terminal \cup {"absent", "queued", "running", "paused"}
Procs == Clients \cup Drives \cup {"recovery"}
Controls == 1..MaxControls
Boxes == 1..MaxBoxes

\* _RUN_TRANSITIONS
Edges == [s \in RunStates |->
            CASE s = "queued"  -> {"running", "cancelled"}
              [] s = "running" -> {"paused", "completed", "failed", "cancelled"}
              [] s = "paused"  -> {"running", "failed", "cancelled"}
              [] OTHER         -> {}]

can_transition(s, t) == t \in Edges[s]

\* A process at rest.  Drives that have not been spawned are "off".
Rest(pc) == [pc |-> pc, target |-> "absent", then |-> "none", from |-> "absent", box |-> 0]

NoSession == [owned |-> FALSE, loaded |-> FALSE, ctl |-> 0, redrive |-> FALSE]

Fresh ==
    [p \in Procs |-> Rest(IF p \in Drives THEN "off" ELSE "idle")]

Init ==
    /\ run = [state |-> "absent", sandbox |-> FALSE, box |-> 0]
    /\ up = "up"
    /\ call = Fresh
    /\ session = NoSession
    /\ ctl = [k \in Controls |-> [paused |-> FALSE, cancelled |-> FALSE]]
    /\ ctlOf = [d \in Drives |-> 0]
    /\ boxes = [b \in Boxes |-> "unused"]
    /\ ops = 0 /\ crashes = 0 /\ launched = FALSE
    /\ owed = [s \in Terminal |-> 0]

Live(d) == call[d].pc \notin {"off", "ended"}

\* A process that calls transition(target) and goes on with `then' when it returns.
Calling(target, then) == [Rest("read") EXCEPT !.target = target, !.then = then]

Transition(p, target, then) == call' = [call EXCEPT ![p] = Calling(target, then)]

\* What a process does after the call it makes to RunService has returned (ok) or
\* raised.  A worker whose call raises, or that is told the run is terminal, ends
\* through _fail.
Outcome(p, ok) ==
    LET c == call[p] IN
    CASE c.then = "resume" /\ ok   -> Rest("resume")
      [] c.then = "escalate" /\ ok -> Rest("escalated")
      [] c.then = "usage" /\ ok /\ c.target = "paused" -> Rest("work")
      [] c.then \in {"escalate", "usage"} -> Calling("failed", "end")
      [] c.then = "boot" -> Rest(IF ok THEN "booted" ELSE "aborted")
      [] OTHER -> Rest(IF p \in Drives THEN "ended" ELSE "idle")

Return(p, ok) == call' = [call EXCEPT ![p] = Outcome(p, ok)]

---------------------------------------------------------------------------
\* RunService.transition

\* Mutations of Read: the worker is started, or the fan-out sent, before the save.
ReadEffectFirst(p, first, target) ==
    /\ call[p].pc = "read"
    /\ IF can_transition(run.state, call[p].target)
       THEN call' = [call EXCEPT ![p] =
              [@ EXCEPT !.from = run.state, !.box = run.box,
                        !.pc = IF @ = "read" /\ call[p].target \in target THEN first
                               ELSE "save"]]
       ELSE Return(p, FALSE)
    /\ UNCHANGED <<run, up, memory, boxes, ops, crashes, launched, owed>>

ReadStartsFirst(p) == ReadEffectFirst(p, "start", {"running"})

ReadNotifiesFirst(p) == ReadEffectFirst(p, "effects", Terminal)

\* get_run and can_transition; an illegal move raises.
Read(p) ==
    /\ call[p].pc = "read"
    /\ IF can_transition(run.state, call[p].target)
       THEN call' = [call EXCEPT ![p] =
              [@ EXCEPT !.from = run.state, !.box = run.box,
                        !.pc = IF run.state = "queued" /\ call[p].target = "running"
                                  /\ run.sandbox THEN "provision" ELSE "save"]]
       ELSE Return(p, FALSE)
    /\ UNCHANGED <<run, up, memory, boxes, ops, crashes, launched, owed>>

Provision(p) ==
    /\ call[p].pc = "provision"
    /\ \E b \in Boxes :
         /\ boxes[b] = "unused"
         /\ \A c \in Boxes : c < b => boxes[c] # "unused"
         /\ boxes' = [boxes EXCEPT ![b] = "ready"]
         /\ call' = [call EXCEPT ![p] = [@ EXCEPT !.box = b, !.pc = "save"]]
    /\ UNCHANGED <<run, up, memory, ops, crashes, launched, owed>>

\* Mutation of Save: the sandbox of a cancelled run is not destroyed.
SaveKeepsSandbox(p) ==
    /\ call[p].pc = "save"
    /\ LET c == call[p] IN
         /\ run' = [run EXCEPT !.state = c.target, !.box = c.box]
         /\ IF c.target \in Terminal
            THEN /\ owed' = [owed EXCEPT ![c.target] = @ + 1]
                 /\ call' = [call EXCEPT ![p].pc =
                      IF c.box # 0 /\ c.target # "cancelled" THEN "destroy" ELSE "effects"]
            ELSE /\ owed' = owed
                 /\ IF c.from = "queued"
                    THEN call' = [call EXCEPT ![p].pc = "start"]
                    ELSE Return(p, TRUE)
    /\ UNCHANGED <<up, memory, boxes, ops, crashes, launched>>

\* save_run writes the copy that was read, with its new state.
Save(p) ==
    /\ call[p].pc = "save"
    /\ LET c == call[p] IN
         /\ run' = [run EXCEPT !.state = c.target, !.box = c.box]
         /\ IF c.target \in Terminal
            THEN /\ owed' = [owed EXCEPT ![c.target] = @ + 1]
                 /\ call' = [call EXCEPT ![p].pc = IF c.box # 0 THEN "destroy" ELSE "effects"]
            ELSE /\ owed' = owed
                 /\ IF c.from = "queued"
                    THEN call' = [call EXCEPT ![p].pc = "start"]
                    ELSE Return(p, TRUE)
    /\ UNCHANGED <<up, memory, boxes, ops, crashes, launched>>

\* SandboxManager.destroy raises for a sandbox this process did not provision, and
\* the transition's remaining effects are skipped.
Destroy(p) ==
    /\ call[p].pc = "destroy"
    /\ IF boxes[call[p].box] = "lost"
       THEN Return(p, FALSE) /\ boxes' = boxes
       ELSE /\ boxes' = [boxes EXCEPT ![call[p].box] = "destroyed"]
            /\ call' = [call EXCEPT ![p].pc = "effects"]
    /\ UNCHANGED <<run, up, memory, ops, crashes, launched, owed>>

\* The terminal hook, scheduler.complete, guard and taint release, fan-out, audit.
Effects(p) ==
    /\ call[p].pc = "effects"
    /\ owed' = [owed EXCEPT ![call[p].target] = @ - 1]
    /\ Return(p, TRUE)
    /\ UNCHANGED <<run, up, memory, boxes, ops, crashes, launched>>

---------------------------------------------------------------------------
\* The executor: DispatchingAdapter and RawWorkerAdapter

\* A worker thread is spawned under control k.
Launch(k, p, next) ==
    \E d \in Drives :
        /\ call[d].pc = "off"
        /\ call' = [call EXCEPT ![d] = Rest("work"), ![p] = next]
        /\ ctlOf' = [ctlOf EXCEPT ![d] = k]
        /\ launched' = TRUE

\* The adapter makes a new RunControl for the run, and forgets the one before.
NewControl(redrive) ==
    /\ session.ctl < MaxControls
    /\ session' = [owned |-> TRUE, loaded |-> TRUE, ctl |-> session.ctl + 1,
                   redrive |-> redrive]

\* submit: a new control and a new thread.
Start(p) ==
    /\ call[p].pc = "start"
    /\ NewControl(FALSE)
    /\ Launch(session.ctl + 1, p, Rest("idle"))
    /\ UNCHANGED <<run, up, ctl, boxes, ops, crashes, owed>>

\* The entrypoint cannot be loaded: the dispatcher has noted the owner, the adapter
\* raises, and the request ends with the row as it was saved.
StartRaises(p) ==
    /\ call[p].pc = "start"
    /\ ~session.loaded
    /\ session' = [session EXCEPT !.owned = TRUE]
    /\ call' = [call EXCEPT ![p] = Rest("idle")]
    /\ UNCHANGED <<run, up, ctl, ctlOf, boxes, ops, crashes, launched, owed>>

\* Mutation of Resume: a run with a session is always driven again.
ResumeRedrives(p) ==
    /\ call[p].pc = "resume"
    /\ call' = [call EXCEPT ![p] = Rest(IF session.ctl = 0 THEN "start" ELSE "redrive")]
    /\ UNCHANGED <<run, up, memory, boxes, ops, crashes, launched, owed>>

\* resume: re-drive a run that escalated or was recovered, or lift the pause of the
\* live session; without a session the service starts the run.
Resume(p) ==
    /\ call[p].pc = "resume"
    /\ IF session.redrive
       THEN call' = [call EXCEPT ![p] = Rest("redrive")] /\ ctl' = ctl
       ELSE IF session.ctl = 0
       THEN call' = [call EXCEPT ![p] = Rest("start")] /\ ctl' = ctl
       ELSE /\ ctl' = [ctl EXCEPT ![session.ctl].paused = FALSE]
            /\ call' = [call EXCEPT ![p] = Rest("idle")]
    /\ UNCHANGED <<run, up, session, ctlOf, boxes, ops, crashes, launched, owed>>

Redrive(p) ==
    /\ call[p].pc = "redrive"
    /\ session' = [session EXCEPT !.redrive = FALSE]
    /\ ctl' = [ctl EXCEPT ![session.ctl].paused = FALSE]
    /\ Launch(session.ctl, p, Rest("idle"))
    /\ UNCHANGED <<run, up, boxes, ops, crashes, owed>>

\* pause: the dispatcher raises without an owner; the adapter does not confirm
\* without a control, and then the intervention leaves the row alone.
Pause(p) ==
    /\ call[p].pc = "pause"
    /\ IF session.ctl # 0
       THEN /\ ctl' = [ctl EXCEPT ![session.ctl].paused = TRUE]
            /\ Transition(p, "paused", call[p].then)
       ELSE /\ Return(p, session.owned)
            /\ ctl' = ctl
    /\ UNCHANGED <<run, up, session, ctlOf, boxes, ops, crashes, launched, owed>>

\* cancel: raises without an owner.
Cancel(p) ==
    /\ call[p].pc = "cancel"
    /\ IF session.owned
       THEN /\ ctl' = IF session.ctl # 0 THEN [ctl EXCEPT ![session.ctl].cancelled = TRUE]
                      ELSE ctl
            /\ Transition(p, "cancelled", "end")
       ELSE Return(p, FALSE) /\ ctl' = ctl
    /\ UNCHANGED <<run, up, session, ctlOf, boxes, ops, crashes, launched, owed>>

---------------------------------------------------------------------------
\* Requests

\* RunService.submit: the admitted run is saved queued, or paused when admission
\* escalates, and marked for a sandbox or not.
Submit ==
    /\ up = "up"
    /\ run.state = "absent"
    /\ \E s \in {"queued", "paused"}, b \in BOOLEAN :
         run' = [state |-> s, sandbox |-> b, box |-> 0]
    /\ UNCHANGED <<up, call, memory, boxes, ops, crashes, launched, owed>>

Request(c) ==
    /\ up = "up"
    /\ call[c].pc = "idle"
    /\ ops < MaxOps
    /\ ops' = ops + 1
    /\ UNCHANGED <<run, up, memory, boxes, crashes, launched, owed>>

\* start
RequestStart(c) ==
    /\ Request(c)
    /\ run.state # "absent"
    /\ Transition(c, "running", "end")

\* intervene(PAUSE) of a run seen running
RequestPause(c) ==
    /\ Request(c)
    /\ run.state = "running"
    /\ call' = [call EXCEPT ![c] = [Rest("pause") EXCEPT !.then = "end"]]

\* intervene(RESUME) of a run seen paused, also for an approval
RequestResume(c) ==
    /\ Request(c)
    /\ run.state = "paused"
    /\ Transition(c, "running", "resume")

\* intervene(STOP), in any state
RequestStop(c) ==
    /\ Request(c)
    /\ run.state # "absent"
    /\ call' = [call EXCEPT ![c] = [Rest("cancel") EXCEPT !.then = "end"]]

\* apply_approval_decision(deny) of a run seen paused
RequestDeny(c) ==
    /\ Request(c)
    /\ run.state = "paused"
    /\ Transition(c, "failed", "end")

---------------------------------------------------------------------------
\* The worker thread of a drive

Worker(d) ==
    /\ call[d].pc = "work"
    /\ UNCHANGED <<run, up, memory, boxes, ops, crashes, launched, owed>>

\* The entrypoint returns; an illegal COMPLETED escapes and ends the thread.
Complete(d) == Worker(d) /\ Transition(d, "completed", "end")

\* The entrypoint raises: _fail, with an illegal FAILED suppressed.
Fail(d) == Worker(d) /\ Transition(d, "failed", "end")

\* ToolGateway.invoke escalates a call: it is denied on a terminal run, pauses a
\* running one, and only files the approval on a paused one.
Escalate(d) ==
    /\ Worker(d)
    /\ call' = [call EXCEPT ![d] =
         CASE run.state \in Terminal -> Calling("failed", "end")
           [] run.state = "running"  -> [Rest("pause") EXCEPT !.then = "escalate"]
           [] OTHER                  -> Rest("escalated")]

\* ToolCallEscalatedError reaches _execute: the thread ends, to be driven again.
Escalated(d) ==
    /\ call[d].pc = "escalated"
    /\ session' = [session EXCEPT !.redrive = TRUE]
    /\ call' = [call EXCEPT ![d] = Rest("ended")]
    /\ UNCHANGED <<run, up, ctl, ctlOf, boxes, ops, crashes, launched, owed>>

\* WorkerContext.checkpoint blocks while paused and raises once cancelled.
Checkpoint(d) == Worker(d) /\ call' = [call EXCEPT ![d] = Rest("checkpoint")]

\* Mutation of CheckpointPasses: a cancellation does not wake a paused worker.
CheckpointWaits(k) == ~ctl[k].paused

CheckpointPasses(k) == ~ctl[k].paused \/ ctl[k].cancelled

CheckpointReturns(d) ==
    /\ call[d].pc = "checkpoint"
    /\ CheckpointPasses(ctlOf[d])
    /\ call' = [call EXCEPT ![d] = Rest(IF ctl[ctlOf[d]].cancelled THEN "ended" ELSE "work")]
    /\ UNCHANGED <<run, up, memory, boxes, ops, crashes, launched, owed>>

\* record_usage reads the run; a terminal one is returned and ends the worker.
ReportUsage(d) ==
    /\ Worker(d)
    /\ IF run.state \in Terminal
       THEN Transition(d, "failed", "end")
       ELSE call' = [call EXCEPT ![d] = [Rest("usage") EXCEPT !.from = run.state,
                                                             !.box = run.box]]

\* ... and saves the copy it read.  The budget may then fail the run, and a guard
\* may pause it (the row only: the worker goes on).
SaveUsage(d) ==
    /\ call[d].pc = "usage"
    /\ LET c == call[d] IN
         /\ run' = [run EXCEPT !.state = c.from, !.box = c.box]
         /\ \/ call' = [call EXCEPT ![d] = Rest("work")]
            \/ Transition(d, "failed", "usage")
            \/ can_transition(c.from, "paused") /\ Transition(d, "paused", "usage")
    /\ UNCHANGED <<up, memory, boxes, ops, crashes, launched, owed>>

---------------------------------------------------------------------------
\* Crash and recovery

\* Everything in memory is gone, the sandbox bookkeeping included.
Wipe ==
    /\ up' = "down"
    /\ call' = Fresh
    /\ session' = NoSession
    /\ ctl' = [k \in Controls |-> [paused |-> FALSE, cancelled |-> FALSE]]
    /\ ctlOf' = [d \in Drives |-> 0]
    /\ boxes' = [b \in Boxes |-> IF boxes[b] = "unused" THEN "unused" ELSE "lost"]
    /\ UNCHANGED <<run, ops, launched, owed>>

Crash ==
    /\ up # "down"
    /\ crashes < MaxCrashes
    /\ crashes' = crashes + 1
    /\ Wipe

\* Mutations of Boot: a running run is reattached like a paused one; every run that
\* is not paused is overwritten as failed.
BootReattachesAll ==
    /\ up = "down"
    /\ up' = "booting"
    /\ call' = [call EXCEPT !["recovery"] =
                  Rest(IF run.state \in {"running", "paused"} THEN "reattach" ELSE "booted")]
    /\ UNCHANGED <<run, memory, boxes, ops, crashes, launched, owed>>

BootOverwrites ==
    /\ up = "down"
    /\ up' = "booting"
    /\ run' = IF run.state \in {"absent", "paused"} THEN run
              ELSE [run EXCEPT !.state = "failed"]
    /\ call' = [call EXCEPT !["recovery"] =
                  Rest(IF run.state = "paused" THEN "reattach" ELSE "booted")]
    /\ UNCHANGED <<memory, boxes, ops, crashes, launched, owed>>

\* RunRecovery.run, before requests are served: a running run is failed, a paused
\* one reattached.
Boot ==
    /\ up = "down"
    /\ up' = "booting"
    /\ CASE run.state = "running" -> Transition("recovery", "failed", "boot")
         [] run.state = "paused"  -> call' = [call EXCEPT !["recovery"] = Rest("reattach")]
         [] OTHER                 -> call' = [call EXCEPT !["recovery"] = Rest("booted")]
    /\ UNCHANGED <<run, memory, boxes, ops, crashes, launched, owed>>

\* reattach: a new control and a re-drive on resume, or an entrypoint that cannot be
\* loaded, which ends the boot.
Reattach ==
    /\ call["recovery"].pc = "reattach"
    /\ NewControl(TRUE)
    /\ call' = [call EXCEPT !["recovery"] = Rest("booted")]
    /\ UNCHANGED <<run, up, ctl, ctlOf, boxes, ops, crashes, launched, owed>>

ReattachRaises ==
    /\ call["recovery"].pc = "reattach"
    /\ call' = [call EXCEPT !["recovery"] = Rest("aborted")]
    /\ UNCHANGED <<run, up, memory, boxes, ops, crashes, launched, owed>>

Booted ==
    /\ call["recovery"].pc = "booted"
    /\ up' = "up"
    /\ call' = [call EXCEPT !["recovery"] = Rest("idle")]
    /\ UNCHANGED <<run, memory, boxes, ops, crashes, launched, owed>>

\* An exception out of the recovery pass ends the process.
BootAborted ==
    /\ call["recovery"].pc = "aborted"
    /\ Wipe
    /\ UNCHANGED crashes

---------------------------------------------------------------------------
\* The steps of a call once it has been made
CallStep(p) ==
    \/ Read(p) \/ Provision(p) \/ Save(p) \/ Destroy(p) \/ Effects(p)
    \/ Start(p) \/ StartRaises(p) \/ Resume(p) \/ Redrive(p) \/ Pause(p) \/ Cancel(p)

NewRequest(c) ==
    \/ RequestStart(c) \/ RequestPause(c) \/ RequestResume(c) \/ RequestStop(c)
    \/ RequestDeny(c)

DriveStep(d) ==
    \/ Complete(d) \/ Fail(d) \/ Escalate(d) \/ Escalated(d) \/ Checkpoint(d)
    \/ CheckpointReturns(d) \/ ReportUsage(d) \/ SaveUsage(d)

Recovery == Boot \/ Reattach \/ ReattachRaises \/ Booted \/ BootAborted

Next ==
    \/ Submit \/ Crash \/ Recovery
    \/ \E p \in Procs : CallStep(p)
    \/ \E c \in Clients : NewRequest(c)
    \/ \E d \in Drives : DriveStep(d)

Spec == Init /\ [][Next]_vars

\* A thread that can take its next step takes it eventually: a request that was
\* accepted, and a worker blocked at a checkpoint that is open again.
FairSpec ==
    /\ Spec
    /\ \A p \in Procs : WF_vars(CallStep(p))
    /\ \A d \in Drives : WF_vars(CheckpointReturns(d))

---------------------------------------------------------------------------
TypeOK ==
    /\ run \in [state : RunStates, sandbox : BOOLEAN, box : 0..MaxBoxes]
    /\ up \in {"down", "booting", "up"}
    /\ call \in [Procs -> [pc : {"idle", "off", "ended", "work", "read", "provision",
                                 "save", "destroy", "effects", "start", "resume",
                                 "redrive", "pause", "cancel", "escalated", "checkpoint",
                                 "usage", "reattach", "booted", "aborted"},
                           target : RunStates,
                           then : {"none", "end", "resume", "escalate", "usage", "boot"},
                           from : RunStates, box : 0..MaxBoxes]]
    /\ session \in [owned : BOOLEAN, loaded : BOOLEAN, ctl : 0..MaxControls,
                     redrive : BOOLEAN]
    /\ ctl \in [Controls -> [paused : BOOLEAN, cancelled : BOOLEAN]]
    /\ ctlOf \in [Drives -> 0..MaxControls]
    /\ boxes \in [Boxes -> {"unused", "ready", "destroyed", "lost"}]
    /\ ops \in 0..MaxOps /\ crashes \in 0..MaxCrashes /\ launched \in BOOLEAN
    /\ owed \in [Terminal -> Nat]

\* A run that was running when the process died is not running when the next
\* process starts to serve requests, whatever was in flight at the crash and
\* however often the boot itself dies.
RecoveryReconciles ==
    [][up # "up" /\ up' = "up" => run'.state # "running"]_vars

\* "transitions are persisted before side effects are acknowledged": once a worker
\* has been started for the run the row is never queued again, across crashes and
\* stale saves, so the run is never picked up a second time from the queue.
StartedIsPersisted == launched => run.state \notin {"absent", "queued"}

\* Only the terminal state that was saved is fanned out, and at most once for each
\* time it was saved: the fan-outs still to come are owed for a save.
FanoutFollowsSave ==
    \A s \in Terminal :
        Cardinality({p \in Procs : call[p].pc \in {"destroy", "effects"} /\ call[p].target = s})
            <= owed[s]

\* Recovery never moves a run that is terminal, and repeating it changes nothing:
\* from the crash to the end of the boot a terminal row stays as it is.
RecoveryKeepsTerminal ==
    [][up # "up" /\ run.state \in Terminal => run' = run]_vars

\* With one request at a time a run has at most one live worker thread: resuming,
\* re-driving after an escalation and recovery never run a second one beside it.
SingleDriver ==
    \A d, e \in Drives : Live(d) /\ Live(e) => d = e

\* "sandbox contexts are torn down on terminal transition": with one request at a
\* time, when nothing is in flight a terminal run has no sandbox left.
NoSandboxLeak ==
    run.state \in Terminal /\ (\A p \in Procs : call[p].pc \in {"idle", "off", "ended", "work"})
        => \A b \in Boxes : boxes[b] # "ready"

\* A cancelled worker is not left blocked at its checkpoint, paused or not.
CancelUnblocks ==
    \A d \in Drives :
        call[d].pc = "checkpoint" /\ ctl[ctlOf[d]].cancelled
            ~> call[d].pc # "checkpoint"

\* intervene: "a terminal state must never be followed by a state change".
TerminalIsFinal == [][run.state \in Terminal => run'.state = run.state]_vars

\* intervene starts a run without a session "instead of leaving it running with
\* nothing driving it": a running run with no request in flight has a worker.
Driven ==
    run.state = "running" /\ up = "up" /\ (\A c \in Clients : call[c].pc = "idle")
        => \E d \in Drives : Live(d)
=============================================================================
