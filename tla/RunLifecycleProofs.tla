------------------------- MODULE RunLifecycleProofs -------------------------
(***************************************************************************)
(* The invariants of RunLifecycle that hold for any number of requests,    *)
(* worker threads, sandboxes and crashes.                                  *)
(*                                                                         *)
(* The inductive invariant says what a process holds at each point of a    *)
(* call, that nothing but the recovery pass moves while the process is not *)
(* up, and where that pass is for each state of the row.                   *)
(***************************************************************************)
EXTENDS RunLifecycle, FiniteSetTheorems, TLAPS

Steps == {"idle", "off", "ended", "work", "read", "provision", "save", "destroy", "effects", "start",
          "resume", "redrive", "pause", "cancel", "escalated", "checkpoint", "usage", "reattach",
          "booted", "aborted"}
Resting == Steps \ {"read", "provision", "save", "destroy", "effects", "pause", "usage"}
Nexts == {"none", "end", "resume", "escalate", "usage", "boot"}
CallType == [pc : Steps, target : RunStates, then : Nexts, from : RunStates, box : 0..MaxBoxes]
RunType == [state : RunStates, sandbox : BOOLEAN, box : 0..MaxBoxes]
SessionType == [owned : BOOLEAN, loaded : BOOLEAN, ctl : 0..MaxControls, redrive : BOOLEAN]
ControlType == [paused : BOOLEAN, cancelled : BOOLEAN]
BoxStatus == {"unused", "ready", "destroyed", "lost"}

Row ==
    /\ run \in RunType
    /\ up \in {"down", "booting", "up"}
    /\ launched \in BOOLEAN
    /\ owed \in [Terminal -> Nat]

Memory ==
    /\ session \in SessionType
    /\ ctl \in [Controls -> ControlType]
    /\ ctlOf \in [Drives -> 0..MaxControls]
    /\ boxes \in [Boxes -> BoxStatus]
    /\ ops \in 0..MaxOps /\ crashes \in 0..MaxCrashes

\* The run has left the queue.
Begun == run.state \notin {"absent", "queued"}

\* What a process carries: a target that is not the queue, a sandbox to destroy, and the state
\* a usage report read.
Held(v) ==
    /\ v.pc \in {"read", "provision", "save"} => v.target \notin {"absent", "queued"}
    /\ v.pc \in {"destroy", "effects"} => v.target \in Terminal
    /\ v.pc = "destroy" => v.box # 0
    /\ v.pc = "pause" => v.then # "resume"
    /\ v.pc = "usage" => v.from \notin {"absent", "queued"}

\* The points behind a save
Behind(v) == v.pc \in {"start", "resume", "redrive", "destroy", "effects"}

CallFacts ==
    /\ call \in [Procs -> CallType]
    /\ \A p \in Procs : Held(call[p]) /\ (Behind(call[p]) => Begun)
    /\ \A d \in Drives : call[d].pc # "off" => launched
    /\ launched => Begun

\* Where the recovery pass is for a row in state s
Recovering(v, s) ==
    \/ v.pc \in {"read", "save"} /\ v.target = "failed" /\ v.then = "boot" /\ s = "running"
    \/ v.pc \in {"destroy", "effects"} /\ v.target = "failed" /\ v.then = "boot" /\ s = "failed"
    \/ v.pc = "reattach" /\ s = "paused"
    \/ v.pc = "booted" /\ s # "running"
    \/ v.pc = "aborted"

BootFacts ==
    /\ up = "up" => call["recovery"].pc = "idle"
    /\ up # "up" => \A p \in Procs \ {"recovery"} : call[p].pc \in {"idle", "off"}
    /\ up = "down" => call["recovery"].pc = "idle"
    /\ up = "booting" => Recovering(call["recovery"], run.state)

IInv == Row /\ Memory /\ CallFacts /\ BootFacts /\ FanoutFollowsSave

---------------------------------------------------------------------------
\* The shapes of calls

\* The bounds are numbers, and the processes are clients, drives and the recovery pass.
LEMMA ConstantTypes ==
    /\ MaxControls \in Nat /\ MaxBoxes \in Nat /\ MaxOps \in Nat /\ MaxCrashes \in Nat
    /\ "recovery" \in Procs /\ Clients \subseteq Procs \ {"recovery"} /\ Drives \subseteq Procs \ {"recovery"}
    /\ \A c \in Clients : c \notin Drives
  <1>1. MaxControls \in Nat /\ MaxBoxes \in Nat /\ MaxOps \in Nat /\ MaxCrashes \in Nat
    BY BoundsAssumption, Zenon
  <1> QED
    BY <1>1, ProcsAssumption, Zenon DEF Procs

\* A process at rest carries nothing.
LEMMA RestShape ==
    ASSUME NEW s \in Steps
    PROVE  /\ Rest(s) \in CallType /\ Rest(s).pc = s
           /\ Rest(s).then = "none" /\ Rest(s).target = "absent"
  <1>1. 0 \in 0..MaxBoxes /\ "absent" \in RunStates /\ "none" \in Nexts
    BY ConstantTypes DEF RunStates, Nexts
  <1> QED
    BY <1>1, Zenon DEF Rest, CallType

\* A process that calls transition.
LEMMA ReadShape ==
    ASSUME NEW t \in RunStates, NEW n \in Nexts
    PROVE  /\ Calling(t, n) \in CallType
           /\ Calling(t, n).pc = "read"
           /\ Calling(t, n).target = t
           /\ Calling(t, n).then = n
  <1> DEFINE r == [Rest("read") EXCEPT !.target = t]
  <1>1. Rest("read") \in CallType /\ Rest("read").pc = "read"
    BY RestShape DEF Steps
  <1>2. r \in CallType /\ r.pc = "read" /\ r.target = t
    BY <1>1, Zenon DEF CallType
  <1>3. Calling(t, n) = [r EXCEPT !.then = n]
    BY Zenon DEF Calling
  <1> HIDE DEF r
  <1> QED
    BY <1>2, <1>3, Zenon DEF CallType

\* A process that asks the executor first.
LEMMA AskShape ==
    ASSUME NEW s \in {"pause", "cancel"}, NEW n \in Nexts
    PROVE  /\ [Rest(s) EXCEPT !.then = n] \in CallType
           /\ [Rest(s) EXCEPT !.then = n].pc = s /\ [Rest(s) EXCEPT !.then = n].then = n
  <1>1. Rest(s) \in CallType /\ Rest(s).pc = s
    BY RestShape DEF Steps
  <1> QED
    BY <1>1, Zenon DEF CallType

\* A call with a field replaced by a value of the field's type is a call.
LEMMA FieldKept ==
    ASSUME NEW n \in CallType
    PROVE  /\ \A v \in Steps : [n EXCEPT !.pc = v] \in CallType
           /\ \A v \in RunStates : [n EXCEPT !.from = v] \in CallType
           /\ \A v \in 0..MaxBoxes : [n EXCEPT !.box = v] \in CallType
  BY Zenon DEF CallType

\* What a process goes on with: only a resume that succeeded goes on to the executor, and what
\* goes back to transition fails the run.
LEMMA OutcomeShape ==
    ASSUME NEW p \in Procs, NEW ok \in BOOLEAN
    PROVE  /\ Outcome(p, ok) \in CallType
           /\ Outcome(p, ok).pc \in {"resume", "escalated", "work", "read", "booted", "aborted", "ended", "idle"}
           /\ Outcome(p, ok).pc = "read" => Outcome(p, ok).target = "failed"
           /\ Outcome(p, ok).pc = "resume" => ok /\ call[p].then = "resume"
           /\ call[p].then = "boot" => Outcome(p, ok).pc = IF ok THEN "booted" ELSE "aborted"
  <1> DEFINE again == Calling("failed", "end")
  <1>1. again \in CallType /\ again.pc = "read" /\ again.target = "failed"
    BY ReadShape DEF RunStates, Terminal, Nexts
  <1>2. \A s \in {"resume", "escalated", "work", "booted", "aborted", "ended", "idle"} :
           Rest(s) \in CallType /\ Rest(s).pc = s
    BY RestShape DEF Steps
  <1> HIDE DEF again
  <1>3. \/ Outcome(p, ok) = Rest("resume") /\ ok /\ call[p].then = "resume"
        \/ Outcome(p, ok) \in {Rest("escalated"), Rest("work"), again} /\ call[p].then \in {"escalate", "usage"}
        \/ Outcome(p, ok) = Rest(IF ok THEN "booted" ELSE "aborted") /\ call[p].then = "boot"
        \/ Outcome(p, ok) \in {Rest("ended"), Rest("idle")} /\ call[p].then # "boot"
    BY Zenon DEF Outcome, again
  <1>4. CASE Outcome(p, ok) = Rest("resume") /\ ok /\ call[p].then = "resume"
    BY <1>2, <1>4, Zenon
  <1>5. CASE Outcome(p, ok) \in {Rest("escalated"), Rest("work"), again} /\ call[p].then \in {"escalate", "usage"}
    BY <1>1, <1>2, <1>5, Zenon
  <1>6. CASE Outcome(p, ok) = Rest(IF ok THEN "booted" ELSE "aborted") /\ call[p].then = "boot"
    BY <1>2, <1>6, Zenon
  <1>7. CASE Outcome(p, ok) \in {Rest("ended"), Rest("idle")} /\ call[p].then # "boot"
    BY <1>2, <1>7, Zenon
  <1> QED
    BY <1>3, <1>4, <1>5, <1>6, <1>7, Zenon

---------------------------------------------------------------------------
\* Steps that change neither the row nor what is owed

Plain(p, v) ==
    /\ call' = [call EXCEPT ![p] = v]
    /\ Held(v) /\ (Behind(v) => Begun)
    /\ v.pc \in {"destroy", "effects"} => call[p].pc \in {"destroy", "effects"} /\ v.target = call[p].target
    /\ p \in Drives => call[p].pc # "off"
    /\ UNCHANGED <<run, up, launched, owed>>

\* The shapes a process takes without the row: at rest, or at the start of a call.
LEMMA PlainShapes ==
    ASSUME NEW p \in Procs, NEW v, call' = [call EXCEPT ![p] = v], p \in Drives => call[p].pc # "off",
           UNCHANGED <<run, up, launched, owed>>,
           \/ \E s \in Resting :
                 v = Rest(s) /\ (s \in {"start", "resume", "redrive"} => Begun)
           \/ \E t \in RunStates \ {"absent", "queued"}, n \in Nexts :
                 v = Calling(t, n)
           \/ \E s \in {"pause", "cancel"}, n \in Nexts \ {"resume"} : v = [Rest(s) EXCEPT !.then = n]
    PROVE  v \in CallType /\ Plain(p, v)
  <1>1. ASSUME NEW s \in Resting,
               v = Rest(s), s \in {"start", "resume", "redrive"} => Begun
        PROVE  v \in CallType /\ Plain(p, v)
    <2>1. v \in CallType /\ v.pc = s
      BY <1>1, RestShape, Zenon DEF Resting
    <2> QED
      BY <1>1, <2>1, Zenon DEF Plain, Held, Behind, Resting
  <1>2. ASSUME NEW t \in RunStates \ {"absent", "queued"}, NEW n \in Nexts,
               v = Calling(t, n)
        PROVE  v \in CallType /\ Plain(p, v)
    <2>1. t \in RunStates
      BY Zenon
    <2>2. v \in CallType /\ v.pc = "read" /\ v.target = t
      BY <1>2, <2>1, ReadShape
    <2> QED
      BY <2>2, Zenon DEF Plain, Held, Behind
  <1>3. ASSUME NEW s \in {"pause", "cancel"}, NEW n \in Nexts \ {"resume"}, v = [Rest(s) EXCEPT !.then = n]
        PROVE  v \in CallType /\ Plain(p, v)
    <2>1. v \in CallType /\ v.pc = s /\ v.then = n
      BY <1>3, AskShape, Zenon
    <2> QED
      BY <2>1, Zenon DEF Plain, Held, Behind
  <1> QED
    BY <1>1, <1>2, <1>3, Zenon

\* A process whose call returned or raised.
LEMMA PlainReturn ==
    ASSUME NEW p \in Procs, NEW ok \in BOOLEAN, Return(p, ok), p \in Drives => call[p].pc # "off",
           UNCHANGED <<run, up, launched, owed>>, ok /\ call[p].then = "resume" => Begun
    PROVE  Outcome(p, ok) \in CallType /\ Plain(p, Outcome(p, ok))
  <1>1. call' = [call EXCEPT ![p] = Outcome(p, ok)]
    BY Zenon DEF Return
  <1> QED
    BY <1>1, OutcomeShape, Zenon DEF Plain, Held, Behind

\* The steps of a call that leave the row alone
PlainStep(p) ==
    Read(p) \/ Provision(p) \/ Destroy(p) \/ StartRaises(p) \/ Resume(p) \/ Pause(p) \/ Cancel(p)

\* They are plain.
LEMMA CallsPlain ==
    ASSUME Row, Memory, CallFacts, NEW p \in Procs, PlainStep(p)
    PROVE  \E v \in CallType : Plain(p, v)
  <1>a. call[p] \in CallType /\ Held(call[p]) /\ (Behind(call[p]) => Begun) /\ run \in RunType
    BY Zenon DEF CallFacts, Row
  <1>b. run.state \in RunStates /\ run.box \in 0..MaxBoxes
    BY <1>a, Zenon DEF RunType
  <1>c. {"start", "redrive", "idle"} \subseteq Resting /\ "end" \in Nexts \ {"resume"}
        /\ {"paused", "cancelled"} \subseteq RunStates \ {"absent", "queued"}
    BY Zenon DEF Resting, Steps, Nexts, RunStates, Terminal
  <1>1. ASSUME Read(p) PROVE \E v \in CallType : Plain(p, v)
    <2>1. call[p].pc = "read" /\ UNCHANGED <<run, up, launched, owed>>
      BY <1>1, Zenon DEF Read
    <2>2. CASE can_transition(run.state, call[p].target)
      <3> DEFINE s == IF run.state = "queued" /\ call[p].target = "running" /\ run.sandbox
                      THEN "provision" ELSE "save"
                 v == [call[p] EXCEPT !.from = run.state, !.box = run.box, !.pc = s]
      <3>1. call' = [call EXCEPT ![p] = v]
        BY <1>1, <2>2, Zenon DEF Read
      <3>2. s \in Steps /\ s \in {"provision", "save"}
        BY Zenon DEF Steps
      <3> HIDE DEF s
      <3>3. v \in CallType /\ v.pc = s /\ v.target = call[p].target
        <4>1. v \in CallType
          BY <1>a, <1>b, <3>2, FieldKept, Zenon
        <4>2. v.pc = s /\ v.target = call[p].target
          BY <1>a, Zenon DEF CallType
        <4> QED
          BY <4>1, <4>2, Zenon
      <3> HIDE DEF v
      <3>4. Plain(p, v)
        BY <1>a, <2>1, <3>1, <3>2, <3>3, Zenon DEF Plain, Held, Behind
      <3> QED
        BY <3>3, <3>4, Zenon
    <2>3. CASE ~ can_transition(run.state, call[p].target)
      <3>1. Return(p, FALSE)
        BY <1>1, <2>3, Zenon DEF Read
      <3> QED
        BY <2>1, <3>1, PlainReturn, Zenon
    <2> QED
      BY <2>2, <2>3, Zenon
  <1>2. ASSUME Provision(p) PROVE \E v \in CallType : Plain(p, v)
    <2>1. call[p].pc = "provision" /\ UNCHANGED <<run, up, launched, owed>>
      BY <1>2, Zenon DEF Provision
    <2>2. PICK b \in Boxes : call' = [call EXCEPT ![p] = [@ EXCEPT !.box = b, !.pc = "save"]]
      BY <1>2, Zenon DEF Provision
    <2> DEFINE v == [call[p] EXCEPT !.box = b, !.pc = "save"]
    <2>3. b \in 0..MaxBoxes /\ "save" \in Steps
      BY ConstantTypes DEF Boxes, Steps
    <2>4. v \in CallType
      BY <1>a, <2>3, FieldKept, Zenon
    <2>5. v.pc = "save" /\ v.target = call[p].target
      BY <1>a, Zenon DEF CallType
    <2>6. call' = [call EXCEPT ![p] = v]
      BY <2>2, Zenon
    <2> HIDE DEF v
    <2>7. Plain(p, v)
      BY <1>a, <2>1, <2>5, <2>6, Zenon DEF Plain, Held, Behind
    <2> QED
      BY <2>4, <2>7, Zenon
  <1>3. ASSUME Destroy(p) PROVE \E v \in CallType : Plain(p, v)
    <2>1. call[p].pc = "destroy" /\ UNCHANGED <<run, up, launched, owed>>
      BY <1>3, Zenon DEF Destroy
    <2>2. Return(p, FALSE) \/ call' = [call EXCEPT ![p].pc = "effects"]
      BY <1>3, Zenon DEF Destroy
    <2>3. CASE Return(p, FALSE)
      BY <2>1, <2>3, PlainReturn, Zenon
    <2>4. CASE call' = [call EXCEPT ![p].pc = "effects"]
      <3> DEFINE v == [call[p] EXCEPT !.pc = "effects"]
      <3>1. v \in CallType /\ v.pc = "effects" /\ v.target = call[p].target
        BY <1>a, Zenon DEF CallType, Steps
      <3>2. call' = [call EXCEPT ![p] = v]
        BY <2>4, Zenon
      <3> HIDE DEF v
      <3>3. Plain(p, v)
        BY <1>a, <2>1, <3>1, <3>2, Zenon DEF Plain, Held, Behind
      <3> QED
        BY <3>1, <3>3, Zenon
    <2> QED
      BY <2>2, <2>3, <2>4, Zenon
  <1>4. ASSUME StartRaises(p) PROVE \E v \in CallType : Plain(p, v)
    <2>1. /\ call[p].pc = "start" /\ UNCHANGED <<run, up, launched, owed>>
          /\ call' = [call EXCEPT ![p] = Rest("idle")]
      BY <1>4, Zenon DEF StartRaises
    <2> QED
      BY <1>c, <2>1, PlainShapes, Zenon
  <1>5. ASSUME Resume(p) PROVE \E v \in CallType : Plain(p, v)
    <2>1. call[p].pc = "resume" /\ UNCHANGED <<run, up, launched, owed>> /\ Begun
      BY <1>5, <1>a, Zenon DEF Resume, Behind
    <2>2. PICK s \in {"redrive", "start", "idle"} : call' = [call EXCEPT ![p] = Rest(s)]
      BY <1>5, Zenon DEF Resume
    <2> QED
      BY <1>c, <2>1, <2>2, PlainShapes, Zenon
  <1>6. ASSUME Pause(p) PROVE \E v \in CallType : Plain(p, v)
    <2>1. call[p].pc = "pause" /\ UNCHANGED <<run, up, launched, owed>>
      BY <1>6, Zenon DEF Pause
    <2>2. call[p].then \in Nexts /\ call[p].then # "resume"
      BY <1>a, <2>1, Zenon DEF CallType, Held
    <2>3. Transition(p, "paused", call[p].then) \/ Return(p, session.owned)
      BY <1>6, Zenon DEF Pause
    <2>4. CASE Transition(p, "paused", call[p].then)
      BY <1>c, <2>1, <2>2, <2>4, PlainShapes, Zenon DEF Transition
    <2>5. CASE Return(p, session.owned)
      <3>1. session.owned \in BOOLEAN
        BY Zenon DEF Memory, SessionType
      <3> QED
        BY <2>1, <2>2, <2>5, <3>1, PlainReturn, Zenon
    <2> QED
      BY <2>3, <2>4, <2>5, Zenon
  <1>7. ASSUME Cancel(p) PROVE \E v \in CallType : Plain(p, v)
    <2>1. call[p].pc = "cancel" /\ UNCHANGED <<run, up, launched, owed>>
      BY <1>7, Zenon DEF Cancel
    <2>2. Transition(p, "cancelled", "end") \/ Return(p, FALSE)
      BY <1>7, Zenon DEF Cancel
    <2> QED
      BY <1>c, <2>1, <2>2, PlainShapes, PlainReturn, Zenon DEF Transition
  <1> QED
    BY <1>1, <1>2, <1>3, <1>4, <1>5, <1>6, <1>7, Zenon DEF PlainStep

\* The requests are plain.
LEMMA RequestsPlain ==
    ASSUME CallFacts, NEW c \in Clients, NewRequest(c)
    PROVE  c \in Procs /\ up = "up" /\ \E v \in CallType : Plain(c, v)
  <1>1. c \in Procs /\ c \notin Drives
    BY ConstantTypes, Zenon
  <1>2. Request(c)
    BY Zenon DEF NewRequest, RequestStart, RequestPause, RequestResume, RequestStop, RequestDeny
  <1>3. up = "up" /\ UNCHANGED <<run, up, launched, owed>>
    BY <1>2, Zenon DEF Request
  <1>4. \/ \E t \in {"running", "failed"}, n \in {"end", "resume"} : call' = [call EXCEPT ![c] = Calling(t, n)]
        \/ \E s \in {"pause", "cancel"} : call' = [call EXCEPT ![c] = [Rest(s) EXCEPT !.then = "end"]]
    BY Zenon DEF NewRequest, RequestStart, RequestPause, RequestResume, RequestStop, RequestDeny, Transition
  <1>5. {"running", "failed"} \subseteq RunStates \ {"absent", "queued"}
        /\ {"end", "resume"} \subseteq Nexts /\ "end" \in Nexts \ {"resume"}
    BY Zenon DEF Nexts, RunStates, Terminal
  <1>6. ASSUME NEW t \in {"running", "failed"}, NEW n \in {"end", "resume"}, call' = [call EXCEPT ![c] = Calling(t, n)]
        PROVE  \E v \in CallType : Plain(c, v)
    BY <1>1, <1>3, <1>5, <1>6, PlainShapes, Zenon
  <1>7. ASSUME NEW s \in {"pause", "cancel"}, call' = [call EXCEPT ![c] = [Rest(s) EXCEPT !.then = "end"]]
        PROVE  \E v \in CallType : Plain(c, v)
    BY <1>1, <1>3, <1>5, <1>7, PlainShapes, Zenon
  <1> QED
    BY <1>1, <1>3, <1>4, <1>6, <1>7, Zenon

\* The steps of a worker thread that leave the row alone
Working(d) ==
    \/ Complete(d) \/ Fail(d) \/ Escalate(d) \/ Escalated(d) \/ Checkpoint(d)
    \/ CheckpointReturns(d) \/ ReportUsage(d)

\* They are plain.
LEMMA WorkPlain ==
    ASSUME Row, CallFacts, NEW d \in Drives, Working(d)
    PROVE  d \in Procs /\ (\E v \in CallType : Plain(d, v)) /\ call[d].pc \notin {"idle", "off"}
  <1>1. d \in Procs /\ call[d].pc \in {"work", "escalated", "checkpoint"} /\ UNCHANGED <<run, up, launched, owed>>
    BY ConstantTypes, Zenon DEF Working, Complete, Fail, Escalate, Escalated, Checkpoint, CheckpointReturns, ReportUsage, Worker
  <1>2. Begun
    BY <1>1, Zenon DEF CallFacts
  <1>3. \/ \E t \in {"completed", "failed"} : call' = [call EXCEPT ![d] = Calling(t, "end")]
        \/ \E s \in {"escalated", "ended", "checkpoint", "work"} : call' = [call EXCEPT ![d] = Rest(s)]
        \/ call' = [call EXCEPT ![d] = [Rest("pause") EXCEPT !.then = "escalate"]]
        \/ call' = [call EXCEPT ![d] = [Rest("usage") EXCEPT !.from = run.state, !.box = run.box]]
    BY Zenon DEF Working, Complete, Fail, Escalate, Escalated, Checkpoint, CheckpointReturns, ReportUsage, Transition
  <1>4. {"completed", "failed"} \subseteq RunStates \ {"absent", "queued"} /\ "end" \in Nexts
        /\ {"escalated", "ended", "checkpoint", "work"} \subseteq Resting /\ "escalate" \in Nexts \ {"resume"}
    BY Zenon DEF Nexts, RunStates, Terminal, Resting, Steps
  <1>5. ASSUME NEW t \in {"completed", "failed"}, call' = [call EXCEPT ![d] = Calling(t, "end")]
        PROVE  \E v \in CallType : Plain(d, v)
    BY <1>1, <1>4, <1>5, PlainShapes, Zenon
  <1>6. ASSUME NEW s \in {"escalated", "ended", "checkpoint", "work"}, call' = [call EXCEPT ![d] = Rest(s)]
        PROVE  \E v \in CallType : Plain(d, v)
    BY <1>1, <1>4, <1>6, PlainShapes, Zenon
  <1>7. ASSUME call' = [call EXCEPT ![d] = [Rest("pause") EXCEPT !.then = "escalate"]]
        PROVE  \E v \in CallType : Plain(d, v)
    BY <1>1, <1>4, <1>7, PlainShapes, Zenon
  <1>8. ASSUME call' = [call EXCEPT ![d] = [Rest("usage") EXCEPT !.from = run.state, !.box = run.box]]
        PROVE  \E v \in CallType : Plain(d, v)
    <2> DEFINE v == [Rest("usage") EXCEPT !.from = run.state, !.box = run.box]
    <2>1. Rest("usage") \in CallType /\ Rest("usage").pc = "usage"
      BY RestShape, Zenon DEF Steps
    <2>2. run.state \in RunStates /\ run.box \in 0..MaxBoxes
      BY Zenon DEF Row, RunType
    <2>3. v \in CallType
      BY <2>1, <2>2, FieldKept, Zenon
    <2>4. v.pc = "usage" /\ v.from = run.state
      BY <2>1, Zenon DEF CallType
    <2>5. call' = [call EXCEPT ![d] = v]
      BY <1>8, Zenon
    <2> HIDE DEF v
    <2>6. Plain(d, v)
      BY <1>1, <1>2, <2>4, <2>5, Zenon DEF Plain, Held, Behind, Begun
    <2> QED
      BY <2>3, <2>6, Zenon
  <1> QED
    BY <1>1, <1>3, <1>5, <1>6, <1>7, <1>8, Zenon

\* The reattachment of the boot is plain.
LEMMA ReattachPlain ==
    ASSUME CallFacts, Reattach \/ ReattachRaises
    PROVE  /\ call["recovery"].pc = "reattach"
           /\ \E v \in CallType : Plain("recovery", v) /\ v.pc \in {"booted", "aborted"}
  <1>1. call["recovery"].pc = "reattach" /\ UNCHANGED <<run, up, launched, owed>>
    BY Zenon DEF Reattach, ReattachRaises
  <1>2. PICK s \in {"booted", "aborted"} : call' = [call EXCEPT !["recovery"] = Rest(s)]
    BY Zenon DEF Reattach, ReattachRaises
  <1>3. s \in Resting /\ s \in Steps /\ s \notin {"start", "resume", "redrive"}
    BY Zenon DEF Resting, Steps
  <1>4. Rest(s).pc = s
    BY <1>3, RestShape, Zenon
  <1>5. Rest(s) \in CallType /\ Plain("recovery", Rest(s))
    BY <1>1, <1>2, <1>3, ConstantTypes, PlainShapes, Zenon
  <1> QED
    BY <1>1, <1>4, <1>5, Zenon
---------------------------------------------------------------------------
\* What a step of one process keeps

\* The processes that owe a fan-out of s
Fan(s) == {p \in Procs : call[p].pc \in {"destroy", "effects"} /\ call[p].target = s}

\* A process moves to v, and the run does not return to the queue.
LEMMA Moved ==
    ASSUME CallFacts, NEW p \in Procs, NEW v \in CallType, call' = [call EXCEPT ![p] = v], Held(v),
           Behind(v) => Begun', Begun => Begun', launched' = launched, p \in Drives => call[p].pc # "off"
    PROVE  CallFacts'
  <1>1. call' \in [Procs -> CallType] /\ \A q \in Procs : call'[q] = IF q = p THEN v ELSE call[q]
    BY Zenon DEF CallFacts
  <1>2. \A q \in Procs : Held(call'[q]) /\ (Behind(call'[q]) => Begun')
    BY <1>1, Zenon DEF CallFacts
  <1>3. \A d \in Drives : call'[d].pc # "off" => launched'
    BY <1>1, ConstantTypes, Zenon DEF CallFacts
  <1>4. launched' => Begun'
    BY Zenon DEF CallFacts
  <1> QED
    BY <1>1, <1>2, <1>3, <1>4, Zenon DEF CallFacts

\* How the processes that owe a fan-out change when one process moves.
LEMMA FanMoved ==
    ASSUME CallFacts, NEW p \in Procs, NEW v \in CallType, call' = [call EXCEPT ![p] = v], NEW s \in Terminal
    PROVE  /\ Fan(s)' \subseteq Fan(s) \cup {p}
           /\ v.pc \notin {"destroy", "effects"} \/ v.target # s => Fan(s)' \subseteq Fan(s) \ {p}
  <1>1. \A q \in Procs : call'[q] = IF q = p THEN v ELSE call[q]
    BY Zenon DEF CallFacts
  <1> QED
    BY <1>1, Zenon DEF Fan

\* The processes that owe a fan-out are finitely many, and their number follows the set.
LEMMA Count ==
    ASSUME NEW T \in SUBSET Procs, NEW S
    PROVE  /\ IsFiniteSet(T) /\ Cardinality(T) \in Nat
           /\ S \subseteq T => Cardinality(S) \in Nat /\ Cardinality(S) <= Cardinality(T)
           /\ \A p \in Procs : S \subseteq T \cup {p} => Cardinality(S) \in Nat /\ Cardinality(S) <= Cardinality(T) + 1
           /\ \A p \in T : S \subseteq T \ {p} => Cardinality(S) \in Nat /\ Cardinality(S) <= Cardinality(T) - 1
  <1>1. IsFiniteSet(Procs)
    <2>1. IsFiniteSet(Clients \cup Drives)
      BY ProcsAssumption, FS_Union, Zenon
    <2> QED
      BY <2>1, FS_AddElement, Zenon DEF Procs
  <1>2. ASSUME NEW R, NEW U, IsFiniteSet(U), R \subseteq U
        PROVE  Cardinality(U) \in Nat /\ Cardinality(R) \in Nat /\ Cardinality(R) <= Cardinality(U)
    BY <1>2, FS_Subset, FS_CardinalityType, Zenon
  <1>3. IsFiniteSet(T) /\ Cardinality(T) \in Nat
    BY <1>1, FS_Subset, FS_CardinalityType, Zenon
  <1>4. S \subseteq T => Cardinality(S) \in Nat /\ Cardinality(S) <= Cardinality(T)
    BY <1>2, <1>3, Zenon
  <1>5. ASSUME NEW p \in Procs, S \subseteq T \cup {p}
        PROVE  Cardinality(S) \in Nat /\ Cardinality(S) <= Cardinality(T) + 1
    <2>1. IsFiniteSet(T \cup {p}) /\ Cardinality(T \cup {p}) \in {Cardinality(T), Cardinality(T) + 1}
      BY <1>3, FS_AddElement, Zenon
    <2>2. Cardinality(S) \in Nat /\ Cardinality(S) <= Cardinality(T \cup {p})
      BY <1>2, <1>5, <2>1, Zenon
    <2> QED
      BY <1>3, <2>1, <2>2
  <1>6. ASSUME NEW p \in T, S \subseteq T \ {p}
        PROVE  Cardinality(S) \in Nat /\ Cardinality(S) <= Cardinality(T) - 1
    <2>1. IsFiniteSet(T \ {p}) /\ Cardinality(T \ {p}) = Cardinality(T) - 1
      BY <1>3, FS_RemoveElement, Zenon
    <2>2. Cardinality(S) \in Nat /\ Cardinality(S) <= Cardinality(T \ {p})
      BY <1>2, <1>6, <2>1, Zenon
    <2> QED
      BY <2>1, <2>2, Zenon
  <1> QED
    BY <1>3, <1>4, <1>5, <1>6, Zenon

\* A plain step keeps the row's type, what the calls hold, and what is owed.
LEMMA PlainKeeps ==
    ASSUME Row, CallFacts, FanoutFollowsSave, NEW p \in Procs, NEW v \in CallType, Plain(p, v)
    PROVE  Row' /\ CallFacts' /\ FanoutFollowsSave'
  <1>1. /\ call' = [call EXCEPT ![p] = v] /\ Held(v) /\ (Behind(v) => Begun)
        /\ v.pc \in {"destroy", "effects"} => call[p].pc \in {"destroy", "effects"} /\ v.target = call[p].target
        /\ p \in Drives => call[p].pc # "off"
        /\ UNCHANGED <<run, up, launched, owed>>
    BY Zenon DEF Plain
  <1>2. Row'
    BY <1>1, Zenon DEF Row
  <1>3. Begun' <=> Begun
    BY <1>1, Zenon DEF Begun
  <1>4. CallFacts'
    BY <1>1, <1>3, Moved, Zenon
  <1>5. ASSUME NEW s \in Terminal PROVE Cardinality(Fan(s)') <= owed[s]
    <2>1. Fan(s)' \subseteq Fan(s)
      <3>1. CASE v.pc \in {"destroy", "effects"} /\ v.target = s
        <4>1. p \in Fan(s)
          BY <1>1, <3>1, Zenon DEF Fan
        <4> QED
          BY <1>1, <4>1, FanMoved, ZenonT(40)
      <3>2. CASE v.pc \notin {"destroy", "effects"} \/ v.target # s
        BY <1>1, <3>2, FanMoved, Zenon
      <3> QED
        BY <3>1, <3>2, Zenon
    <2>2. Fan(s) \in SUBSET Procs
      BY Zenon DEF Fan
    <2>3. Cardinality(Fan(s)) \in Nat /\ Cardinality(Fan(s)') \in Nat /\ Cardinality(Fan(s)') <= Cardinality(Fan(s))
      BY <2>1, <2>2, Count, Zenon
    <2>4. Cardinality(Fan(s)) <= owed[s] /\ owed[s] \in Nat
      BY Zenon DEF FanoutFollowsSave, Fan, Row
    <2> QED
      BY <2>3, <2>4
  <1>6. FanoutFollowsSave'
    BY <1>1, <1>5, Zenon DEF FanoutFollowsSave, Fan
  <1> QED
    BY <1>2, <1>4, <1>6, Zenon
---------------------------------------------------------------------------
\* The steps that change the row or what is owed

\* A row with a new state and sandbox is a row.
LEMMA RowKept ==
    ASSUME NEW t \in RunStates, NEW b \in 0..MaxBoxes, run \in RunType
    PROVE  /\ [run EXCEPT !.state = t, !.box = b] \in RunType
           /\ [run EXCEPT !.state = t, !.box = b].state = t
  <1> DEFINE r == [run EXCEPT !.state = t]
  <1>1. r \in RunType /\ r.state = t
    BY Zenon DEF RunType
  <1>2. [run EXCEPT !.state = t, !.box = b] = [r EXCEPT !.box = b]
    BY Zenon
  <1> HIDE DEF r
  <1> QED
    BY <1>1, <1>2, Zenon DEF RunType

\* save_run: the process that saved a terminal state owes one more fan-out of it, and is the only
\* one more that may send it.
LEMMA SaveKeeps ==
    ASSUME Row, CallFacts, FanoutFollowsSave, NEW p \in Procs, Save(p)
    PROVE  Row' /\ CallFacts' /\ FanoutFollowsSave'
  <1> DEFINE c == call[p]
  <1>1. /\ c.pc = "save" /\ run' = [run EXCEPT !.state = c.target, !.box = c.box]
        /\ up' = up /\ launched' = launched
    BY Zenon DEF Save
  <1>2. c \in CallType /\ Held(c)
    BY Zenon DEF CallFacts
  <1>3. c.target \in RunStates \ {"absent", "queued"} /\ c.box \in 0..MaxBoxes
    BY <1>1, <1>2, Zenon DEF CallType, Held
  <1>4. run' \in RunType /\ Begun'
    BY <1>1, <1>3, RowKept, Zenon DEF Row, Begun
  <1>5. \E v \in CallType :
           /\ call' = [call EXCEPT ![p] = v] /\ Held(v)
           /\ c.target \in Terminal => v.target = c.target
           /\ c.target \notin Terminal => v.pc \notin {"destroy", "effects"}
    <2>1. CASE c.target \in Terminal
      <3> DEFINE s == IF c.box # 0 THEN "destroy" ELSE "effects"
                 v == [c EXCEPT !.pc = s]
      <3>1. call' = [call EXCEPT ![p] = v]
        BY <2>1, Zenon DEF Save
      <3>2. v \in CallType /\ v.pc = s /\ v.target = c.target /\ v.box = c.box
        BY <1>2, Zenon DEF CallType, Steps
      <3>3. Held(v)
        BY <2>1, <3>2 DEF Held
      <3> QED
        BY <2>1, <3>1, <3>2, <3>3, Zenon
    <2>2. CASE c.target \notin Terminal /\ c.from = "queued"
      <3> DEFINE v == [c EXCEPT !.pc = "start"]
      <3>1. call' = [call EXCEPT ![p] = v]
        BY <2>2, Zenon DEF Save
      <3>2. v \in CallType /\ v.pc = "start"
        BY <1>2, Zenon DEF CallType, Steps
      <3>3. Held(v)
        BY <3>2, Zenon DEF Held
      <3> QED
        BY <2>2, <3>1, <3>2, <3>3, Zenon
    <2>3. CASE c.target \notin Terminal /\ c.from # "queued"
      <3>1. call' = [call EXCEPT ![p] = Outcome(p, TRUE)]
        BY <2>3, Zenon DEF Save, Return
      <3>2. Outcome(p, TRUE) \in CallType /\ Held(Outcome(p, TRUE))
            /\ Outcome(p, TRUE).pc \notin {"destroy", "effects"}
        BY OutcomeShape, Zenon DEF Held
      <3> QED
        BY <2>3, <3>1, <3>2, Zenon
    <2> QED
      BY <2>1, <2>2, <2>3, Zenon
  <1>6. PICK v \in CallType :
           /\ call' = [call EXCEPT ![p] = v] /\ Held(v)
           /\ c.target \in Terminal => v.target = c.target
           /\ c.target \notin Terminal => v.pc \notin {"destroy", "effects"}
    BY <1>5, Zenon
  <1>7. owed' = IF c.target \in Terminal THEN [owed EXCEPT ![c.target] = @ + 1] ELSE owed
    BY Zenon DEF Save
  <1>8. owed' \in [Terminal -> Nat]
    BY <1>7 DEF Row
  <1>9. Row'
    BY <1>1, <1>4, <1>8, Zenon DEF Row
  <1>10. CallFacts'
    BY <1>1, <1>4, <1>6, Moved, Zenon
  <1>11. ASSUME NEW s \in Terminal PROVE Cardinality(Fan(s)') <= owed'[s]
    <2>1. Fan(s) \in SUBSET Procs
      BY Zenon DEF Fan
    <2>2. Cardinality(Fan(s)) <= owed[s] /\ owed[s] \in Nat
      BY Zenon DEF FanoutFollowsSave, Fan, Row
    <2>3. CASE c.target = s
      <3>1. Fan(s)' \subseteq Fan(s) \cup {p}
        BY <1>6, FanMoved, Zenon
      <3>2. Cardinality(Fan(s)) \in Nat /\ Cardinality(Fan(s)') \in Nat /\ Cardinality(Fan(s)') <= Cardinality(Fan(s)) + 1
        BY <2>1, <3>1, Count, Zenon
      <3>3. owed'[s] = owed[s] + 1
        BY <1>7, <2>3, Zenon DEF Row
      <3> QED
        BY <2>2, <3>2, <3>3
    <2>4. CASE c.target # s
      <3>1. Fan(s)' \subseteq Fan(s)
        BY <1>6, <2>4, FanMoved, Zenon
      <3>2. Cardinality(Fan(s)) \in Nat /\ Cardinality(Fan(s)') \in Nat /\ Cardinality(Fan(s)') <= Cardinality(Fan(s))
        BY <2>1, <3>1, Count, Zenon
      <3>3. owed'[s] = owed[s]
        BY <1>7, <2>4, Zenon DEF Row
      <3> QED
        BY <2>2, <3>2, <3>3
    <2> QED
      BY <2>3, <2>4, Zenon
  <1>12. FanoutFollowsSave'
    BY <1>11, Zenon DEF FanoutFollowsSave, Fan
  <1> QED
    BY <1>9, <1>10, <1>12, Zenon

\* The fan-out: one fewer is owed, and the process that sent it owes none.
LEMMA EffectsKeeps ==
    ASSUME Row, CallFacts, FanoutFollowsSave, NEW p \in Procs, Effects(p)
    PROVE  Row' /\ CallFacts' /\ FanoutFollowsSave'
  <1> DEFINE t == call[p].target
             v == Outcome(p, TRUE)
  <1>1. /\ call[p].pc = "effects" /\ owed' = [owed EXCEPT ![t] = @ - 1]
        /\ call' = [call EXCEPT ![p] = v] /\ run' = run /\ up' = up /\ launched' = launched
    BY Zenon DEF Effects, Return
  <1>2. t \in Terminal /\ p \in Fan(t) /\ Begun
    BY <1>1, Zenon DEF CallFacts, Held, Behind, Fan
  <1>3. v \in CallType /\ Held(v) /\ v.pc \notin {"destroy", "effects"}
    BY OutcomeShape, Zenon DEF Held
  <1>4. Begun'
    BY <1>1, <1>2, Zenon DEF Begun
  <1> HIDE DEF v
  <1>5. CallFacts'
    BY <1>1, <1>3, <1>4, Moved, Zenon
  <1>6. ASSUME NEW s \in Terminal
        PROVE  Cardinality(Fan(s)') <= owed'[s] /\ owed'[s] \in Nat
    <2>1. Fan(s) \in SUBSET Procs
      BY Zenon DEF Fan
    <2>2. Cardinality(Fan(s)) <= owed[s] /\ owed[s] \in Nat
      BY Zenon DEF FanoutFollowsSave, Fan, Row
    <2>3. Fan(s)' \subseteq Fan(s) \ {p}
      BY <1>1, <1>3, FanMoved, Zenon
    <2>4. CASE t = s
      <3>1. Cardinality(Fan(s)) \in Nat /\ Cardinality(Fan(s)') \in Nat /\ Cardinality(Fan(s)') <= Cardinality(Fan(s)) - 1
        BY <1>2, <2>1, <2>3, <2>4, Count, Zenon
      <3>2. owed'[s] = owed[s] - 1
        BY <1>1, <2>4, Zenon DEF Row
      <3> QED
        BY <2>2, <3>1, <3>2
    <2>5. CASE t # s
      <3>1. Cardinality(Fan(s)) \in Nat /\ Cardinality(Fan(s)') \in Nat /\ Cardinality(Fan(s)') <= Cardinality(Fan(s))
        BY <2>1, <2>3, Count, Zenon
      <3>2. owed'[s] = owed[s]
        BY <1>1, <2>5, Zenon DEF Row
      <3> QED
        BY <2>2, <3>1, <3>2
    <2> QED
      BY <2>4, <2>5, Zenon
  <1>7. owed' \in [Terminal -> Nat]
    <2>1. owed' \in [Terminal -> {owed'[s] : s \in Terminal}]
      BY <1>1, Zenon DEF Row
    <2> QED
      BY <1>6, <2>1, Zenon
  <1>8. Row'
    BY <1>1, <1>7, Zenon DEF Row
  <1>9. FanoutFollowsSave'
    BY <1>6, Zenon DEF FanoutFollowsSave, Fan
  <1> QED
    BY <1>5, <1>8, <1>9, Zenon
\* Fewer processes that owe a fan-out.
LEMMA FanFewer ==
    ASSUME Row, FanoutFollowsSave, owed' = owed, \A s \in Terminal : Fan(s)' \subseteq Fan(s)
    PROVE  FanoutFollowsSave'
  <1>1. ASSUME NEW s \in Terminal PROVE Cardinality(Fan(s)') <= owed[s]
    <2>1. Fan(s) \in SUBSET Procs
      BY Zenon DEF Fan
    <2>2. Cardinality(Fan(s)) \in Nat /\ Cardinality(Fan(s)') \in Nat /\ Cardinality(Fan(s)') <= Cardinality(Fan(s))
      BY <2>1, Count, Zenon
    <2>3. Cardinality(Fan(s)) <= owed[s] /\ owed[s] \in Nat
      BY Zenon DEF FanoutFollowsSave, Fan, Row
    <2> QED
      BY <2>2, <2>3
  <1> QED
    BY <1>1, Zenon DEF FanoutFollowsSave, Fan

\* start and a re-drive spawn a worker thread only behind a save of the running state.
LEMMA LaunchKeeps ==
    ASSUME Row, CallFacts, FanoutFollowsSave, NEW p \in Procs, Start(p) \/ Redrive(p)
    PROVE  /\ Row' /\ CallFacts' /\ FanoutFollowsSave'
           /\ call[p].pc \in {"start", "redrive"} /\ up' = up
           /\ p # "recovery" => call'["recovery"] = call["recovery"]
  <1>1. /\ call[p].pc \in {"start", "redrive"} /\ run' = run /\ up' = up /\ owed' = owed /\ launched' = TRUE
    BY Zenon DEF Start, Redrive, Launch
  <1>2. PICK d \in Drives :
           call[d].pc = "off" /\ call' = [call EXCEPT ![d] = Rest("work"), ![p] = Rest("idle")]
    BY Zenon DEF Start, Redrive, Launch
  <1>3. d \in Procs /\ d # p /\ d # "recovery" /\ Drives \subseteq Procs /\ "recovery" \in Procs
    BY <1>1, <1>2, ConstantTypes, Zenon
  <1>4. /\ Rest("work") \in CallType /\ Rest("work").pc = "work"
        /\ Rest("idle") \in CallType /\ Rest("idle").pc = "idle"
    BY RestShape DEF Steps
  <1>5. /\ call' \in [Procs -> CallType]
        /\ \A q \in Procs : call'[q] = IF q = p THEN Rest("idle") ELSE IF q = d THEN Rest("work") ELSE call[q]
    BY <1>2, <1>3, <1>4, Zenon DEF CallFacts
  <1>6. Begun /\ Begun'
    BY <1>1, Zenon DEF CallFacts, Behind, Begun
  <1>7. Row'
    BY <1>1, Zenon DEF Row
  <1>8. Held(Rest("idle")) /\ Held(Rest("work"))
    BY <1>4, Zenon DEF Held
  <1>9. \A q \in Procs : Held(call'[q])
    BY <1>5, <1>8, Zenon DEF CallFacts
  <1>10. CallFacts'
    BY <1>1, <1>5, <1>6, <1>9, Zenon DEF CallFacts
  <1>11. \A s \in Terminal : Fan(s)' \subseteq Fan(s)
    BY <1>4, <1>5, Zenon DEF Fan
  <1>12. FanoutFollowsSave'
    BY <1>1, <1>11, FanFewer, Zenon
  <1>13. p # "recovery" => call'["recovery"] = call["recovery"]
    BY <1>3, <1>5, Zenon
  <1> QED
    BY <1>1, <1>7, <1>10, <1>12, <1>13, Zenon

\* record_usage writes back a copy read after the run had started.
LEMMA UsageKeeps ==
    ASSUME Row, CallFacts, FanoutFollowsSave, NEW d \in Drives, SaveUsage(d)
    PROVE  /\ Row' /\ CallFacts' /\ FanoutFollowsSave'
           /\ call[d].pc = "usage" /\ up' = up /\ call'["recovery"] = call["recovery"]
  <1> DEFINE c == call[d]
  <1>0. d \in Procs /\ d # "recovery" /\ "recovery" \in Procs
    BY ConstantTypes, Zenon
  <1>1. /\ c.pc = "usage" /\ run' = [run EXCEPT !.state = c.from, !.box = c.box]
        /\ up' = up /\ launched' = launched /\ owed' = owed
    BY Zenon DEF SaveUsage
  <1>2. c \in CallType /\ Held(c)
    BY <1>0, Zenon DEF CallFacts
  <1>3. c.from \in RunStates \ {"absent", "queued"} /\ c.box \in 0..MaxBoxes
    BY <1>1, <1>2, Zenon DEF CallType, Held
  <1>4. run' \in RunType /\ Begun'
    BY <1>1, <1>3, RowKept, Zenon DEF Row, Begun
  <1>5. PICK v \in {Rest("work"), Calling("failed", "usage"), Calling("paused", "usage")} :
           call' = [call EXCEPT ![d] = v]
    BY Zenon DEF SaveUsage, Transition
  <1>6. Rest("work") \in CallType /\ Rest("work").pc = "work"
    BY RestShape DEF Steps
  <1>7. \A t \in {"failed", "paused"} : /\ Calling(t, "usage") \in CallType /\ Calling(t, "usage").pc = "read"
                                       /\ Calling(t, "usage").target = t
    BY ReadShape, Zenon DEF RunStates, Terminal, Nexts
  <1>8. v \in CallType /\ Held(v) /\ v.pc \notin {"destroy", "effects"}
    BY <1>6, <1>7, Zenon DEF Held
  <1>9. Row'
    BY <1>1, <1>4, Zenon DEF Row
  <1>10. CallFacts'
    BY <1>0, <1>1, <1>4, <1>5, <1>8, Moved, Zenon
  <1>11. \A s \in Terminal : Fan(s)' \subseteq Fan(s)
    BY <1>0, <1>5, <1>8, FanMoved, Zenon
  <1>12. FanoutFollowsSave'
    BY <1>1, <1>11, FanFewer, Zenon
  <1>13. call'["recovery"] = call["recovery"]
    BY <1>0, <1>5, Zenon DEF CallFacts
  <1> QED
    BY <1>1, <1>9, <1>10, <1>12, <1>13, Zenon

\* submit saves the first row of a run, which no process holds yet.
LEMMA SubmitKeeps ==
    ASSUME Row, CallFacts, FanoutFollowsSave, Submit
    PROVE  Row' /\ CallFacts' /\ FanoutFollowsSave' /\ up = "up" /\ up' = up /\ call' = call
  <1>1. /\ up = "up" /\ run.state = "absent" /\ up' = up /\ call' = call /\ launched' = launched /\ owed' = owed
    BY Zenon DEF Submit
  <1>2. run' \in RunType
    <2>1. PICK s \in {"queued", "paused"}, b \in BOOLEAN : run' = [state |-> s, sandbox |-> b, box |-> 0]
      BY Zenon DEF Submit
    <2>2. s \in RunStates /\ 0 \in 0..MaxBoxes
      BY ConstantTypes DEF RunStates
    <2> QED
      BY <2>1, <2>2, Zenon DEF RunType
  <1>3. Row'
    BY <1>1, <1>2, Zenon DEF Row
  <1>4. ~ Begun
    BY <1>1, Zenon DEF Begun
  <1>5. CallFacts'
    BY <1>1, <1>4, Zenon DEF CallFacts
  <1>6. \A s \in Terminal : Fan(s)' \subseteq Fan(s)
    BY <1>1, Zenon DEF Fan
  <1> QED
    BY <1>1, <1>3, <1>5, <1>6, FanFewer, Zenon
---------------------------------------------------------------------------
\* Crash and recovery

\* A fresh process has nothing in flight.
LEMMA FreshShape ==
    /\ Fresh \in [Procs -> CallType]
    /\ \A p \in Procs : Fresh[p].pc = IF p \in Drives THEN "off" ELSE "idle"
  <1>1. \A s \in {"off", "idle"} : Rest(s) \in CallType /\ Rest(s).pc = s
    BY RestShape DEF Steps
  <1>2. \A p \in Procs : Rest(IF p \in Drives THEN "off" ELSE "idle") \in {Rest("off"), Rest("idle")}
    BY Zenon
  <1>3. Fresh \in [Procs -> CallType]
    BY <1>1, <1>2, Zenon DEF Fresh
  <1>4. ASSUME NEW p \in Procs PROVE Fresh[p].pc = IF p \in Drives THEN "off" ELSE "idle"
    <2>1. Fresh[p] = Rest(IF p \in Drives THEN "off" ELSE "idle")
      BY Zenon DEF Fresh
    <2> QED
      BY <1>1, <2>1, Zenon
  <1> QED
    BY <1>3, <1>4, Zenon

\* A state whose calls are fresh: what the calls hold, and where the boot is.
LEMMA FreshFacts ==
    ASSUME call' = Fresh, up' \in {"up", "down"}, launched' => Begun'
    PROVE  /\ CallFacts' /\ BootFacts' /\ \A s \in Terminal : Fan(s)' = {}
  <1>1. call' \in [Procs -> CallType] /\ \A p \in Procs : call'[p].pc = IF p \in Drives THEN "off" ELSE "idle"
    BY FreshShape, Zenon
  <1>2. \A p \in Procs : call'[p].pc \in {"idle", "off"}
    BY <1>1, Zenon
  <1>3. \A p \in Procs : Held(call'[p]) /\ ~ Behind(call'[p])
    BY <1>2, Zenon DEF Held, Behind
  <1>4. \A d \in Drives : call'[d].pc = "off"
    BY <1>1, ConstantTypes, Zenon
  <1>5. CallFacts'
    BY <1>1, <1>3, <1>4, Zenon DEF CallFacts
  <1>6. call'["recovery"].pc = "idle"
    BY <1>1, ConstantTypes, Zenon
  <1>7. BootFacts'
    BY <1>2, <1>6, Zenon DEF BootFacts
  <1>8. \A s \in Terminal : Fan(s)' = {}
    BY <1>2, Zenon DEF Fan
  <1> QED
    BY <1>5, <1>7, <1>8, Zenon

\* The process dies, at any moment.
LEMMA WipeKeeps ==
    ASSUME Row, CallFacts, FanoutFollowsSave, Wipe
    PROVE  Row' /\ CallFacts' /\ FanoutFollowsSave' /\ BootFacts'
  <1>1. up' = "down" /\ call' = Fresh /\ run' = run /\ launched' = launched /\ owed' = owed
    BY Zenon DEF Wipe
  <1>2. Row'
    BY <1>1, Zenon DEF Row
  <1>3. launched' => Begun'
    BY <1>1, Zenon DEF CallFacts, Begun
  <1>4. CallFacts' /\ BootFacts' /\ \A s \in Terminal : Fan(s)' = {}
    BY <1>1, <1>3, FreshFacts, Zenon
  <1> QED
    BY <1>1, <1>2, <1>4, FanFewer, Zenon

\* The recovery pass begins from what the row says, and the process serves requests when it ends.
LEMMA BootKeeps ==
    ASSUME Row, CallFacts, BootFacts, FanoutFollowsSave, Boot \/ Booted
    PROVE  Row' /\ CallFacts' /\ FanoutFollowsSave' /\ BootFacts'
  <1>1. /\ run' = run /\ launched' = launched /\ owed' = owed
        /\ (up = "down" /\ up' = "booting") \/ (call["recovery"].pc = "booted" /\ up' = "up")
    BY Zenon DEF Boot, Booted
  <1>2. "recovery" \in Procs /\ "recovery" \notin Drives
    BY ConstantTypes, Zenon
  <1>3. up # "up"
    BY <1>1, Zenon DEF BootFacts
  <1>4. \A s \in {"reattach", "booted", "idle"} : Rest(s) \in CallType /\ Rest(s).pc = s
    BY RestShape DEF Steps
  <1> DEFINE c == Calling("failed", "boot")
  <1>5. c \in CallType /\ c.pc = "read" /\ c.target = "failed" /\ c.then = "boot"
    BY ReadShape, Zenon DEF RunStates, Terminal, Nexts
  <1>6. \/ call' = [call EXCEPT !["recovery"] = c] /\ run.state = "running" /\ up' = "booting"
        \/ call' = [call EXCEPT !["recovery"] = Rest("reattach")] /\ run.state = "paused" /\ up' = "booting"
        \/ call' = [call EXCEPT !["recovery"] = Rest("booted")] /\ run.state # "running" /\ up' = "booting"
        \/ call' = [call EXCEPT !["recovery"] = Rest("idle")] /\ up' = "up"
    BY Zenon DEF Boot, Booted, Transition
  <1> HIDE DEF c
  <1>7. PICK v \in CallType :
           /\ call' = [call EXCEPT !["recovery"] = v]
           /\ v.pc \in {"read", "reattach", "booted", "idle"} /\ (v.pc = "read" => v.target = "failed")
           /\ up' = "booting" => Recovering(v, run.state)
           /\ up' = "up" => v.pc = "idle"
    BY <1>4, <1>5, <1>6, Zenon DEF Recovering
  <1>8. Held(v) /\ ~ Behind(v)
    BY <1>7, Zenon DEF Held, Behind
  <1>9. Begun' <=> Begun
    BY <1>1, Zenon DEF Begun
  <1>10. CallFacts'
    BY <1>1, <1>2, <1>7, <1>8, <1>9, Moved, Zenon
  <1>11. \A s \in Terminal : Fan(s)' \subseteq Fan(s)
    BY <1>2, <1>7, FanMoved, Zenon
  <1>12. FanoutFollowsSave'
    BY <1>1, <1>11, FanFewer, Zenon
  <1>13. Row'
    BY <1>1, Zenon DEF Row
  <1>14. call'["recovery"] = v /\ \A p \in Procs \ {"recovery"} : call'[p] = call[p]
    BY <1>2, <1>7, Zenon DEF CallFacts
  <1>15. Recovering(v, run'.state) <=> Recovering(v, run.state)
    BY <1>1, Zenon DEF Recovering
  <1>16. BootFacts'
    BY <1>1, <1>3, <1>7, <1>14, <1>15, Zenon DEF BootFacts
  <1> QED
    BY <1>10, <1>12, <1>13, <1>16, Zenon

\* While requests are served the recovery pass rests; otherwise only it moves.
LEMMA WhoMoves ==
    ASSUME BootFacts, Row, NEW p \in Procs, call[p].pc \notin {"idle", "off"}
    PROVE  \/ p # "recovery" /\ up = "up"
           \/ p = "recovery" /\ up = "booting" /\ Recovering(call[p], run.state)
  BY Zenon DEF BootFacts, Row

\* A step of another process while requests are served leaves the recovery pass at rest.
LEMMA Served ==
    ASSUME BootFacts, up = "up", up' = up, call'["recovery"] = call["recovery"]
    PROVE  BootFacts'
  BY Zenon DEF BootFacts
\* The recovery pass, in transition: the run it saw running is failed before it goes on, and an
\* exception ends the boot.
LEMMA RecoveryMoves ==
    ASSUME Row, Memory, CallFacts, BootFacts, up = "booting", Recovering(call["recovery"], run.state), CallStep("recovery")
    PROVE  BootFacts'
  <1> DEFINE c == call["recovery"]
  <1>1. "recovery" \in Procs /\ c \in CallType
    BY ConstantTypes, Zenon DEF CallFacts
  <1>2. c.pc \in {"read", "save", "destroy", "effects", "reattach", "booted", "aborted"}
        /\ (c.pc \notin {"reattach", "booted", "aborted"} => c.target = "failed" /\ c.then = "boot")
        /\ (c.pc \in {"read", "save"} => run.state = "running")
        /\ (c.pc \in {"destroy", "effects"} => run.state = "failed")
    BY Zenon DEF Recovering
  <1>3. Read("recovery") \/ Save("recovery") \/ Destroy("recovery") \/ Effects("recovery")
    BY <1>2, Zenon DEF CallStep, Provision, Start, StartRaises, Resume, Redrive, Pause, Cancel
  <1>4. ASSUME NEW v \in CallType, call' = [call EXCEPT !["recovery"] = v], up' = up, Recovering(v, run'.state)
        PROVE  BootFacts'
    <2>1. call'["recovery"] = v /\ \A p \in Procs \ {"recovery"} : call'[p] = call[p]
      BY <1>1, <1>4, Zenon DEF CallFacts
    <2> QED
      BY <1>4, <2>1, Zenon DEF BootFacts
  <1>5. \A ok \in BOOLEAN : /\ Outcome("recovery", ok) \in CallType
                            /\ c.then = "boot" => Outcome("recovery", ok).pc = IF ok THEN "booted" ELSE "aborted"
    BY <1>1, OutcomeShape, Zenon
  <1>6. CASE Read("recovery")
    <2> DEFINE v == [c EXCEPT !.from = run.state, !.box = run.box, !.pc = "save"]
    <2>1. c.pc = "read" /\ up' = up /\ run' = run
      BY <1>6, Zenon DEF Read
    <2>2. can_transition(run.state, c.target)
      BY <1>2, <2>1, Zenon DEF can_transition, Edges, RunStates, Terminal
    <2>3. call' = [call EXCEPT !["recovery"] = v]
      BY <1>2, <1>6, <2>1, <2>2, Zenon DEF Read
    <2>4. run.state \in RunStates /\ run.box \in 0..MaxBoxes /\ "save" \in Steps
      BY Zenon DEF Row, RunType, Steps
    <2>5. v \in CallType
      BY <1>1, <2>4, FieldKept, Zenon
    <2>6. v.pc = "save" /\ v.target = c.target /\ v.then = c.then
      BY <1>1, Zenon DEF CallType
    <2> HIDE DEF v
    <2>7. Recovering(v, run'.state)
      BY <1>2, <2>1, <2>6, Zenon DEF Recovering
    <2> QED
      BY <1>4, <2>1, <2>3, <2>5, <2>7, Zenon
  <1>7. CASE Save("recovery")
    <2> DEFINE s == IF c.box # 0 THEN "destroy" ELSE "effects"
               v == [c EXCEPT !.pc = s]
    <2>1. c.pc = "save" /\ up' = up /\ run' = [run EXCEPT !.state = c.target, !.box = c.box]
      BY <1>7, Zenon DEF Save
    <2>2. c.target = "failed" /\ c.target \in Terminal
      BY <1>2, <2>1, Zenon DEF Terminal
    <2>3. call' = [call EXCEPT !["recovery"] = v]
      BY <1>7, <2>2, Zenon DEF Save
    <2>4. v \in CallType /\ v.pc \in {"destroy", "effects"} /\ v.target = c.target /\ v.then = c.then
      BY <1>1, Zenon DEF CallType, Steps
    <2>5. run'.state = "failed"
      BY <2>1, <2>2, Zenon DEF Row, RunType
    <2> HIDE DEF v
    <2>6. Recovering(v, run'.state)
      BY <1>2, <2>1, <2>4, <2>5, Zenon DEF Recovering
    <2> QED
      BY <1>4, <2>1, <2>3, <2>4, <2>6, Zenon
  <1>8. CASE Destroy("recovery")
    <2>1. c.pc = "destroy" /\ up' = up /\ run' = run
      BY <1>8, Zenon DEF Destroy
    <2>2. \/ call' = [call EXCEPT !["recovery"] = Outcome("recovery", FALSE)]
          \/ call' = [call EXCEPT !["recovery"] = [c EXCEPT !.pc = "effects"]]
      BY <1>8, Zenon DEF Destroy, Return
    <2>3. CASE call' = [call EXCEPT !["recovery"] = Outcome("recovery", FALSE)]
      <3>1. Outcome("recovery", FALSE) \in CallType /\ Outcome("recovery", FALSE).pc = "aborted"
        BY <1>2, <1>5, <2>1, Zenon
      <3>2. Recovering(Outcome("recovery", FALSE), run'.state)
        BY <3>1, <2>1, Zenon DEF Recovering
      <3> QED
        BY <1>4, <2>1, <2>3, <3>1, <3>2, Zenon
    <2>4. CASE call' = [call EXCEPT !["recovery"] = [c EXCEPT !.pc = "effects"]]
      <3> DEFINE v == [c EXCEPT !.pc = "effects"]
      <3>1. v \in CallType /\ v.pc = "effects" /\ v.target = c.target /\ v.then = c.then
        BY <1>1, Zenon DEF CallType, Steps
      <3>2. call' = [call EXCEPT !["recovery"] = v]
        BY <2>4, Zenon
      <3> HIDE DEF v
      <3>3. Recovering(v, run'.state)
        BY <1>2, <2>1, <3>1, Zenon DEF Recovering
      <3> QED
        BY <1>4, <2>1, <3>1, <3>2, <3>3, Zenon
    <2> QED
      BY <2>2, <2>3, <2>4, Zenon
  <1>9. CASE Effects("recovery")
    <2>1. /\ c.pc = "effects" /\ up' = up /\ run' = run
          /\ call' = [call EXCEPT !["recovery"] = Outcome("recovery", TRUE)]
      BY <1>9, Zenon DEF Effects, Return
    <2>2. Outcome("recovery", TRUE) \in CallType /\ Outcome("recovery", TRUE).pc = "booted"
      BY <1>2, <1>5, <2>1, Zenon
    <2>3. run'.state # "running"
      BY <1>2, <2>1, Zenon
    <2>4. Recovering(Outcome("recovery", TRUE), run'.state)
      BY <2>2, <2>3, Zenon DEF Recovering
    <2> QED
      BY <1>4, <2>1, <2>2, <2>4, Zenon
  <1> QED
    BY <1>3, <1>6, <1>7, <1>8, <1>9, Zenon
---------------------------------------------------------------------------
\* What is in memory keeps its type

\* The values the steps write
LEMMA MemoryParts ==
    ASSUME Memory
    PROVE  /\ [session EXCEPT !.owned = TRUE] \in SessionType
           /\ \A b \in BOOLEAN : [session EXCEPT !.redrive = b] \in SessionType
           /\ \A b \in BOOLEAN : \A k : [ctl EXCEPT ![k].paused = b] \in [Controls -> ControlType]
           /\ \A k : [ctl EXCEPT ![k].cancelled = TRUE] \in [Controls -> ControlType]
           /\ session.ctl \in 0..MaxControls
  <1>1. session \in SessionType /\ ctl \in [Controls -> ControlType]
    BY Zenon DEF Memory
  <1>2. [session EXCEPT !.owned = TRUE] \in SessionType /\ session.ctl \in 0..MaxControls
        /\ \A b \in BOOLEAN : [session EXCEPT !.redrive = b] \in SessionType
    BY <1>1, Zenon DEF SessionType
  <1>3. ASSUME NEW k, NEW b \in BOOLEAN
        PROVE  [ctl EXCEPT ![k].paused = b] \in [Controls -> ControlType]
               /\ [ctl EXCEPT ![k].cancelled = TRUE] \in [Controls -> ControlType]
    BY <1>1, Zenon DEF ControlType
  <1> QED
    BY <1>2, <1>3, Zenon

\* A new control is within the bound.
LEMMA NewControlType ==
    ASSUME Memory, NEW b \in BOOLEAN, NewControl(b)
    PROVE  session' \in SessionType /\ session.ctl + 1 \in 0..MaxControls
  <1>1. session.ctl + 1 \in 0..MaxControls
    BY ConstantTypes, MemoryParts DEF NewControl
  <1> QED
    BY <1>1, Zenon DEF NewControl, SessionType

\* The steps of a call.
LEMMA CallMemory ==
    ASSUME Memory, NEW p \in Procs, CallStep(p)
    PROVE  Memory'
  <1>a. /\ ctl \in [Controls -> ControlType] /\ session.ctl \in 0..MaxControls
        /\ \A b \in BOOLEAN : [ctl EXCEPT ![session.ctl].paused = b] \in [Controls -> ControlType]
        /\ [ctl EXCEPT ![session.ctl].cancelled = TRUE] \in [Controls -> ControlType]
    BY MemoryParts, Zenon DEF Memory
  <1>b. [session EXCEPT !.redrive = FALSE] \in SessionType
    BY MemoryParts, Zenon
  <1>1. CASE Read(p) \/ Save(p) \/ Effects(p)
    BY <1>1, Zenon DEF Read, Save, Effects, Memory, memory
  <1>2. CASE Provision(p) \/ Destroy(p)
    <2>1. /\ UNCHANGED <<session, ctl, ctlOf, ops, crashes>>
          /\ boxes' = boxes \/ \E b : \E s \in {"ready", "destroyed"} : boxes' = [boxes EXCEPT ![b] = s]
      BY <1>2, Zenon DEF Provision, Destroy, memory
    <2>2. boxes \in [Boxes -> BoxStatus] /\ {"ready", "destroyed"} \subseteq BoxStatus
      BY Zenon DEF Memory, BoxStatus
    <2>3. boxes' \in [Boxes -> BoxStatus]
      BY <2>1, <2>2, Zenon
    <2> QED
      BY <2>1, <2>3, Zenon DEF Memory
  <1>3. CASE Start(p)
    <2>1. NewControl(FALSE) /\ Launch(session.ctl + 1, p, Rest("idle"))
          /\ UNCHANGED <<ctl, boxes, ops, crashes>>
      BY <1>3, Zenon DEF Start
    <2>2. session' \in SessionType /\ session.ctl + 1 \in 0..MaxControls
      BY <2>1, NewControlType, Zenon
    <2>3. PICK d \in Drives : ctlOf' = [ctlOf EXCEPT ![d] = session.ctl + 1]
      BY <2>1, Zenon DEF Launch
    <2>4. ctlOf' \in [Drives -> 0..MaxControls]
      BY <2>2, <2>3, Zenon DEF Memory
    <2> QED
      BY <2>1, <2>2, <2>4, Zenon DEF Memory
  <1>4. CASE StartRaises(p)
    BY <1>4, MemoryParts, Zenon DEF StartRaises, Memory
  <1>5. CASE Redrive(p)
    <2>1. /\ session' = [session EXCEPT !.redrive = FALSE] /\ ctl' = [ctl EXCEPT ![session.ctl].paused = FALSE]
          /\ UNCHANGED <<boxes, ops, crashes>> /\ \E d \in Drives : ctlOf' = [ctlOf EXCEPT ![d] = session.ctl]
      BY <1>5, Zenon DEF Redrive, Launch
    <2>2. session' \in SessionType
      BY <1>b, <2>1, Zenon
    <2>3. ctl' \in [Controls -> ControlType]
      BY <1>a, <2>1, Zenon
    <2>4. ctlOf' \in [Drives -> 0..MaxControls]
      <3>1. PICK d \in Drives : ctlOf' = [ctlOf EXCEPT ![d] = session.ctl]
        BY <2>1, Zenon
      <3> QED
        BY <1>a, <3>1, Zenon DEF Memory
    <2> QED
      BY <2>1, <2>2, <2>3, <2>4, Zenon DEF Memory
  <1>6. CASE Resume(p) \/ Pause(p) \/ Cancel(p)
    <2>1. /\ UNCHANGED <<session, ctlOf, boxes, ops, crashes>>
          /\ \/ ctl' = ctl \/ ctl' = [ctl EXCEPT ![session.ctl].paused = FALSE]
             \/ ctl' = [ctl EXCEPT ![session.ctl].paused = TRUE] \/ ctl' = [ctl EXCEPT ![session.ctl].cancelled = TRUE]
      BY <1>6, Zenon DEF Resume, Pause, Cancel
    <2>2. ctl' \in [Controls -> ControlType]
      BY <1>a, <2>1, Zenon
    <2> QED
      BY <2>1, <2>2, Zenon DEF Memory
  <1> QED
    BY <1>1, <1>2, <1>3, <1>4, <1>5, <1>6, Zenon DEF CallStep

\* The other steps.
LEMMA OtherMemory ==
    ASSUME Memory,
           \/ Submit \/ Crash \/ Recovery
           \/ \E c \in Clients : NewRequest(c)
           \/ \E d \in Drives : DriveStep(d)
    PROVE  Memory'
  <1>1. ASSUME NEW c \in Clients, NewRequest(c) PROVE Memory'
    <2>1. Request(c)
      BY <1>1, Zenon DEF NewRequest, RequestStart, RequestPause, RequestResume, RequestStop, RequestDeny
    <2>2. ops < MaxOps /\ ops' = ops + 1 /\ UNCHANGED <<session, ctl, ctlOf, boxes, crashes>>
      BY <2>1, Zenon DEF Request, memory
    <2>3. ops' \in 0..MaxOps
      BY <2>2, ConstantTypes DEF Memory
    <2> QED
      BY <2>2, <2>3, Zenon DEF Memory
  <1>2. ASSUME NEW d \in Drives, DriveStep(d) PROVE Memory'
    <2>1. CASE Escalated(d)
      BY <1>2, <2>1, MemoryParts, Zenon DEF Escalated, Memory
    <2>2. CASE ~ Escalated(d)
      BY <1>2, <2>2, Zenon DEF DriveStep, Complete, Fail, Escalate, Checkpoint, CheckpointReturns, ReportUsage,
                               Worker, SaveUsage, Memory, memory
    <2> QED
      BY <2>1, <2>2, Zenon
  <1>3. ASSUME Wipe, crashes' \in 0..MaxCrashes PROVE Memory'
    <2>1. session' \in SessionType
      BY <1>3, ConstantTypes DEF Wipe, NoSession, SessionType
    <2>2. ctl' \in [Controls -> ControlType] /\ ctlOf' \in [Drives -> 0..MaxControls]
      BY <1>3, ConstantTypes DEF Wipe, ControlType
    <2>3. boxes' \in [Boxes -> BoxStatus]
      BY <1>3, Zenon DEF Wipe, BoxStatus
    <2>4. ops' = ops
      BY <1>3, Zenon DEF Wipe
    <2> QED
      BY <1>3, <2>1, <2>2, <2>3, <2>4, Zenon DEF Memory
  <1>4. CASE Crash
    <2>1. Wipe /\ crashes < MaxCrashes /\ crashes' = crashes + 1
      BY <1>4, Zenon DEF Crash
    <2>2. crashes' \in 0..MaxCrashes
      BY <2>1, ConstantTypes DEF Memory
    <2> QED
      BY <1>3, <2>1, <2>2, Zenon
  <1>5. CASE BootAborted
    BY <1>3, <1>5, Zenon DEF BootAborted, Memory
  <1>6. CASE Reattach
    <2>1. NewControl(TRUE) /\ UNCHANGED <<ctl, ctlOf, boxes, ops, crashes>>
      BY <1>6, Zenon DEF Reattach
    <2>2. session' \in SessionType
      BY <2>1, NewControlType, Zenon
    <2> QED
      BY <2>1, <2>2, Zenon DEF Memory
  <1>7. CASE Submit \/ Boot \/ ReattachRaises \/ Booted
    BY <1>7, Zenon DEF Submit, Boot, ReattachRaises, Booted, Memory, memory
  <1> QED
    BY <1>1, <1>2, <1>4, <1>5, <1>6, <1>7, Zenon DEF Recovery
---------------------------------------------------------------------------
\* The theorems

\* The invariant holds initially.
LEMMA InitIInv == Init => IInv
  <1> SUFFICES ASSUME Init PROVE IInv
    BY Zenon
  <1>1. Row
    <2>1. run \in RunType
      BY ConstantTypes DEF Init, RunType, RunStates
    <2>2. launched \in BOOLEAN
      BY Zenon DEF Init
    <2>3. up \in {"down", "booting", "up"} /\ owed \in [Terminal -> Nat]
      BY Zenon DEF Init
    <2> QED
      BY <2>1, <2>2, <2>3, Zenon DEF Row
  <1>2. Memory
    <2>1. session \in SessionType
      BY ConstantTypes DEF Init, NoSession, SessionType
    <2>2. ctl \in [Controls -> ControlType] /\ ctlOf \in [Drives -> 0..MaxControls]
      BY ConstantTypes DEF Init, ControlType
    <2>3. boxes \in [Boxes -> BoxStatus] /\ ops \in 0..MaxOps /\ crashes \in 0..MaxCrashes
      BY ConstantTypes DEF Init, BoxStatus
    <2> QED
      BY <2>1, <2>2, <2>3, Zenon DEF Memory
  <1>3. call = Fresh /\ up = "up" /\ ~ launched /\ owed = [s \in Terminal |-> 0]
    BY Zenon DEF Init
  <1>4. call \in [Procs -> CallType] /\ \A p \in Procs : call[p].pc = IF p \in Drives THEN "off" ELSE "idle"
    BY <1>3, FreshShape, Zenon
  <1>5. \A p \in Procs : Held(call[p]) /\ ~ Behind(call[p])
    BY <1>4, Zenon DEF Held, Behind
  <1>6. CallFacts
    BY <1>3, <1>4, <1>5, ConstantTypes, Zenon DEF CallFacts
  <1>7. BootFacts
    BY <1>3, <1>4, ConstantTypes, Zenon DEF BootFacts
  <1>8. FanoutFollowsSave
    <2>1. \A s \in Terminal : {p \in Procs : call[p].pc \in {"destroy", "effects"} /\ call[p].target = s} = {}
      BY <1>4, Zenon
    <2>2. Cardinality({}) = 0 /\ \A s \in Terminal : owed[s] = 0
      BY <1>3, FS_EmptySet, Zenon
    <2> QED
      BY <2>1, <2>2 DEF FanoutFollowsSave
  <1> QED
    BY <1>1, <1>2, <1>6, <1>7, <1>8, Zenon DEF IInv

\* Every step of a call keeps the invariant.
LEMMA CallKeeps ==
    ASSUME IInv, NEW p \in Procs, CallStep(p)
    PROVE  IInv'
  <1>1. Row /\ Memory /\ CallFacts /\ BootFacts /\ FanoutFollowsSave
    BY Zenon DEF IInv
  <1>2. Memory'
    BY <1>1, CallMemory, Zenon
  <1>3. call[p].pc \notin {"idle", "off"}
    BY Zenon DEF CallStep, Read, Provision, Save, Destroy, Effects, Start, StartRaises, Resume, Redrive, Pause, Cancel
  <1>4. PlainStep(p) \/ Save(p) \/ Effects(p) \/ Start(p) \/ Redrive(p)
    BY Zenon DEF CallStep, PlainStep
  <1>5. /\ Row' /\ CallFacts' /\ FanoutFollowsSave'
        /\ up' = up /\ (p # "recovery" => call'["recovery"] = call["recovery"])
    <2>1. ASSUME NEW v, call' = [call EXCEPT ![p] = v] PROVE p # "recovery" => call'["recovery"] = call["recovery"]
      BY <1>1, <2>1, ConstantTypes, Zenon DEF CallFacts
    <2>2. CASE PlainStep(p)
      <3>1. PICK v \in CallType : Plain(p, v)
        BY <1>1, <2>2, CallsPlain, Zenon
      <3>2. call' = [call EXCEPT ![p] = v] /\ up' = up
        BY <3>1, Zenon DEF Plain
      <3> QED
        BY <1>1, <2>1, <3>1, <3>2, PlainKeeps, Zenon
    <2>3. CASE Save(p)
      <3>1. up' = up
        BY <2>3, Zenon DEF Save
      <3>2. \A q \in Procs \ {p} : call'[q] = call[q]
        BY <1>1, <2>3, Zenon DEF Save, Return, CallFacts
      <3> QED
        BY <1>1, <2>3, <3>1, <3>2, SaveKeeps, ConstantTypes, Zenon
    <2>4. CASE Effects(p)
      <3>1. up' = up /\ call' = [call EXCEPT ![p] = Outcome(p, TRUE)]
        BY <2>4, Zenon DEF Effects, Return
      <3> QED
        BY <1>1, <2>1, <2>4, <3>1, EffectsKeeps, Zenon
    <2>5. CASE Start(p) \/ Redrive(p)
      BY <1>1, <2>5, LaunchKeeps, Zenon
    <2> QED
      BY <1>4, <2>2, <2>3, <2>4, <2>5, Zenon
  <1>6. BootFacts'
    <2>1. CASE p # "recovery" /\ up = "up"
      BY <1>1, <1>5, <2>1, Served, Zenon
    <2>2. CASE p = "recovery" /\ up = "booting" /\ Recovering(call[p], run.state)
      BY <1>1, <2>2, RecoveryMoves, Zenon
    <2> QED
      BY <1>1, <1>3, <2>1, <2>2, WhoMoves, Zenon
  <1> QED
    BY <1>2, <1>5, <1>6, Zenon DEF IInv
\* Every step keeps the invariant.
LEMMA StepIInv == IInv /\ [Next]_vars => IInv'
  <1> SUFFICES ASSUME IInv, [Next]_vars PROVE IInv'
    BY Zenon
  <1>1. Row /\ Memory /\ CallFacts /\ BootFacts /\ FanoutFollowsSave
    BY Zenon DEF IInv
  <1>2. ASSUME NEW p \in Procs, CallStep(p) PROVE IInv'
    BY <1>2, CallKeeps, Zenon
  <1>3. ASSUME NEW p \in Procs \ {"recovery"}, NEW v \in CallType, Plain(p, v), up = "up"
        PROVE  Row' /\ CallFacts' /\ FanoutFollowsSave' /\ BootFacts'
    <2>1. call' = [call EXCEPT ![p] = v] /\ up' = up
      BY <1>3, Zenon DEF Plain
    <2>2. call'["recovery"] = call["recovery"]
      BY <1>1, <2>1, ConstantTypes, Zenon DEF CallFacts
    <2> QED
      BY <1>1, <1>3, <2>1, <2>2, PlainKeeps, Served, Zenon
  <1>4. ASSUME NEW c \in Clients, NewRequest(c) PROVE IInv'
    <2>1. Memory'
      BY <1>1, <1>4, OtherMemory, Zenon
    <2>2. c \in Procs \ {"recovery"} /\ up = "up" /\ \E v \in CallType : Plain(c, v)
      BY <1>1, <1>4, RequestsPlain, ConstantTypes, Zenon
    <2> QED
      BY <1>3, <2>1, <2>2, Zenon DEF IInv
  <1>5. ASSUME NEW d \in Drives, DriveStep(d) PROVE IInv'
    <2>1. Memory'
      BY <1>1, <1>5, OtherMemory, Zenon
    <2>2. d \in Procs /\ d # "recovery"
      BY ConstantTypes, Zenon
    <2>3. CASE Working(d)
      <3>1. (\E v \in CallType : Plain(d, v)) /\ call[d].pc \notin {"idle", "off"}
        BY <1>1, <2>3, WorkPlain, Zenon
      <3>2. up = "up"
        BY <1>1, <2>2, <3>1, WhoMoves, Zenon
      <3> QED
        BY <1>3, <2>1, <2>2, <3>1, <3>2, Zenon DEF IInv
    <2>4. CASE SaveUsage(d)
      <3>1. /\ Row' /\ CallFacts' /\ FanoutFollowsSave'
            /\ call[d].pc = "usage" /\ up' = up /\ call'["recovery"] = call["recovery"]
        BY <1>1, <2>4, UsageKeeps, Zenon
      <3>2. up = "up"
        BY <1>1, <2>2, <3>1, WhoMoves, Zenon
      <3> QED
        BY <1>1, <2>1, <3>1, <3>2, Served, Zenon DEF IInv
    <2> QED
      BY <1>5, <2>3, <2>4, Zenon DEF DriveStep, Working
  <1>6. CASE Submit
    <2>1. Memory'
      BY <1>1, <1>6, OtherMemory, Zenon
    <2>2. Row' /\ CallFacts' /\ FanoutFollowsSave' /\ up = "up" /\ up' = up /\ call' = call
      BY <1>1, <1>6, SubmitKeeps, Zenon
    <2> QED
      BY <1>1, <2>1, <2>2, Served, Zenon DEF IInv
  <1>7. CASE Crash \/ BootAborted
    <2>1. Memory'
      BY <1>1, <1>7, OtherMemory, Zenon DEF Recovery
    <2>2. Wipe
      BY <1>7, Zenon DEF Crash, BootAborted
    <2> QED
      BY <1>1, <2>1, <2>2, WipeKeeps, Zenon DEF IInv
  <1>8. CASE Boot \/ Booted
    <2>1. Memory'
      BY <1>1, <1>8, OtherMemory, Zenon DEF Recovery
    <2> QED
      BY <1>1, <1>8, <2>1, BootKeeps, Zenon DEF IInv
  <1>9. CASE Reattach \/ ReattachRaises
    <2>1. Memory'
      BY <1>1, <1>9, OtherMemory, Zenon DEF Recovery
    <2>2. PICK v \in CallType : Plain("recovery", v) /\ v.pc \in {"booted", "aborted"}
      BY <1>1, <1>9, ReattachPlain, Zenon
    <2>3. call["recovery"].pc = "reattach" /\ "recovery" \in Procs
      BY <1>1, <1>9, ReattachPlain, ConstantTypes, Zenon
    <2>4. up = "booting" /\ run.state = "paused"
      BY <1>1, <2>3, Zenon DEF BootFacts, Row, Recovering
    <2>5. Row' /\ CallFacts' /\ FanoutFollowsSave'
      BY <1>1, <2>2, <2>3, PlainKeeps, Zenon
    <2>6. call' = [call EXCEPT !["recovery"] = v] /\ up' = up /\ run' = run
      BY <2>2, Zenon DEF Plain
    <2>7. call'["recovery"] = v /\ \A p \in Procs \ {"recovery"} : call'[p] = call[p]
      BY <1>1, <2>3, <2>6, Zenon DEF CallFacts
    <2>8. BootFacts'
      BY <1>1, <2>2, <2>4, <2>6, <2>7, Zenon DEF BootFacts, Recovering
    <2> QED
      BY <2>1, <2>5, <2>8, Zenon DEF IInv
  <1>10. CASE UNCHANGED vars
    <2>1. UNCHANGED <<run, up, call, session, ctl, ctlOf, boxes, ops, crashes, launched, owed>>
      BY <1>10, Zenon DEF vars
    <2>2. Row' /\ Memory'
      BY <1>1, <2>1, Zenon DEF Row, Memory
    <2>3. CallFacts'
      BY <1>1, <2>1, Zenon DEF CallFacts, Begun
    <2>4. BootFacts' /\ FanoutFollowsSave'
      BY <1>1, <2>1, Zenon DEF BootFacts, FanoutFollowsSave
    <2> QED
      BY <2>2, <2>3, <2>4, Zenon DEF IInv
  <1> QED
    BY <1>2, <1>4, <1>5, <1>6, <1>7, <1>8, <1>9, <1>10, Zenon DEF Next, Recovery

\* The inductive invariant: between any two steps of any processes, and across any crashes, the
\* calls hold what the code at their point has established.
THEOREM Inductive == Spec => []IInv
  BY InitIInv, StepIInv, PTL DEF Spec

\* Type correctness of the run, the calls, the sessions and the history.
THEOREM TypeCorrect == Spec => []TypeOK
  <1>1. IInv => TypeOK
    BY Zenon DEF IInv, Row, Memory, CallFacts, TypeOK, RunType, CallType, Steps, Nexts, SessionType, ControlType, BoxStatus
  <1> QED
    BY <1>1, Inductive, PTL

\* Once a worker thread has been spawned the row is never absent or queued again, whatever stale
\* copies of it are saved and however often the process dies.
THEOREM StartPersists == Spec => []StartedIsPersisted
  <1>1. IInv => StartedIsPersisted
    BY Zenon DEF IInv, CallFacts, Begun, StartedIsPersisted
  <1> QED
    BY <1>1, Inductive, PTL

\* No terminal state is fanned out more often than it was saved.
THEOREM FanoutSafe == Spec => []FanoutFollowsSave
  <1>1. IInv => FanoutFollowsSave
    BY Zenon DEF IInv
  <1> QED
    BY <1>1, Inductive, PTL

\* A run is never running when a restarted process begins to serve requests.
THEOREM BootReconciles == Spec => RecoveryReconciles
  <1>1. IInv /\ [Next]_vars => [up # "up" /\ up' = "up" => run'.state # "running"]_vars
    <2> SUFFICES ASSUME IInv, [Next]_vars, up # "up", up' = "up" PROVE run'.state # "running"
      BY Zenon DEF vars
    <2>1. Row /\ CallFacts /\ BootFacts
      BY Zenon DEF IInv
    <2>2. Booted
      <3>1. ASSUME NEW p \in Procs, CallStep(p) PROVE up' = up
        BY <3>1, Zenon DEF CallStep, Read, Provision, Save, Destroy, Effects, Start, StartRaises, Resume, Redrive, Pause, Cancel
      <3>2. ASSUME NEW d \in Drives, DriveStep(d) PROVE up' = up
        BY <3>2, Zenon DEF DriveStep, Complete, Fail, Escalate, Escalated, Checkpoint, CheckpointReturns, ReportUsage,
                           Worker, SaveUsage
      <3>3. ASSUME NEW c \in Clients, NewRequest(c) PROVE up = "up"
        BY <2>1, <3>3, RequestsPlain, Zenon
      <3>4. ~ Submit /\ ~ Crash /\ ~ Boot /\ ~ Reattach /\ ~ ReattachRaises /\ ~ BootAborted
        BY Zenon DEF Submit, Crash, Boot, Reattach, ReattachRaises, BootAborted, Wipe
      <3>5. ~ UNCHANGED vars
        BY Zenon DEF vars
      <3> QED
        BY <3>1, <3>2, <3>3, <3>4, <3>5, Zenon DEF Next, Recovery
    <2>3. call["recovery"].pc = "booted" /\ run' = run
      BY <2>2, Zenon DEF Booted
    <2> QED
      BY <2>1, <2>3, Zenon DEF BootFacts, Row, Recovering
  <1> QED
    BY <1>1, Inductive, PTL DEF Spec, RecoveryReconciles

\* From the crash to the end of the boot a terminal row stays as it is.
THEOREM BootKeepsTerminal == Spec => RecoveryKeepsTerminal
  <1>1. IInv /\ [Next]_vars => [up # "up" /\ run.state \in Terminal => run' = run]_vars
    <2> SUFFICES ASSUME IInv, [Next]_vars, up # "up", run.state \in Terminal PROVE run' = run
      BY Zenon DEF vars
    <2>1. Row /\ CallFacts /\ BootFacts
      BY Zenon DEF IInv
    <2>2. ASSUME NEW p \in Procs, CallStep(p) PROVE run' = run
      <3>1. CASE Save(p)
        <4>1. call[p].pc = "save"
          BY <3>1, Zenon DEF Save
        <4>2. Recovering(call[p], run.state)
          BY <2>1, <4>1, WhoMoves, Zenon
        <4> QED
          BY <4>1, <4>2, Zenon DEF Recovering, Terminal
      <3>2. CASE ~ Save(p)
        BY <2>2, <3>2, Zenon DEF CallStep, Read, Provision, Destroy, Effects, Start, StartRaises, Resume, Redrive, Pause, Cancel
      <3> QED
        BY <3>1, <3>2, Zenon
    <2>3. ASSUME NEW d \in Drives, DriveStep(d) PROVE run' = run
      <3>1. CASE SaveUsage(d)
        <4>1. call[d].pc = "usage" /\ d \in Procs /\ d # "recovery"
          BY <3>1, ConstantTypes, Zenon DEF SaveUsage
        <4> QED
          BY <2>1, <4>1, WhoMoves, Zenon
      <3>2. CASE ~ SaveUsage(d)
        BY <2>3, <3>2, Zenon DEF DriveStep, Complete, Fail, Escalate, Escalated, Checkpoint, CheckpointReturns, ReportUsage, Worker
      <3> QED
        BY <3>1, <3>2, Zenon
    <2>4. ASSUME NEW c \in Clients, NewRequest(c) PROVE up = "up"
      BY <2>1, <2>4, RequestsPlain, Zenon
    <2>5. Crash \/ Recovery => run' = run
      BY Zenon DEF Crash, Recovery, Boot, Reattach, ReattachRaises, Booted, BootAborted, Wipe
    <2>6. ~ Submit /\ (UNCHANGED vars => run' = run)
      BY Zenon DEF Submit, vars
    <2> QED
      BY <2>2, <2>3, <2>4, <2>5, <2>6, Zenon DEF Next
  <1> QED
    BY <1>1, Inductive, PTL DEF Spec, RecoveryKeepsTerminal
===========================================================================
