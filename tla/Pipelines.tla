----------------------------- MODULE Pipelines -----------------------------
(***************************************************************************)
(* One pipeline run of pipelines/engine.py, with the child runs and the    *)
(* approvals of its nodes.  advance is entered by the ticker of a replica  *)
(* and by requests (submit, retry_node), which run on other threads and    *)
(* take no lock: each works on its own copy of the header and of the node  *)
(* rows and saves whole rows.  A step is one access to the store.          *)
(*                                                                         *)
(* Costs are abstracted: whether a budget is exhausted is a choice, made   *)
(* where the code compares; so is whether a handoff validates.  Of the     *)
(* context, the set of nodes that published an output is kept.             *)
(***************************************************************************)
EXTENDS Naturals, Sequences, FiniteSets

CONSTANTS
    Tickers, Requests, \* threads that drive the pipeline
    Specs,             \* [nodes, kind, deps, order, attempts, failFast, budget]
    Width,             \* items of a fan-out
    MaxChildren, MaxAsks, MaxRetries, MaxRefusals, MaxCrashes

ASSUME PipelinesAssumption ==
    {Width, MaxChildren, MaxAsks, MaxRetries, MaxRefusals, MaxCrashes} \subseteq Nat

VARIABLES
    spec,
    header,            \* PipelineRunHeader: state ("exhausted" is FAILED by the budget)
                       \* and the nodes whose output its context holds
    rows,              \* the latest PipelineNodeRun of each node
    child,             \* the child runs
    asks,              \* the approvals requested
    drv,               \* the call of each driver
    abandoned,         \* history: children left alone in one of the ways named below
    broken,            \* history: a save went over a row changed since it was read,
                       \* or a call ended before it saved the header
    retries, refusals, crashes

vars == <<spec, header, rows, child, asks, drv, abandoned, broken, retries, refusals, crashes>>
bounds == <<retries, refusals, crashes>>

Drivers == Tickers \cup Requests
Nodes == UNION {s.nodes : s \in Specs}
Terminal == {"completed", "failed", "exhausted"}
Done == {"completed", "failed", "skipped"}

\* kids: child_run_id, or the children of the instances; seen: instances with a result
NoRow == [attempt |-> 0, status |-> "none", kids |-> <<>>, seen |-> {}, ask |-> 0]
Fresh == [NoRow EXCEPT !.attempt = 1, !.status = "pending"]

NoHeader == [state |-> "none", outputs |-> {}]
Idle == [pc |-> "idle", hdr |-> NoHeader, base |-> NoHeader, nodes |-> [n \in Nodes |-> NoRow],
         todo |-> <<>>, kids |-> <<>>, aside |-> {}, changed |-> FALSE]

Kids(row) == {row.kids[i] : i \in 1..Len(row.kids)}
LiveIn(set) == {k \in set : child[k].state = "live"}
Ended(set) == {k \in set : child[k].state \in {"completed", "failed"}}

\* submit saves the header and advances.
Init ==
    /\ spec \in Specs
    /\ header = [state |-> "running", outputs |-> {}]
    /\ rows = [n \in Nodes |-> NoRow]
    /\ child = [k \in 1..MaxChildren |-> [state |-> "none", node |-> "none"]]
    /\ asks = <<>>
    /\ \E r \in Requests : drv = [x \in Drivers |-> IF x = r THEN [Idle EXCEPT !.pc = "begin"] ELSE Idle]
    /\ abandoned = {} /\ broken = FALSE
    /\ retries = 0 /\ refusals = 0 /\ crashes = 0

---------------------------------------------------------------------------
Set(x, d) == drv' = [drv EXCEPT ![x] = d]

\* save_node_run: a row of an earlier attempt is not the latest.
SaveRow(x, n, row) ==
    /\ rows' = IF row.attempt >= rows[n].attempt THEN [rows EXCEPT ![n] = row] ELSE rows
    /\ broken' = (broken \/ drv[x].nodes[n] # rows[n])

\* The copy of the rows is old.  A skip put aside, in an earlier attempt, left the latest pending.
Stale(x) ==
    \E n \in spec.nodes :
        IF n \in drv[x].aside THEN rows[n].status # "pending" ELSE drv[x].nodes[n] # rows[n]

SaveHeader(x, state) ==
    /\ header' = [drv[x].hdr EXCEPT !.state = state]
    /\ broken' = (broken \/ header # drv[x].base \/ Stale(x))

\* The call ends without saving: an exception or a crash.
Unwind(x) ==
    /\ Set(x, Idle)
    /\ abandoned' = abandoned \cup {drv[x].kids[i] : i \in 1..Len(drv[x].kids)}
    /\ broken' = (broken \/ drv[x].pc = "retry" \/ (drv[x].pc # "begin" /\ drv[x].hdr # header))

\* _publish, for the kinds that do
Published(n, row, outputs) ==
    IF row.status = "completed" /\ spec.kind[n] \in {"workload", "approval", "fan_out", "fan_in"}
    THEN outputs \cup {n} ELSE outputs

\* What follows n in a sequence of nodes
After(seq, n) == LET i == CHOOSE i \in 1..Len(seq) : seq[i] = n IN SubSeq(seq, i + 1, Len(seq))

\* The copy of n is replaced and the loop moves on.
Replace(x, n, row, changed) ==
    Set(x, [drv[x] EXCEPT !.nodes[n] = row, !.todo = After(@, n), !.kids = <<>>,
                          !.hdr.outputs = Published(n, row, @),
                          !.pc = IF @ = "submitted" THEN "visit" ELSE @,
                          !.aside = IF row.attempt < drv[x].nodes[n].attempt THEN @ \cup {n} ELSE @,
                          !.changed = @ \/ changed])

Pass(x) == Set(x, [drv[x] EXCEPT !.todo = Tail(@)])

\* _failed: another attempt while there are some left
Failed(n, row) ==
    IF row.attempt < spec.attempts[n]
    THEN [row EXCEPT !.attempt = @ + 1, !.status = "pending",
                     !.kids = IF spec.kind[n] = "fan_out" THEN @ ELSE <<>>]
    ELSE [row EXCEPT !.status = "failed"]

\* _finish and _fan_out_result: the row once the results of the children in set are read,
\* the row itself when there are none.  A fan-out fails with its first instance.
Finish(n, row, set, valid) ==
    LET seen == row.seen \cup set
        states == {child[k].state : k \in seen}
    IN
    IF spec.kind[n] = "fan_out"
    THEN [row EXCEPT !.seen = seen,
                     !.status = IF "failed" \in states THEN "failed"
                                ELSE IF seen = Kids(row) THEN "completed"
                                ELSE "running"]
    ELSE IF set = {} THEN [row EXCEPT !.status = "running"]
    ELSE IF "completed" \in states /\ valid THEN [row EXCEPT !.status = "completed"]
    ELSE Failed(n, row)

---------------------------------------------------------------------------
\* advance

\* advance_pending
Tick(x) ==
    /\ x \in Tickers /\ drv[x].pc = "idle" /\ header.state \notin Terminal
    /\ Set(x, [Idle EXCEPT !.pc = "read", !.hdr = header, !.base = header])
    /\ UNCHANGED <<spec, header, rows, child, asks, abandoned, broken, bounds>>

\* The call of a request
Begin(x) ==
    /\ drv[x].pc = "begin"
    /\ Set(x, IF header.state \in Terminal THEN Idle
              ELSE [Idle EXCEPT !.pc = "read", !.hdr = header, !.base = header])
    /\ UNCHANGED <<spec, header, rows, child, asks, abandoned, broken, bounds>>

\* An iteration starts with the latest rows, and with those that are running.
ReadNodes(x) ==
    /\ drv[x].pc = "read"
    /\ Set(x, [drv[x] EXCEPT !.pc = "reconcile", !.nodes = rows, !.aside = {}, !.changed = FALSE,
                  !.todo = SelectSeq(spec.order, LAMBDA n : rows[n].status = "running")])
    /\ UNCHANGED <<spec, header, rows, child, asks, abandoned, broken, bounds>>

Reconcile(x, valid) ==
    LET n == Head(drv[x].todo)
        row == drv[x].nodes[n]
        new == Finish(n, row, Ended(Kids(row)), valid)
    IN
    /\ drv[x].pc = "reconcile" /\ drv[x].todo # <<>>
    /\ IF new = row
       THEN Pass(x) /\ UNCHANGED <<rows, broken, abandoned>>
       ELSE /\ SaveRow(x, n, new)
            /\ Replace(x, n, new, TRUE)
            /\ abandoned' = IF new.status = "running" THEN abandoned
                            ELSE abandoned \cup LiveIn(Kids(row))
    /\ UNCHANGED <<spec, header, child, asks, bounds>>

\* _budget_exceeded: the run is paused; else the nodes are visited in topological order.
CheckBudget(x, exceeded) ==
    /\ drv[x].pc = "reconcile" /\ drv[x].todo = <<>>
    /\ exceeded => spec.budget # "none"
    /\ IF exceeded
       THEN SaveHeader(x, "paused") /\ Set(x, Idle)
       ELSE /\ Set(x, [drv[x] EXCEPT !.pc = "visit",
                          !.todo = SelectSeq(spec.order, LAMBDA n : spec.kind[n] # "template")])
            /\ UNCHANGED <<header, broken>>
    /\ UNCHANGED <<spec, rows, child, asks, abandoned, bounds>>

DepStates(x, n) == {drv[x].nodes[m].status : m \in spec.deps[n]}

Open(x, n) == drv[x].nodes[n].status \notin Done \cup {"running"}
DepFailed(x, n) == DepStates(x, n) \cap {"failed", "skipped"} # {}
DepsComplete(x, n) == DepStates(x, n) \subseteq {"completed"}

\* What is left to visit, without the nodes that are done, running or wait for others
Todo(x) == SelectSeq(drv[x].todo, LAMBDA n : Open(x, n) /\ (DepFailed(x, n) \/ DepsComplete(x, n)))
Visiting(x, n) == drv[x].pc = "visit" /\ Todo(x) # <<>> /\ n = Head(Todo(x))
Ready(x, n) == Visiting(x, n) /\ DepsComplete(x, n)
\* A dependency failed: the skip is a row of the first attempt.
VisitSkip(x, n) ==
    LET skip == [Fresh EXCEPT !.status = "skipped"] IN
    /\ Visiting(x, n) /\ DepFailed(x, n)
    /\ SaveRow(x, n, skip) /\ Replace(x, n, skip, TRUE)
    /\ UNCHANGED <<spec, header, child, asks, abandoned, bounds>>

\* The projected cost does not fit.  Failing the pipeline leaves its children alone.
Exhaust(x, n) ==
    /\ Ready(x, n) /\ spec.budget # "none"
    /\ SaveHeader(x, IF spec.budget = "pause" THEN "paused" ELSE "exhausted")
    /\ abandoned' = IF spec.budget = "pause" THEN abandoned
                    ELSE abandoned \cup UNION {LiveIn(Kids(drv[x].nodes[m])) : m \in spec.nodes}
    /\ Set(x, Idle)
    /\ UNCHANGED <<spec, rows, child, asks, bounds>>

---------------------------------------------------------------------------
\* _start

\* The current row, or a new one
Current(x, n) == IF drv[x].nodes[n] = NoRow THEN Fresh ELSE drv[x].nodes[n]

Start(x, n, row) == SaveRow(x, n, row) /\ Replace(x, n, row, TRUE)

\* A transform completes; _fan_in fails when an output it reduces is missing.
Inline(x, n) ==
    LET ok == spec.kind[n] = "transform" \/ spec.deps[n] \subseteq drv[x].hdr.outputs IN
    /\ Ready(x, n) /\ spec.kind[n] \in {"transform", "fan_in"}
    /\ Start(x, n, [Current(x, n) EXCEPT !.status = IF ok THEN "completed" ELSE "failed"])
    /\ UNCHANGED <<spec, header, child, asks, abandoned, bounds>>

\* _gate, on a row without an approval
GateAsk(x, n) ==
    LET row == Current(x, n) IN
    /\ Ready(x, n) /\ spec.kind[n] \in {"approval", "gate"} /\ row.ask = 0
    /\ Len(asks) < MaxAsks
    /\ asks' = Append(asks, [node |-> n, state |-> "pending"])
    /\ Start(x, n, [row EXCEPT !.status = "waiting", !.ask = Len(asks) + 1])
    /\ UNCHANGED <<spec, header, child, abandoned, bounds>>

\* _gate, on an approval that is pending or denied, or granted to a gate
GateAnswer(x, n) ==
    LET row == Current(x, n)
        answer == asks[row.ask].state
    IN
    /\ Ready(x, n) /\ spec.kind[n] \in {"approval", "gate"} /\ row.ask # 0
    /\ answer = "approved" => spec.kind[n] = "gate"
    /\ Start(x, n, [row EXCEPT !.status = CASE answer = "pending" -> @
                                            [] answer = "denied" -> "failed"
                                            [] answer = "approved" -> "completed"])
    /\ UNCHANGED <<spec, header, child, asks, abandoned, bounds>>

\* Mutation of Cleared: the granted approval stays on the row.
ClearedKeeps(row) == row

\* An approved node runs once: its row forgets the approval.
Cleared(row) == [row EXCEPT !.ask = 0]

Launches(x, n) ==
    /\ Ready(x, n)
    /\ \/ spec.kind[n] \in {"workload", "fan_out"}
       \/ spec.kind[n] = "approval" /\ Current(x, n).ask # 0 /\ asks[Current(x, n).ask].state = "approved"

\* The inputs do not map or do not validate.
Handoff(x, n) ==
    /\ Launches(x, n)
    /\ Start(x, n, Failed(n, Cleared(Current(x, n))))
    /\ UNCHANGED <<spec, header, child, asks, abandoned, bounds>>

Unused == {k \in 1..MaxChildren : child[k].state = "none"}

\* Mutation of Missing: only the first item of a fan-out gets a child.
MissingOne(x, n) == 1

\* The children n still needs: a fan-out that was reset has its instances
Missing(x, n) ==
    IF spec.kind[n] # "fan_out" THEN 1
    ELSE IF Current(x, n).kids = <<>> THEN Width ELSE 0

\* _workload and _fan_out are about to submit a child of n.
Submitting(x, n) ==
    /\ Len(drv[x].kids) < Missing(x, n)
    /\ Launches(x, n) \/ (drv[x].pc = "submit" /\ n = Head(drv[x].todo))

\* executor.submit
Submit(x, n) ==
    LET k == CHOOSE k \in Unused : \A j \in Unused : k <= j IN
    /\ Submitting(x, n) /\ Unused # {}
    /\ child' = [child EXCEPT ![k] = [state |-> "live", node |-> n]]
    /\ Set(x, [drv[x] EXCEPT !.kids = Append(@, k), !.todo = <<n>> \o After(@, n),
                             !.pc = IF Len(drv[x].kids) + 1 < Missing(x, n) THEN "submit" ELSE "submitted"])
    /\ UNCHANGED <<spec, header, rows, asks, abandoned, broken, bounds>>

\* The run service refuses the child: the exception leaves advance.
Refuse(x, n) ==
    /\ Submitting(x, n) /\ refusals < MaxRefusals
    /\ refusals' = refusals + 1
    /\ Unwind(x)
    /\ UNCHANGED <<spec, header, rows, child, asks, retries, crashes>>

\* The children are recorded, with the results already there (set).
Started(x, n, set, valid) ==
    LET row == Cleared(Current(x, n))
        running == [row EXCEPT !.status = "running",
                               !.kids = IF drv[x].kids = <<>> THEN @ ELSE drv[x].kids]
        new == Finish(n, running, set, valid)
    IN
    /\ \/ drv[x].pc = "submitted" /\ n = Head(drv[x].todo)
       \/ Launches(x, n) /\ Missing(x, n) = 0
    /\ set \subseteq Kids(running)
    /\ Start(x, n, new)
    /\ abandoned' = IF new.status = "running" THEN abandoned ELSE abandoned \cup LiveIn(Kids(running))
    /\ UNCHANGED <<spec, header, child, asks, bounds>>

---------------------------------------------------------------------------
\* The end of an iteration

\* _fails_fast, of a copy of the rows
FailsFast(nodes) == \E n \in spec.nodes : nodes[n].status = "failed" /\ n \in spec.failFast

BeginCancel(x) ==
    /\ drv[x].pc = "visit" /\ Todo(x) = <<>> /\ FailsFast(drv[x].nodes)
    /\ Set(x, [drv[x] EXCEPT !.pc = "cancel",
                  !.todo = SelectSeq(spec.order, LAMBDA n : drv[x].nodes[n].status \notin Done)])
    /\ UNCHANGED <<spec, header, rows, child, asks, abandoned, broken, bounds>>

\* Mutation of Cancelled: the child runs on.
CancelledNot(k) == UNCHANGED child

\* executor.cancel
Cancelled(k) == child' = [child EXCEPT ![k].state = "failed"]

\* _skip_after_fail_fast, one node: its child is cancelled (the instances of a fan-out are
\* not), and cancelling a child that ended raises.
SkipAfterFailFast(x) ==
    LET n == Head(drv[x].todo)
        row == drv[x].nodes[n]
        skipped == [Current(x, n) EXCEPT !.status = "skipped"]
        cancels == row.status = "running" /\ spec.kind[n] # "fan_out"
    IN
    /\ drv[x].pc = "cancel" /\ drv[x].todo # <<>>
    /\ \/ /\ cancels /\ Ended(Kids(row)) # {}
          /\ Unwind(x) /\ UNCHANGED <<rows, child>>
       \/ /\ cancels => Ended(Kids(row)) = {}
          /\ IF cancels THEN Cancelled(row.kids[1]) ELSE UNCHANGED child
          /\ SaveRow(x, n, skipped) /\ Replace(x, n, skipped, FALSE)
          /\ abandoned' = IF spec.kind[n] = "fan_out" THEN abandoned \cup LiveIn(Kids(row)) ELSE abandoned
    /\ UNCHANGED <<spec, header, asks, bounds>>

Required == {n \in spec.nodes : spec.kind[n] # "template"}

\* Mutation of Settled: a failure ends the pipeline at once.
SettledAtOnce(nodes) == TRUE

\* Mutation of Settled: a skipped node is not done.
SettledUnskipped(nodes) == \A n \in spec.nodes : nodes[n].status \in {"completed", "failed"}

\* Nothing can make progress: every required node, and every node with a row, is done.
Settled(nodes) == \A n \in spec.nodes : nodes[n].status \in Done \/ (n \notin Required /\ nodes[n] = NoRow)

\* _derive_state
DeriveState(nodes) ==
    IF \E n \in spec.nodes : nodes[n].status = "waiting" THEN "paused"
    ELSE IF \A n \in Required : nodes[n].status = "completed" THEN "completed"
    ELSE IF (\E n \in spec.nodes : nodes[n].status \in {"failed", "skipped"}) /\ Settled(nodes) THEN "failed"
    ELSE "running"

\* The header is saved, and the loop goes on while something changed, for at most
\* _MAX_ITERATIONS.
Derive(x, last) ==
    LET state == DeriveState(drv[x].nodes)
        changed == drv[x].changed \/ state # drv[x].hdr.state
        saved == [drv[x].hdr EXCEPT !.state = state]
    IN
    /\ \/ drv[x].pc = "visit" /\ Todo(x) = <<>> /\ ~ FailsFast(drv[x].nodes)
       \/ drv[x].pc = "cancel" /\ drv[x].todo = <<>>
    /\ SaveHeader(x, state)
    /\ Set(x, IF last \/ ~ changed \/ state \in Terminal THEN Idle
              ELSE [Idle EXCEPT !.pc = "read", !.hdr = saved, !.base = saved])
    /\ UNCHANGED <<spec, rows, child, asks, abandoned, bounds>>

---------------------------------------------------------------------------
\* retry_node, of any node with a row

RetryBegin(x, n) ==
    /\ x \in Requests /\ drv[x].pc = "idle" /\ retries < MaxRetries
    /\ rows[n] # NoRow
    /\ retries' = retries + 1
    /\ Set(x, [Idle EXCEPT !.pc = "retry", !.hdr = header, !.base = header, !.nodes = rows,
                  !.todo = <<n>> \o SelectSeq(spec.order, LAMBDA m : m # n /\ rows[m].status = "skipped"),
                  !.changed = TRUE])
    /\ UNCHANGED <<spec, header, rows, child, asks, abandoned, broken, refusals, crashes>>

\* The node gets an empty row, and the skipped ones (changed is FALSE from then on) another
\* attempt that keeps their approval and their instances.  The child of a node that runs
\* is left alone.
RetrySave(x) ==
    LET n == Head(drv[x].todo)
        row == drv[x].nodes[n]
        next == row.attempt + 1
    IN
    /\ drv[x].pc = "retry" /\ drv[x].todo # <<>>
    /\ SaveRow(x, n, IF drv[x].changed THEN [Fresh EXCEPT !.attempt = next]
                     ELSE [row EXCEPT !.attempt = next, !.status = "pending",
                                      !.kids = IF spec.kind[n] = "fan_out" THEN @ ELSE <<>>])
    /\ abandoned' = abandoned \cup LiveIn(Kids(row))
    /\ Set(x, [drv[x] EXCEPT !.nodes[n] = rows'[n], !.todo = Tail(@), !.changed = FALSE])
    /\ UNCHANGED <<spec, header, child, asks, bounds>>

\* The header is saved as running, and advance reads it again.
RetryOpen(x) ==
    /\ drv[x].pc = "retry" /\ drv[x].todo = <<>>
    /\ SaveHeader(x, "running")
    /\ Set(x, [Idle EXCEPT !.pc = "begin"])
    /\ UNCHANGED <<spec, rows, child, asks, abandoned, bounds>>

---------------------------------------------------------------------------
\* The environment

\* A child run ends on its own (RunLifecycle).
ChildEnds(k, state) ==
    /\ child[k].state = "live"
    /\ child' = [child EXCEPT ![k].state = state]
    /\ UNCHANGED <<spec, header, rows, asks, drv, abandoned, broken, bounds>>

Decide(i, answer) ==
    /\ asks[i].state = "pending"
    /\ asks' = [asks EXCEPT ![i].state = answer]
    /\ UNCHANGED <<spec, header, rows, child, drv, abandoned, broken, bounds>>

Crash(x) ==
    /\ drv[x].pc # "idle" /\ crashes < MaxCrashes
    /\ crashes' = crashes + 1
    /\ Unwind(x)
    /\ UNCHANGED <<spec, header, rows, child, asks, retries, refusals>>

\* The node the loop is at
At(x) ==
    CASE drv[x].pc = "visit" -> {n \in spec.nodes : Visiting(x, n)}
      [] drv[x].pc \in {"submit", "submitted"} -> {Head(drv[x].todo)}
      [] OTHER -> {}

Advance(x) ==
    \/ Tick(x) \/ Begin(x) \/ ReadNodes(x)
    \/ \E v \in BOOLEAN : Reconcile(x, v) \/ CheckBudget(x, v) \/ Derive(x, v)
    \/ \E n \in At(x) :
          \/ VisitSkip(x, n) \/ Exhaust(x, n) \/ Inline(x, n) \/ GateAsk(x, n) \/ GateAnswer(x, n)
          \/ Handoff(x, n) \/ Submit(x, n) \/ Refuse(x, n)
          \/ \E set \in SUBSET Ended(1..MaxChildren), v \in BOOLEAN : Started(x, n, set, v)
    \/ BeginCancel(x) \/ SkipAfterFailFast(x)

Next ==
    \/ \E x \in Drivers : Advance(x) \/ Crash(x) \/ RetrySave(x) \/ RetryOpen(x)
    \/ \E x \in Drivers, n \in spec.nodes : RetryBegin(x, n)
    \/ \E k \in 1..MaxChildren, s \in {"completed", "failed"} : ChildEnds(k, s)
    \/ \E i \in 1..Len(asks), a \in {"approved", "denied"} : Decide(i, a)

Spec == Init /\ [][Next]_vars

\* The tickers run and child runs end (one after the other: there are finitely many);
\* people may never answer.
FairSpec ==
    /\ Spec
    /\ \A x \in Tickers : WF_vars(Advance(x))
    /\ WF_vars(\E k \in 1..MaxChildren, s \in {"completed", "failed"} : ChildEnds(k, s))

---------------------------------------------------------------------------
RowType == [attempt : Nat, status : Done \cup {"none", "pending", "running", "waiting"},
            kids : Seq(1..MaxChildren), seen : SUBSET (1..MaxChildren), ask : 0..MaxAsks]
HeaderType == [state : Terminal \cup {"none", "running", "paused"}, outputs : SUBSET Nodes]

\* Every row is of a status it can have: a running node has its children, a waiting one its
\* approval, one per required instance (pipelines/models.py, PipelineNodeRun).
TypeOK ==
    /\ spec \in Specs
    /\ header \in HeaderType /\ header.state # "none"
    /\ \A n \in Nodes :
          /\ rows[n] \in RowType
          /\ rows[n].status = "running" =>
                Len(rows[n].kids) = IF spec.kind[n] = "fan_out" THEN Width ELSE 1
          /\ rows[n].status = "waiting" => rows[n].ask \in 1..Len(asks)
          /\ rows[n].seen \subseteq Kids(rows[n])
    /\ child \in [1..MaxChildren -> [state : {"none", "live", "completed", "failed"},
                                     node : Nodes \cup {"none"}]]
    /\ abandoned \subseteq 1..MaxChildren
    /\ broken \in BOOLEAN

Quiet == \A x \in Drivers : drv[x].pc = "idle"
Held == UNION {{drv[x].kids[i] : i \in 1..Len(drv[x].kids)} : x \in Drivers}

\* A live child belongs to a running node, or to the call about to record it, unless it was
\* left alone in one of the named ways or two calls went over each other: nothing else makes
\* advance forget a child.
NoOrphan ==
    ~ broken =>
        \A k \in LiveIn(1..MaxChildren) \ (abandoned \cup Held) :
            \E n \in spec.nodes : rows[n].status = "running" /\ k \in Kids(rows[n])

\* "A failure only terminates the pipeline once nothing independent can still make
\* progress": between calls, a completed pipeline completed its nodes, a failed one has none
\* running or waiting, and the context holds the outputs of the completed nodes.
HeaderAgrees ==
    Quiet /\ ~ broken =>
        /\ header.state = "completed" => \A n \in Required : rows[n].status = "completed"
        /\ header.state = "failed" => \A n \in Required : rows[n].status \notin {"running", "waiting"}
        /\ \A n \in Required : rows[n].status = "completed" =>
              n \in header.outputs \/ spec.kind[n] \in {"gate", "transform"}

\* A granted approval lets its node run once: a node that requires approval has no more
\* children than approvals granted, leaving out those no row ever recorded.
ApprovedOnce ==
    Quiet /\ ~ broken =>
        \A n \in Required : spec.kind[n] = "approval" =>
            Cardinality({k \in 1..MaxChildren \ abandoned : child[k].node = n})
                <= Cardinality({i \in 1..Len(asks) : asks[i].node = n /\ asks[i].state = "approved"})

\* A template that was skipped and then reset is never visited again: a failure with the
\* continue policy then leaves the pipeline running.
TemplateReset == \E n \in spec.nodes : spec.kind[n] = "template" /\ rows[n].status = "pending"

\* Someone is asked; a node that was reset then leaves the pipeline running, not paused.
Asking == \E n \in spec.nodes : rows[n].ask # 0 /\ asks[rows[n].ask].state = "pending"

\* A call is where the bounds of the model stop it.
Starved ==
    \E x \in Drivers : \E n \in At(x) :
        \/ Submitting(x, n) /\ Unused = {}
        \/ Ready(x, n) /\ spec.kind[n] \in {"approval", "gate"} /\ Current(x, n).ask = 0 /\ Len(asks) = MaxAsks

\* A running pipeline ends, is paused or waits for someone, as long as the ticker runs and
\* its children end (advance_pending).
Settles == header.state = "running" ~> (header.state # "running" \/ Asking \/ TemplateReset \/ Starved)
===========================================================================
