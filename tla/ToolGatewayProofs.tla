------------------------- MODULE ToolGatewayProofs -------------------------
(***************************************************************************)
(* The invariants of ToolGateway for any number of drives, requests,       *)
(* operators and tools.                                                    *)
(*                                                                         *)
(* The inductive invariant says of the calls what they hold (a pick, a     *)
(* probe), of the operators what they have read, and of the history how    *)
(* the set of consumed approvals accounts for the calls let through.       *)
(***************************************************************************)
EXTENDS ToolGateway, FiniteSetTheorems, TLAPS

RunState == Terminal \cup {"running", "paused"}
Status == {"pending", "approved", "denied"}
AskType == [tool : Escalating, status : Status]
CallPc == {"none", "ready", "breaker", "policy", "consume", "pause", "ask", "execute", "unwind"}
CallType ==
    [pc : CallPc, pos : Nat, tool : Tools \cup {"none"}, run : RunState \cup {"none"}, pick : Nat,
     probe : BOOLEAN]
OpType ==
    [pc : {"idle", "read", "save", "apply"}, id : Nat, copy : Status \cup {"none"},
     set : {"none", "approved", "denied"}]
BreakerType == [state : BreakerState, outcomes : Seq(BOOLEAN), opened : Nat]

\* What the steps share, but for calls and requests of operators
World ==
    /\ script \in Scripts /\ run \in RunState
    /\ asks \in Seq(AskType) /\ consumed \subseteq 1..Len(asks)
    /\ now \in Nat
    /\ breaker \in BreakerType /\ Len(breaker.outcomes) <= Window /\ breaker.opened <= now
    /\ drives \in 1..MaxDrives
    /\ done \in [Tools -> Nat]
    /\ overlap \in BOOLEAN /\ torn \in BOOLEAN /\ strayed \in BOOLEAN

\* A call past the policy is for a tool that escalates, and one at "consume" has an approval of
\* that tool; a probe is carried by a call the breaker let through.
Held(v) ==
    /\ v.pc \in {"consume", "pause", "ask"} => v.tool \in Escalating
    /\ v.pc = "consume" => v.pick \in 1..Len(asks) /\ asks[v.pick].tool = v.tool
    /\ v.probe => v.pc \in {"policy", "execute", "consume", "pause", "ask"}

\* Drives that have not started make no calls.
CallFacts ==
    /\ call \in [Callers -> CallType]
    /\ \A c \in Callers : Held(call[c])
    /\ \A d \in 1..MaxDrives : d > drives => call[d].pc = "none"

\* An operator works on an approval there is, and decides a copy that was pending.
OpFacts ==
    /\ op \in [Operators -> OpType]
    /\ \A o \in Operators :
          /\ op[o].pc # "idle" => op[o].id \in 1..Len(asks)
          /\ op[o].pc = "save" => op[o].copy \in Status
          /\ op[o].pc = "save" /\ op[o].set # "none" => op[o].copy = "pending"

\* The consumed approvals of a tool are the calls let through; they are approved, and the one
\* call about to consume has picked another.
Covered ==
    /\ \A t \in Tools : done[t] = Cardinality({i \in consumed : asks[i].tool = t})
    /\ \A i \in consumed : asks[i].status = "approved"
    /\ \A c, d \in Callers : call[c].pc = "consume" /\ call[d].pc = "consume" => c = d
    /\ \A c \in Callers :
          call[c].pc = "consume" => call[c].pick \notin consumed /\ asks[call[c].pick].status = "approved"

Accounted == overlap \/ torn \/ Covered

\* A denial has ended the run or is about to.
Denials ==
    torn \/ run \in Terminal \/ (\E o \in Operators : op[o].pc = "apply" /\ op[o].set = "denied")
         \/ \A i \in 1..Len(asks) : asks[i].status # "denied"

Types == World /\ CallFacts /\ OpFacts
IInv == Types /\ Accounted /\ Denials /\ ProbeHeld

---------------------------------------------------------------------------
\* The shapes of records

\* The bounds are numbers, drives are not requests, and what escalates is a tool.
LEMMA ConstantTypes ==
    /\ MaxDrives \in Nat /\ MaxDrives >= 1 /\ Escalating \subseteq Tools
    /\ \A d \in 1..MaxDrives : d \notin Requests /\ d \in Callers
    /\ Window \in Nat /\ Window >= 1 /\ OpenFor \in Nat
  <1>1. MaxDrives \in Nat /\ OpenFor \in Nat
    BY GatewayAssumption, BreakerAssumption, Zenon
  <1> QED
    BY <1>1, GatewayAssumption, BreakerAssumption DEF Callers

\* A caller that makes no call, a drive at its start, and an operator that is idle.
LEMMA RecordTypes ==
    /\ NoCall \in CallType /\ NoOp \in OpType /\ NewBreaker \in BreakerType
    /\ \A p \in Nat : [NoCall EXCEPT !.pc = "ready", !.pos = p] \in CallType
    /\ [NoCall EXCEPT !.pc = "unwind"] \in CallType
  <1>1. NoCall \in CallType
    BY Zenon DEF NoCall, CallType, CallPc
  <1>2. NoOp \in OpType
    BY Zenon DEF NoOp, OpType
  <1>3. NewBreaker \in BreakerType
    BY DEF NewBreaker, BreakerType, BreakerState
  <1>4. \A p \in Nat : [NoCall EXCEPT !.pc = "ready", !.pos = p] \in CallType
    BY Zenon DEF NoCall, CallType, CallPc
  <1>5. [NoCall EXCEPT !.pc = "unwind"] \in CallType
    BY Zenon DEF NoCall, CallType, CallPc
  <1> QED
    BY <1>1, <1>2, <1>3, <1>4, <1>5, Zenon

\* A call with a field replaced by a value of the field's type is a call.
LEMMA FieldKept ==
    ASSUME NEW n \in CallType
    PROVE  /\ \A v \in CallPc : [n EXCEPT !.pc = v] \in CallType
           /\ \A v \in Tools : [n EXCEPT !.tool = v] \in CallType
           /\ \A v \in RunState : [n EXCEPT !.run = v] \in CallType
           /\ \A v \in Nat : [n EXCEPT !.pick = v] \in CallType
           /\ \A v \in BOOLEAN : [n EXCEPT !.probe = v] \in CallType
  BY Zenon DEF CallType

\* allow keeps the outcomes and the time of opening, and opens half way only an open breaker.
LEMMA AllowShape ==
    ASSUME NEW b \in BreakerType, NEW t \in Nat
    PROVE  /\ AfterAllow(b, t) \in BreakerType
           /\ AfterAllow(b, t).outcomes = b.outcomes /\ AfterAllow(b, t).opened = b.opened
           /\ AfterAllow(b, t).state = "half_open" =>
                 \/ b.state = "half_open" /\ ~ Allows(b, t)
                 \/ b.state = "open" /\ Allows(b, t)
  BY Zenon DEF AfterAllow, Allows, BreakerType, BreakerState

\* record keeps at most Window outcomes, and leaves no breaker half open.
LEMMA RecordShape ==
    ASSUME NEW b \in BreakerType, NEW s \in BOOLEAN, NEW t \in Nat, Len(b.outcomes) <= Window, b.opened <= t
    PROVE  /\ AfterRecord(b, s, t) \in BreakerType
           /\ Len(AfterRecord(b, s, t).outcomes) <= Window /\ AfterRecord(b, s, t).opened <= t
           /\ AfterRecord(b, s, t).state # "half_open"
  <1> DEFINE all == Append(b.outcomes, s)
             kept == Trimmed(all)
  <1>1. all \in Seq(BOOLEAN) /\ Len(all) = Len(b.outcomes) + 1 /\ Len(all) \in Nat
    BY DEF BreakerType
  <1>2. kept \in Seq(BOOLEAN) /\ Len(kept) <= Window
    <2> HIDE DEF all
    <2>1. CASE Len(all) > Window
      <3>1. Len(all) - Window + 1 \in 1..(Len(all) + 1) /\ Len(all) - Window + 1 <= Len(all)
        BY <1>1, <2>1, ConstantTypes
      <3>2. kept = SubSeq(all, Len(all) - Window + 1, Len(all))
        BY <2>1, Zenon DEF Trimmed
      <3>3. kept \in Seq(BOOLEAN) /\ Len(kept) = Window
        BY <1>1, <3>1, <3>2, ConstantTypes
      <3> QED
        BY <3>3, ConstantTypes
    <2>2. CASE ~ (Len(all) > Window)
      BY <1>1, <2>2, ConstantTypes DEF Trimmed
    <2> QED
      BY <2>1, <2>2, Zenon
  <1> HIDE DEF kept
  <1>3. AfterRecord(b, s, t) =
            IF b.state = "half_open"
            THEN IF s THEN NewBreaker ELSE [state |-> "open", outcomes |-> <<>>, opened |-> t]
            ELSE IF Trips(kept) THEN [state |-> "open", outcomes |-> kept, opened |-> t]
            ELSE [b EXCEPT !.outcomes = kept]
    BY Zenon DEF AfterRecord, kept
  <1>4. \A o \in Seq(BOOLEAN) : [state |-> "open", outcomes |-> o, opened |-> t] \in BreakerType
    BY Zenon DEF BreakerType, BreakerState
  <1>5. [b EXCEPT !.outcomes = kept] \in BreakerType
    BY <1>2, Zenon DEF BreakerType
  <1>6. <<>> \in Seq(BOOLEAN) /\ Len(<<>>) <= Window
    BY ConstantTypes
  <1>7. CASE b.state = "half_open" /\ s
    <2>1. AfterRecord(b, s, t) = NewBreaker
      BY <1>3, <1>7, Zenon
    <2>2. NewBreaker.state # "half_open" /\ NewBreaker.outcomes = <<>> /\ NewBreaker.opened <= t
      BY DEF NewBreaker
    <2> QED
      BY <1>6, <2>1, <2>2, RecordTypes, Zenon
  <1>8. CASE b.state = "half_open" /\ ~ s
    <2>1. AfterRecord(b, s, t) = [state |-> "open", outcomes |-> <<>>, opened |-> t]
      BY <1>3, <1>8, Zenon
    <2>2. AfterRecord(b, s, t) \in BreakerType
      BY <1>4, <1>6, <2>1, Zenon
    <2>3. /\ AfterRecord(b, s, t).state = "open" /\ AfterRecord(b, s, t).outcomes = <<>>
          /\ AfterRecord(b, s, t).opened = t /\ t <= t
      BY <2>1
    <2> QED
      BY <1>6, <2>2, <2>3, Zenon
  <1>9. CASE b.state # "half_open" /\ Trips(kept)
    BY <1>2, <1>3, <1>4, <1>9
  <1>10. CASE b.state # "half_open" /\ ~ Trips(kept)
    BY <1>2, <1>3, <1>5, <1>10, Zenon DEF BreakerType
  <1> QED
    BY <1>7, <1>8, <1>9, <1>10, Zenon

---------------------------------------------------------------------------
\* The steps of callers

\* What a step of a caller other than Lookup does to its call: the call does not come to
\* "consume", and a probe it carries is kept, reported or counted as strayed.
Moved(c, v) ==
    /\ call' = [call EXCEPT ![c] = v]
    /\ v.pc # "consume"
    /\ v.pc \in {"pause", "ask"} => v.tool \in Escalating
    /\ v.probe => v.pc \in {"policy", "execute", "pause", "ask"}
    /\ c \in Requests \/ call[c].pc # "none"
    /\ call[c].probe => v.probe \/ strayed' \/ breaker'.state # "half_open"
    /\ breaker'.state = "half_open" => breaker.state = "half_open" \/ v.probe

\* The steps of a caller but Lookup and the two that write to approvals
CallStep(c) ==
    \/ \E t \in Tools : Invoke(c, t)
    \/ Refuse(c) \/ CheckBreaker(c) \/ TurnAway(c) \/ Allow(c) \/ Pause(c) \/ Unwind(c) \/ Complete(c)
    \/ \E success, clean \in BOOLEAN : Execute(c, success, clean)

\* A call that goes on within invoke.
LEMMA ToMoves ==
    ASSUME CallFacts, NEW c \in Callers, NEW p \in {"execute", "ask"}, To(c, p),
           call[c].pc # "none", p = "ask" => call[c].tool \in Escalating, UNCHANGED breaker
    PROVE  Moved(c, [call[c] EXCEPT !.pc = p]) /\ [call[c] EXCEPT !.pc = p] \in CallType
  <1>1. call[c] \in CallType
    BY Zenon DEF CallFacts
  <1>2. /\ [call[c] EXCEPT !.pc = p].pc = p /\ [call[c] EXCEPT !.pc = p].tool = call[c].tool
        /\ [call[c] EXCEPT !.pc = p].probe = call[c].probe
    BY <1>1, Zenon DEF CallType
  <1>3. call' = [call EXCEPT ![c] = [call[c] EXCEPT !.pc = p]]
    BY Zenon DEF To
  <1>4. p \in CallPc
    BY Zenon DEF CallPc
  <1>5. [call[c] EXCEPT !.pc = p] \in CallType
    BY <1>1, <1>4, FieldKept, Zenon
  <1> QED
    BY <1>2, <1>3, <1>5, Zenon DEF Moved

\* A call that is over: the probe it carried has strayed, or the breaker is not half open.
LEMMA EndMoves ==
    ASSUME CallFacts, NEW c \in Callers, call[c].pc # "none",
           NEW v \in {NoCall, [NoCall EXCEPT !.pc = "unwind"], Answered(c)}, call' = [call EXCEPT ![c] = v],
           call[c].probe => strayed' \/ breaker'.state # "half_open",
           breaker'.state = "half_open" => breaker.state = "half_open"
    PROVE  v \in CallType /\ Moved(c, v)
  <1>1. call[c].pos + 1 \in Nat
    BY DEF CallFacts, CallType
  <1>2. v \in CallType
    BY <1>1, RecordTypes, Zenon DEF Answered
  <1>3. v.pc \in {"none", "unwind", "ready"} /\ v.probe = FALSE
    <2>1. CASE v = Answered(c)
      <3>1. \A p \in Nat : LET w == [NoCall EXCEPT !.pc = "ready", !.pos = p]
                           IN  w.pc = "ready" /\ w.probe = FALSE
        BY Zenon DEF NoCall
      <3>2. NoCall.pc = "none" /\ NoCall.probe = FALSE
        BY Zenon DEF NoCall
      <3>3. v = NoCall \/ \E p \in Nat : v = [NoCall EXCEPT !.pc = "ready", !.pos = p]
        BY <1>1, <2>1, Zenon DEF Answered
      <3> QED
        BY <3>1, <3>2, <3>3, Zenon
    <2>2. CASE v # Answered(c)
      BY <2>2 DEF NoCall
    <2> QED
      BY <2>1, <2>2, Zenon
  <1> QED
    BY <1>2, <1>3, Zenon DEF Moved

\* Each of these steps moves its call.
LEMMA CallMoves ==
    ASSUME World, CallFacts, NEW c \in Callers, CallStep(c)
    PROVE  \E v \in CallType : Moved(c, v)
  <1>a. call[c] \in CallType /\ Held(call[c]) /\ breaker \in BreakerType /\ now \in Nat /\ run \in RunState
    BY Zenon DEF World, CallFacts
  <1>1. ASSUME NEW t \in Tools, Invoke(c, t) PROVE \E v \in CallType : Moved(c, v)
    <2> DEFINE v == [call[c] EXCEPT !.pc = "breaker", !.tool = t, !.run = run]
    <2>1. v \in CallType
      BY <1>a, FieldKept, Zenon DEF CallPc
    <2>2. v.pc = "breaker" /\ v.probe = call[c].probe
      BY <1>a, Zenon DEF CallType
    <2>3. /\ call' = [call EXCEPT ![c] = v] /\ UNCHANGED breaker
          /\ call[c].pc \in {"none", "ready"} /\ (c \in Requests \/ call[c].pc # "none")
      BY <1>1, Zenon DEF Invoke
    <2>4. ~ call[c].probe
      BY <1>a, <2>3, Zenon DEF Held
    <2> HIDE DEF v
    <2>5. Moved(c, v)
      BY <2>2, <2>3, <2>4, Zenon DEF Moved
    <2> QED
      BY <2>1, <2>5, Zenon
  <1>2. ASSUME Refuse(c) PROVE \E v \in CallType : Moved(c, v)
    <2>1. call[c].pc = "breaker" /\ call' = [call EXCEPT ![c] = NoCall] /\ UNCHANGED breaker
      BY <1>2, Zenon DEF Refuse, Denied
    <2> QED
      BY <1>a, <2>1, EndMoves, Zenon DEF Held
  <1>3. ASSUME CheckBreaker(c) PROVE \E v \in CallType : Moved(c, v)
    <2>1. call[c].pc = "breaker" /\ breaker' = AfterAllow(breaker, now) /\ ~ call[c].probe
      BY <1>3, <1>a, Zenon DEF CheckBreaker, Held
    <2>2. CASE Allows(breaker, now)
      <3> DEFINE q == (breaker.state = "open")
                 v == [call[c] EXCEPT !.pc = "policy", !.probe = q]
      <3>1. v \in CallType
        <4>1. q \in BOOLEAN
          BY Zenon
        <4> HIDE DEF q
        <4> QED
          BY <1>a, <4>1, FieldKept, Zenon DEF CallPc
      <3>2. v.pc = "policy" /\ v.probe = q
        BY <1>a, Zenon DEF CallType
      <3>3. call' = [call EXCEPT ![c] = v]
        BY <1>3, <2>2, Zenon DEF CheckBreaker
      <3>4. breaker'.state = "half_open" => q
        BY <1>a, <2>1, <2>2, AllowShape, Zenon
      <3> HIDE DEF v, q
      <3>5. Moved(c, v)
        BY <2>1, <3>2, <3>3, <3>4, Zenon DEF Moved
      <3> QED
        BY <3>1, <3>5, Zenon
    <2>3. CASE ~ Allows(breaker, now)
      <3>1. call' = [call EXCEPT ![c] = NoCall]
        BY <1>3, <2>3, Zenon DEF CheckBreaker, Denied
      <3>2. breaker'.state = "half_open" => breaker.state = "half_open"
        BY <1>a, <2>1, <2>3, AllowShape, Zenon
      <3> QED
        BY <2>1, <3>1, <3>2, EndMoves, Zenon
    <2> QED
      BY <2>2, <2>3, Zenon
  <1>4. ASSUME TurnAway(c) PROVE \E v \in CallType : Moved(c, v)
    <2>1. /\ call[c].pc # "none" /\ call' = [call EXCEPT ![c] = NoCall] /\ UNCHANGED breaker
          /\ call[c].probe => strayed'
      BY <1>4, Zenon DEF TurnAway, Denied
    <2> QED
      BY <2>1, EndMoves, Zenon
  <1>5. ASSUME Allow(c) PROVE \E v \in CallType : Moved(c, v)
    <2>1. call[c].pc # "none" /\ To(c, "execute") /\ UNCHANGED breaker
      BY <1>5, Zenon DEF Allow
    <2> QED
      BY <2>1, ToMoves, Zenon
  <1>6. ASSUME Pause(c) PROVE \E v \in CallType : Moved(c, v)
    <2>1. call[c].pc = "pause" /\ call[c].tool \in Escalating /\ UNCHANGED breaker
      BY <1>6, <1>a, Zenon DEF Pause, Held
    <2>2. \/ To(c, "ask")
          \/ call' = [call EXCEPT ![c] = NoCall] /\ (call[c].probe => strayed')
      BY <1>6, Zenon DEF Pause, Denied
    <2> QED
      BY <2>1, <2>2, EndMoves, ToMoves, Zenon
  <1>7. ASSUME Unwind(c) \/ Complete(c) PROVE \E v \in CallType : Moved(c, v)
    <2>1. /\ call[c].pc \in {"unwind", "ready"} /\ UNCHANGED breaker
          /\ call' = [call EXCEPT ![c] = NoCall]
      BY <1>7, Zenon DEF Unwind, Complete
    <2> QED
      BY <1>a, <2>1, EndMoves, Zenon DEF Held
  <1>8. ASSUME NEW s \in BOOLEAN, NEW k \in BOOLEAN, Execute(c, s, k) PROVE \E v \in CallType : Moved(c, v)
    <2>1. call[c].pc # "none" /\ breaker' = AfterRecord(breaker, s, now)
      BY <1>8, Zenon DEF Execute
    <2>2. breaker'.state # "half_open"
      BY <1>a, <2>1, RecordShape, Zenon DEF World
    <2>3. PICK v \in {NoCall, Answered(c)} : call' = [call EXCEPT ![c] = v]
      BY <1>8, Zenon DEF Execute, Denied
    <2> QED
      BY <2>1, <2>2, <2>3, EndMoves, Zenon
  <1> QED
    BY <1>1, <1>2, <1>3, <1>4, <1>5, <1>6, <1>7, <1>8, Zenon DEF CallStep

\* Approvals are added, and keep their tool.
AsksGrow ==
    /\ Len(asks) <= Len(asks') /\ Len(asks) \in Nat /\ Len(asks') \in Nat
    /\ \A i \in 1..Len(asks) : asks'[i].tool = asks[i].tool

\* No call comes to "consume".
Quiet == \A d \in Callers : call'[d].pc = "consume" => call'[d] = call[d]

\* Approvals that are left alone
LEMMA AsksSame ==
    ASSUME World, UNCHANGED asks
    PROVE  AsksGrow
  <1>1. Len(asks) \in Nat
    BY DEF World
  <1> QED
    BY <1>1 DEF AsksGrow

\* A call that moved leaves the calls in order.
LEMMA MovedFacts ==
    ASSUME CallFacts, NEW c \in Callers, NEW v \in CallType, Moved(c, v), AsksGrow, UNCHANGED drives
    PROVE  CallFacts' /\ Quiet
  <1>1. /\ call' \in [Callers -> CallType] /\ call'[c] = v
        /\ \A d \in Callers : d # c => call'[d] = call[d]
    BY Zenon DEF CallFacts, Moved
  <1>2. Quiet
    BY <1>1, Zenon DEF Quiet, Moved
  <1>3. ASSUME NEW d \in Callers PROVE Held(call[d])'
    <2>1. CASE d = c
      BY <1>1, <2>1, Zenon DEF Held, Moved
    <2>2. CASE d # c
      <3>1. Held(call[d]) /\ call'[d] = call[d]
        BY <1>1, <2>2, Zenon DEF CallFacts
      <3>2. call[d].pc = "consume" => call[d].pick \in 1..Len(asks') /\ asks'[call[d].pick].tool = call[d].tool
        BY <3>1 DEF Held, AsksGrow
      <3> QED
        BY <3>1, <3>2, Zenon DEF Held
    <2> QED
      BY <2>1, <2>2, Zenon
  <1>4. ASSUME NEW d \in 1..MaxDrives, d > drives PROVE call'[d].pc = "none"
    <2>1. d \in Callers /\ d \notin Requests /\ call[d].pc = "none"
      BY <1>4, ConstantTypes, Zenon DEF CallFacts
    <2>2. d # c
      BY <2>1, Zenon DEF Moved
    <2> QED
      BY <1>1, <2>1, <2>2, Zenon
  <1> QED
    BY <1>1, <1>2, <1>3, <1>4, Zenon DEF CallFacts

\* So do calls that did not change.
LEMMA StillFacts ==
    ASSUME CallFacts, UNCHANGED call, AsksGrow, UNCHANGED drives
    PROVE  CallFacts' /\ Quiet
  <1>1. ASSUME NEW d \in Callers PROVE Held(call[d])'
    <2>1. Held(call[d])
      BY Zenon DEF CallFacts
    <2>2. call[d].pc = "consume" => call[d].pick \in 1..Len(asks') /\ asks'[call[d].pick].tool = call[d].tool
      BY <2>1 DEF Held, AsksGrow
    <2> QED
      BY <2>1, <2>2, Zenon DEF Held
  <1> QED
    BY <1>1, Zenon DEF CallFacts, Quiet

\* Operators whose approvals grow
LEMMA StillOps ==
    ASSUME OpFacts, UNCHANGED op, AsksGrow
    PROVE  OpFacts'
  BY DEF OpFacts, AsksGrow

\* One operator moves on.
LEMMA OpMoves ==
    ASSUME OpFacts, NEW o \in Operators, NEW v \in OpType, SetOp(o, v), AsksGrow,
           v.pc # "idle" => v.id \in 1..Len(asks),
           v.pc = "save" => v.copy \in Status,
           v.pc = "save" /\ v.set # "none" => v.copy = "pending"
    PROVE  OpFacts'
  <1>1. /\ op' \in [Operators -> OpType] /\ op'[o] = v
        /\ \A p \in Operators : p # o => op'[p] = op[p]
    BY Zenon DEF OpFacts, SetOp
  <1>2. 1..Len(asks) \subseteq 1..Len(asks')
    BY DEF AsksGrow
  <1> QED
    BY <1>1, <1>2, Zenon DEF OpFacts

\* What a step of a caller leaves alone
CallRest == UNCHANGED <<script, asks, consumed, now, drives, op, done, overlap, torn>>

\* These steps leave approvals and history alone, never revive a run, and forget no strayed probe.
LEMMA CallEffect ==
    ASSUME World, NEW c \in Callers, CallStep(c)
    PROVE  /\ CallRest /\ World'
           /\ run \in Terminal => run' \in Terminal
           /\ strayed => strayed'
  <1>a. /\ run \in RunState /\ strayed \in BOOLEAN /\ breaker \in BreakerType /\ now \in Nat
        /\ Len(breaker.outcomes) <= Window /\ breaker.opened <= now
    BY Zenon DEF World
  <1> DEFINE Good == /\ CallRest
                     /\ run' \in RunState /\ (run \in Terminal => run' \in Terminal)
                     /\ strayed' \in BOOLEAN /\ (strayed => strayed')
                     /\ breaker' \in BreakerType /\ Len(breaker'.outcomes) <= Window /\ breaker'.opened <= now
  <1>b. run' = run \/ Denied(c) => run' \in RunState /\ (run \in Terminal => run' \in Terminal)
    BY <1>a, Zenon DEF Denied, RunState, Terminal
  <1>c. strayed' = strayed => strayed' \in BOOLEAN /\ (strayed => strayed')
    BY <1>a
  <1>d. (strayed' = (strayed \/ call[c].probe)) => strayed' \in BOOLEAN /\ (strayed => strayed')
    BY <1>a, Zenon
  <1>1. ASSUME NEW t \in Tools, Invoke(c, t) PROVE Good
    <2>1. CallRest /\ UNCHANGED <<run, strayed, breaker>>
      BY <1>1, Zenon DEF Invoke, history, CallRest
    <2> QED
      BY <1>a, <1>b, <1>c, <2>1, Zenon
  <1>2. ASSUME Refuse(c) PROVE Good
    <2>1. CallRest /\ Denied(c) /\ UNCHANGED <<strayed, breaker>>
      BY <1>2, Zenon DEF Refuse, history, CallRest
    <2> QED
      BY <1>a, <1>b, <1>c, <2>1, Zenon
  <1>3. ASSUME CheckBreaker(c) PROVE Good
    <2>1. /\ CallRest /\ (Denied(c) \/ UNCHANGED run) /\ UNCHANGED strayed
          /\ breaker' = AfterAllow(breaker, now)
      BY <1>3, Zenon DEF CheckBreaker, history, CallRest
    <2> QED
      BY <1>a, <1>b, <1>c, <2>1, AllowShape, Zenon
  <1>4. ASSUME TurnAway(c) PROVE Good
    <2>1. CallRest /\ Denied(c) /\ UNCHANGED breaker /\ strayed' = (strayed \/ call[c].probe)
      BY <1>4, Zenon DEF TurnAway, CallRest
    <2> QED
      BY <1>a, <1>b, <1>d, <2>1, Zenon
  <1>5. ASSUME Allow(c) \/ Unwind(c) PROVE Good
    <2>1. CallRest /\ UNCHANGED <<run, strayed, breaker>>
      BY <1>5, Zenon DEF Allow, Unwind, history, CallRest
    <2> QED
      BY <1>a, <1>b, <1>c, <2>1, Zenon
  <1>6. ASSUME Pause(c) PROVE Good
    <2>1. CallRest /\ UNCHANGED breaker /\ (UNCHANGED strayed \/ strayed' = (strayed \/ call[c].probe))
      BY <1>6, Zenon DEF Pause, CallRest
    <2>2. Denied(c) \/ UNCHANGED run \/ (run = "running" /\ run' = "paused")
      BY <1>6, Zenon DEF Pause
    <2>3. run' \in RunState /\ (run \in Terminal => run' \in Terminal)
      BY <1>b, <2>2, Zenon DEF RunState, Terminal
    <2> QED
      BY <1>a, <1>c, <1>d, <2>1, <2>3, Zenon
  <1>7. ASSUME Complete(c) PROVE Good
    <2>1. CallRest /\ UNCHANGED <<breaker, strayed>> /\ run' = IF run = "running" THEN "completed" ELSE run
      BY <1>7, Zenon DEF Complete, history, CallRest
    <2>2. run' \in RunState /\ (run \in Terminal => run' \in Terminal)
      BY <1>a, <2>1, Zenon DEF RunState, Terminal
    <2> QED
      BY <1>a, <1>c, <2>1, <2>2, Zenon
  <1>8. ASSUME NEW s \in BOOLEAN, NEW k \in BOOLEAN, Execute(c, s, k) PROVE Good
    <2>1. /\ CallRest /\ (Denied(c) \/ UNCHANGED run) /\ UNCHANGED strayed
          /\ breaker' = AfterRecord(breaker, s, now)
      BY <1>8, Zenon DEF Execute, history, CallRest
    <2> QED
      BY <1>a, <1>b, <1>c, <2>1, RecordShape, Zenon
  <1>9. Good
    BY <1>1, <1>2, <1>3, <1>4, <1>5, <1>6, <1>7, <1>8, Zenon DEF CallStep
  <1> QED
    BY <1>9, Zenon DEF World, CallRest

---------------------------------------------------------------------------
\* What keeps each part of the invariant

\* No approval loses its grant.
GrantsKept == AsksGrow /\ \A i \in 1..Len(asks) : asks[i].status = "approved" => asks'[i].status = "approved"

\* No approval becomes denied.
NoDenial ==
    \A i \in 1..Len(asks') : asks'[i].status = "denied" => i \in 1..Len(asks) /\ asks[i].status = "denied"

\* An operator with a denial to apply still has it.
DenialsKept ==
    \A o \in Operators : op[o].pc = "apply" /\ op[o].set = "denied" => op'[o].pc = "apply" /\ op'[o].set = "denied"

\* The account is kept by steps that bring no call to "consume".
LEMMA QuietAccount ==
    ASSUME Types, Accounted, GrantsKept, Quiet, UNCHANGED <<consumed, done>>,
           overlap => overlap', torn => torn'
    PROVE  Accounted'
  <1> SUFFICES ASSUME Covered PROVE Covered'
    BY Zenon DEF Accounted
  <1>1. consumed \subseteq 1..Len(asks) /\ \A d \in Callers : Held(call[d])
    BY Zenon DEF Types, World, CallFacts
  <1>2. \A i \in consumed : asks'[i].tool = asks[i].tool /\ asks'[i].status = "approved"
    BY <1>1, Zenon DEF Covered, GrantsKept, AsksGrow
  <1>3. ASSUME NEW t \in Tools PROVE done'[t] = Cardinality({i \in consumed' : asks'[i].tool = t})
    <2>1. {i \in consumed' : asks'[i].tool = t} = {i \in consumed : asks[i].tool = t}
      BY <1>2, Zenon
    <2> QED
      BY <2>1, Zenon DEF Covered
  <1>4. ASSUME NEW d \in Callers, call'[d].pc = "consume"
        PROVE  /\ call[d].pc = "consume" /\ call'[d].pick \notin consumed'
               /\ asks'[call'[d].pick].status = "approved"
    <2>1. call'[d] = call[d]
      BY <1>4, Zenon DEF Quiet
    <2>2. /\ call[d].pick \in 1..Len(asks) /\ call[d].pick \notin consumed
          /\ asks[call[d].pick].status = "approved"
      BY <1>1, <1>4, <2>1, Zenon DEF Covered, Held
    <2> QED
      BY <1>4, <2>1, <2>2, Zenon DEF GrantsKept
  <1>5. \A c, d \in Callers : call'[c].pc = "consume" /\ call'[d].pc = "consume" => c = d
    BY <1>4, Zenon DEF Covered
  <1> QED
    BY <1>2, <1>3, <1>4, <1>5, Zenon DEF Covered

\* Denials are kept by steps that deny nothing and revive nothing.
LEMMA DenialsStay ==
    ASSUME Denials, NoDenial, DenialsKept, run \in Terminal => run' \in Terminal, torn => torn'
    PROVE  Denials'
  BY Zenon DEF Denials, NoDenial, DenialsKept

\* Approvals and operators left alone
LEMMA SameAsks ==
    ASSUME World, UNCHANGED asks
    PROVE  GrantsKept /\ NoDenial /\ AsksGrow
  BY AsksSame, Zenon DEF GrantsKept, NoDenial

\* The probe is kept where no call loses it.
LEMMA ProbeStays ==
    ASSUME ProbeHeld, breaker' = breaker, strayed => strayed',
           \A d \in Callers : call[d].probe => call'[d].probe
    PROVE  ProbeHeld'
  BY Zenon DEF ProbeHeld

\* A call that moved
LEMMA ProbeMoves ==
    ASSUME CallFacts, ProbeHeld, NEW c \in Callers, NEW v \in CallType, Moved(c, v), strayed => strayed'
    PROVE  ProbeHeld'
  <1>1. call'[c] = v /\ \A d \in Callers : d # c => call'[d] = call[d]
    BY Zenon DEF CallFacts, Moved
  <1> SUFFICES ASSUME breaker'.state = "half_open", ~ strayed' PROVE \E d \in Callers : call'[d].probe
    BY Zenon DEF ProbeHeld
  <1>2. CASE v.probe
    BY <1>1, <1>2, Zenon
  <1>3. CASE ~ v.probe
    <2>1. breaker.state = "half_open" /\ ~ call[c].probe /\ ~ strayed
      BY <1>3, Zenon DEF Moved
    <2>2. PICK d \in Callers : call[d].probe
      BY <2>1, Zenon DEF ProbeHeld
    <2>3. d # c /\ call'[d].probe
      BY <1>1, <2>1, <2>2, Zenon
    <2> QED
      BY <2>3, Zenon
  <1> QED
    BY <1>2, <1>3, Zenon

---------------------------------------------------------------------------
\* The steps

\* The steps of a caller that write neither approvals nor history.
LEMMA StepCall ==
    ASSUME IInv, NEW c \in Callers, CallStep(c)
    PROVE  IInv'
  <1>a. World /\ CallFacts /\ OpFacts
    BY Zenon DEF IInv, Types
  <1>1. PICK v \in CallType : Moved(c, v)
    BY <1>a, CallMoves, Zenon
  <1>2. CallRest /\ World' /\ (run \in Terminal => run' \in Terminal) /\ (strayed => strayed')
    BY <1>a, CallEffect, Zenon
  <1>3. GrantsKept /\ NoDenial /\ AsksGrow /\ UNCHANGED drives
    BY <1>a, <1>2, SameAsks, Zenon DEF CallRest
  <1>4. CallFacts' /\ Quiet
    BY <1>a, <1>1, <1>3, MovedFacts, Zenon
  <1>5. OpFacts'
    BY <1>a, <1>2, <1>3, StillOps, Zenon DEF CallRest
  <1>6. Accounted'
    BY <1>2, <1>3, <1>4, QuietAccount, Zenon DEF IInv, CallRest
  <1>7. Denials'
    BY <1>2, <1>3, DenialsStay, Zenon DEF IInv, CallRest, DenialsKept
  <1>8. ProbeHeld'
    BY <1>a, <1>1, <1>2, ProbeMoves, Zenon DEF IInv
  <1> QED
    BY <1>2, <1>4, <1>5, <1>6, <1>7, <1>8, Zenon DEF IInv, Types

\* The policy escalates: the call picks an approval no other call has, or is to pause.
LEMMA StepLookup ==
    ASSUME IInv, NEW c \in Callers, Lookup(c)
    PROVE  IInv'
  <1>a. World /\ CallFacts /\ OpFacts /\ call[c] \in CallType
    BY Zenon DEF IInv, Types, CallFacts
  <1> DEFINE grants == Grants(call[c].tool)
  <1>1. /\ UNCHANGED <<script, run, asks, consumed, breaker, now, drives, op, done, torn, strayed>>
        /\ call[c].pc = "policy" /\ call[c].tool \in Escalating
        /\ overlap' = (overlap \/ \E d \in Callers \ {c} : call[d].pc = "consume")
    BY Zenon DEF Lookup
  <1>2. World' /\ (overlap => overlap')
    <2>1. overlap' \in BOOLEAN /\ (overlap => overlap')
      BY <1>a, <1>1, Zenon DEF World
    <2> QED
      BY <1>a, <1>1, <2>1, Zenon DEF World
  <1>3. GrantsKept /\ NoDenial /\ AsksGrow /\ DenialsKept
    BY <1>a, <1>1, SameAsks, Zenon DEF DenialsKept
  <1>4. OpFacts' /\ Denials'
    BY <1>a, <1>1, <1>3, StillOps, DenialsStay, Zenon DEF IInv
  <1>5. CASE call' = [call EXCEPT ![c] = [@ EXCEPT !.pc = "pause", !.pick = 0]]
    <2> DEFINE v == [call[c] EXCEPT !.pc = "pause", !.pick = 0]
    <2>1. v \in CallType
      BY <1>a, FieldKept, Zenon DEF CallPc
    <2>2. v.pc = "pause" /\ v.tool = call[c].tool /\ v.probe = call[c].probe
      BY <1>a, Zenon DEF CallType
    <2>3. call' = [call EXCEPT ![c] = v]
      BY <1>5, Zenon
    <2> HIDE DEF v
    <2>4. Moved(c, v)
      BY <1>1, <2>2, <2>3, Zenon DEF Moved
    <2>5. CallFacts' /\ Quiet
      BY <1>a, <1>1, <1>3, <2>1, <2>4, MovedFacts, Zenon
    <2>6. Accounted'
      BY <1>1, <1>2, <1>3, <2>5, QuietAccount, Zenon DEF IInv
    <2>7. ProbeHeld'
      BY <1>a, <1>1, <2>1, <2>4, ProbeMoves, Zenon DEF IInv
    <2> QED
      BY <1>2, <1>4, <2>5, <2>6, <2>7, Zenon DEF IInv, Types
  <1>6. ASSUME NEW i \in grants, call' = [call EXCEPT ![c] = [@ EXCEPT !.pc = "consume", !.pick = i]]
        PROVE  IInv'
    <2> DEFINE v == [call[c] EXCEPT !.pc = "consume", !.pick = i]
    <2>1. /\ i \in 1..Len(asks) /\ i \in Nat /\ i \notin consumed
          /\ asks[i].status = "approved" /\ asks[i].tool = call[c].tool
      BY <1>6 DEF Grants
    <2>2. v \in CallType
      BY <1>a, <2>1, FieldKept, Zenon DEF CallPc
    <2>3. v.pc = "consume" /\ v.tool = call[c].tool /\ v.probe = call[c].probe /\ v.pick = i
      BY <1>a, Zenon DEF CallType
    <2> HIDE DEF v, grants
    <2>4. /\ call' \in [Callers -> CallType] /\ call'[c] = v
          /\ \A d \in Callers : d # c => call'[d] = call[d]
      BY <1>a, <1>6, <2>2, Zenon DEF CallFacts, v
    <2>5. CallFacts'
      <3>1. Held(v)
        BY <1>1, <2>1, <2>3, Zenon DEF Held
      <3>2. \A d \in Callers : Held(call'[d])
        BY <1>a, <2>4, <3>1, Zenon DEF CallFacts
      <3>3. \A d \in Callers : Held(call[d])'
        BY <1>1, <3>2, Zenon DEF Held
      <3>4. \A d \in 1..MaxDrives : d > drives => d # c /\ d \in Callers /\ call[d].pc = "none"
        BY <1>a, <1>1, ConstantTypes, Zenon DEF CallFacts
      <3> QED
        BY <1>1, <2>4, <3>3, <3>4, Zenon DEF CallFacts
    <2>6. Accounted'
      <3> SUFFICES ASSUME Covered, \A d \in Callers \ {c} : call[d].pc # "consume" PROVE Covered'
        BY <1>1, Zenon DEF IInv, Accounted
      <3>1. \A d \in Callers : call'[d].pc = "consume" => d = c
        BY <2>4, Zenon
      <3> QED
        BY <1>1, <2>1, <2>3, <2>4, <3>1 DEF Covered
    <2>7. ProbeHeld'
      BY <1>1, <2>3, <2>4, ProbeStays, Zenon DEF IInv
    <2> QED
      BY <1>2, <1>4, <2>5, <2>6, <2>7, Zenon DEF IInv, Types
  <1>7. \/ call' = [call EXCEPT ![c] = [@ EXCEPT !.pc = "pause", !.pick = 0]]
        \/ \E i \in grants : call' = [call EXCEPT ![c] = [@ EXCEPT !.pc = "consume", !.pick = i]]
    BY Zenon DEF Lookup
  <1> QED
    BY <1>5, <1>6, <1>7, Zenon

\* A new approval is pending.
LEMMA StepAsk ==
    ASSUME IInv, NEW c \in Callers, Ask(c)
    PROVE  IInv'
  <1>a. World /\ CallFacts /\ OpFacts /\ call[c] \in CallType /\ Held(call[c])
    BY Zenon DEF IInv, Types, CallFacts
  <1> DEFINE new == [tool |-> call[c].tool, status |-> "pending"]
  <1>1. /\ UNCHANGED <<script, run, consumed, breaker, now, drives, op, done, overlap, torn>>
        /\ call[c].pc = "ask" /\ asks' = Append(asks, new)
        /\ strayed' = (strayed \/ call[c].probe)
    BY Zenon DEF Ask
  <1>2. new \in AskType /\ new.status = "pending"
    BY <1>a, <1>1, Zenon DEF Held, AskType, Status
  <1>3. strayed' \in BOOLEAN /\ (strayed => strayed') /\ (call[c].probe => strayed')
    BY <1>a, <1>1, Zenon
  <1> HIDE DEF new
  <1>4. /\ asks' \in Seq(AskType) /\ Len(asks') = Len(asks) + 1 /\ Len(asks) \in Nat
        /\ \A i \in 1..Len(asks) : asks'[i] = asks[i]
        /\ asks'[Len(asks) + 1] = new
    <2>1. asks \in Seq(AskType)
      BY <1>a, Zenon DEF World
    <2> QED
      BY <1>1, <1>2, <2>1
  <1>5. World'
    BY <1>a, <1>1, <1>3, <1>4 DEF World
  <1>6. GrantsKept /\ NoDenial /\ AsksGrow /\ DenialsKept
    <2>1. GrantsKept /\ AsksGrow
      BY <1>4 DEF GrantsKept, AsksGrow
    <2>2. \A i \in 1..Len(asks') : i \in 1..Len(asks) \/ i = Len(asks) + 1
      BY <1>4
    <2>3. NoDenial
      BY <1>2, <1>4, <2>2, Zenon DEF NoDenial
    <2> QED
      BY <1>1, <2>1, <2>3, Zenon DEF DenialsKept
  <1>7. OpFacts' /\ Denials'
    BY <1>a, <1>1, <1>6, StillOps, DenialsStay, Zenon DEF IInv
  <1>8. PICK v \in CallType : Moved(c, v)
    <2>1. PICK v \in {NoCall, [NoCall EXCEPT !.pc = "unwind"]} : call' = [call EXCEPT ![c] = v]
      BY Zenon DEF Ask
    <2> QED
      BY <1>a, <1>1, <1>3, <2>1, EndMoves, Zenon
  <1>9. CallFacts' /\ Quiet
    BY <1>a, <1>1, <1>6, <1>8, MovedFacts, Zenon
  <1>10. ProbeHeld'
    BY <1>a, <1>3, <1>8, ProbeMoves, Zenon DEF IInv
  <1>11. Accounted'
    BY <1>1, <1>6, <1>9, QuietAccount, Zenon DEF IInv
  <1> QED
    BY <1>5, <1>7, <1>9, <1>10, <1>11, Zenon DEF IInv, Types

\* A request of an operator is opened.
LEMMA StepOpen ==
    ASSUME IInv, NEW o \in Operators, NEW i \in 1..Len(asks), NEW set \in {"none", "approved", "denied"},
           Open(o, i, set)
    PROVE  IInv'
  <1>a. World /\ CallFacts /\ OpFacts /\ Len(asks) \in Nat
    BY DEF IInv, Types, World
  <1> DEFINE v == [pc |-> "read", id |-> i, copy |-> "none", set |-> set]
  <1>1. /\ UNCHANGED <<script, run, asks, consumed, breaker, now, call, drives, history>>
        /\ op[o].pc = "idle" /\ SetOp(o, v)
    BY Zenon DEF Open
  <1>2. v \in OpType /\ v.pc = "read" /\ v.id = i
    BY <1>a DEF OpType
  <1> HIDE DEF v
  <1>3. GrantsKept /\ NoDenial /\ AsksGrow
    BY <1>a, <1>1, SameAsks, Zenon
  <1>4. OpFacts'
    BY <1>a, <1>1, <1>2, <1>3, OpMoves, Zenon
  <1>5. DenialsKept
    BY <1>a, <1>1, Zenon DEF DenialsKept, SetOp, OpFacts
  <1>6. World'
    BY <1>a, <1>1, Zenon DEF World, history
  <1>7. CallFacts' /\ Quiet
    BY <1>a, <1>1, <1>3, StillFacts, Zenon
  <1>8. Accounted' /\ Denials' /\ ProbeHeld'
    BY <1>1, <1>3, <1>5, <1>7, QuietAccount, DenialsStay, ProbeStays, Zenon DEF IInv, history
  <1> QED
    BY <1>4, <1>6, <1>7, <1>8, Zenon DEF IInv, Types

\* The approval is read; what is to be decided is pending.
LEMMA StepRead ==
    ASSUME IInv, NEW o \in Operators, ReadApproval(o)
    PROVE  IInv'
  <1>a. World /\ CallFacts /\ OpFacts /\ op[o] \in OpType
    BY Zenon DEF IInv, Types, OpFacts
  <1> DEFINE status == asks[op[o].id].status
             v == [op[o] EXCEPT !.pc = "save", !.copy = status]
  <1>1. /\ UNCHANGED <<script, run, asks, consumed, breaker, now, call, drives, history>>
        /\ op[o].pc = "read"
        /\ SetOp(o, NoOp) \/ (SetOp(o, v) /\ (op[o].set # "none" => status = "pending"))
    BY Zenon DEF ReadApproval, Decidable
  <1>2. op[o].id \in 1..Len(asks)
    BY <1>a, <1>1, Zenon DEF OpFacts
  <1>3. status \in Status
    <2>1. asks \in Seq(AskType)
      BY <1>a, Zenon DEF World
    <2>2. asks[op[o].id] \in AskType
      BY <1>2, <2>1
    <2> QED
      BY <2>2, Zenon DEF AskType
  <1> HIDE DEF status
  <1>4. /\ v \in OpType /\ v.pc = "save" /\ v.id = op[o].id /\ v.copy = status /\ v.set = op[o].set
        /\ NoOp \in OpType /\ NoOp.pc = "idle"
    BY <1>a, <1>3, RecordTypes, Zenon DEF OpType, NoOp
  <1> HIDE DEF v
  <1>5. GrantsKept /\ NoDenial /\ AsksGrow
    BY <1>a, <1>1, SameAsks, Zenon
  <1>6. OpFacts'
    <2>1. CASE SetOp(o, NoOp)
      BY <1>a, <1>4, <1>5, <2>1, OpMoves, Zenon
    <2>2. CASE SetOp(o, v) /\ (op[o].set # "none" => status = "pending")
      BY <1>a, <1>2, <1>3, <1>4, <1>5, <2>2, OpMoves, Zenon
    <2> QED
      BY <1>1, <2>1, <2>2, Zenon
  <1>7. DenialsKept
    BY <1>a, <1>1, Zenon DEF DenialsKept, SetOp, OpFacts
  <1>8. World'
    BY <1>a, <1>1, Zenon DEF World, history
  <1>9. CallFacts' /\ Quiet
    BY <1>a, <1>1, <1>5, StillFacts, Zenon
  <1>10. Accounted' /\ Denials' /\ ProbeHeld'
    BY <1>1, <1>5, <1>7, <1>9, QuietAccount, DenialsStay, ProbeStays, Zenon DEF IInv, history
  <1> QED
    BY <1>6, <1>8, <1>9, <1>10, Zenon DEF IInv, Types

\* The copy is saved.  Unless that tears an approval, it decides a pending one or changes nothing.
LEMMA StepSave ==
    ASSUME IInv, NEW o \in Operators, SaveApproval(o)
    PROVE  IInv'
  <1>a. World /\ CallFacts /\ OpFacts /\ op[o] \in OpType
    BY Zenon DEF IInv, Types, OpFacts
  <1> DEFINE id == op[o].id
             new == IF op[o].set = "none" THEN op[o].copy ELSE op[o].set
             v == [op[o] EXCEPT !.pc = "apply"]
  <1>1. /\ UNCHANGED <<script, run, consumed, breaker, now, call, drives, done, overlap, strayed>>
        /\ op[o].pc = "save" /\ asks' = [asks EXCEPT ![id].status = new]
        /\ torn' = (torn \/ asks[id].status # op[o].copy)
        /\ SetOp(o, IF op[o].set = "none" THEN NoOp ELSE v)
    BY Zenon DEF SaveApproval
  <1>2. /\ id \in 1..Len(asks) /\ asks \in Seq(AskType) /\ asks[id] \in AskType
        /\ new \in Status /\ (op[o].set # "none" => op[o].copy = "pending")
    <2>1. id \in 1..Len(asks) /\ op[o].copy \in Status /\ (op[o].set # "none" => op[o].copy = "pending")
      BY <1>a, <1>1, Zenon DEF OpFacts
    <2>2. op[o].set \in {"none", "approved", "denied"}
      BY <1>a, Zenon DEF OpType
    <2>3. asks \in Seq(AskType)
      BY <1>a, Zenon DEF World
    <2> QED
      BY <2>1, <2>2, <2>3 DEF Status
  <1>3. torn' \in BOOLEAN /\ (torn => torn') /\ (~ torn' => ~ torn /\ asks[id].status = op[o].copy)
    BY <1>a, <1>1, Zenon DEF World
  <1>4. /\ asks' \in Seq(AskType) /\ Len(asks') = Len(asks) /\ Len(asks) \in Nat
        /\ \A i \in 1..Len(asks) : i # id => asks'[i] = asks[i]
        /\ asks'[id].tool = asks[id].tool /\ asks'[id].status = new
    <2> HIDE DEF id, new
    <2>1. [asks[id] EXCEPT !.status = new] \in AskType
      BY <1>2, Zenon DEF AskType
    <2>2. asks' = [asks EXCEPT ![id] = [asks[id] EXCEPT !.status = new]]
      BY <1>1, Zenon
    <2>3. /\ [asks[id] EXCEPT !.status = new].tool = asks[id].tool
          /\ [asks[id] EXCEPT !.status = new].status = new
      BY <1>2, Zenon DEF AskType
    <2> QED
      BY <1>2, <2>1, <2>2, <2>3
  <1>5. AsksGrow
    BY <1>2, <1>4 DEF AsksGrow
  <1>6. World'
    BY <1>a, <1>1, <1>3, <1>4, Zenon DEF World
  <1>7. /\ v \in OpType /\ v.pc = "apply" /\ v.id = id /\ v.set = op[o].set
        /\ NoOp \in OpType /\ NoOp.pc = "idle"
    BY <1>a, RecordTypes, Zenon DEF OpType, NoOp
  <1> HIDE DEF v, id
  <1>8. OpFacts'
    <2>1. CASE op[o].set = "none"
      BY <1>a, <1>1, <1>5, <1>7, <2>1, OpMoves, Zenon
    <2>2. CASE op[o].set # "none"
      BY <1>a, <1>1, <1>2, <1>5, <1>7, <2>2, OpMoves, Zenon
    <2> QED
      BY <2>1, <2>2, Zenon
  <1>9. CallFacts' /\ Quiet
    BY <1>a, <1>1, <1>5, StillFacts, Zenon
  <1>10. Accounted'
    <2>1. CASE torn'
      BY <2>1, Zenon DEF Accounted
    <2>2. CASE ~ torn'
      <3>1. asks[id].status = "approved" => new = "approved"
        BY <1>2, <1>3, <2>2, Zenon
      <3>2. GrantsKept
        BY <1>2, <1>4, <1>5, <3>1, Zenon DEF GrantsKept
      <3> QED
        BY <1>1, <1>3, <1>9, <3>2, QuietAccount, Zenon DEF IInv
    <2> QED
      BY <2>1, <2>2, Zenon
  <1>11. Denials'
    <2> SUFFICES ASSUME ~ torn' PROVE Denials'
      BY Zenon DEF Denials
    <2>1. op'[o] = (IF op[o].set = "none" THEN NoOp ELSE v) /\ \A p \in Operators : p # o => op'[p] = op[p]
      BY <1>a, <1>1, Zenon DEF SetOp, OpFacts
    <2>2. CASE op[o].set = "denied"
      BY <1>7, <2>1, <2>2, Zenon DEF Denials
    <2>3. CASE op[o].set # "denied"
      <3>1. new = "denied" => asks[id].status = "denied"
        BY <1>2, <1>3, <2>3, Zenon
      <3>2. NoDenial
        BY <1>2, <1>4, <3>1, Zenon DEF NoDenial
      <3>3. DenialsKept
        BY <1>1, <2>1, Zenon DEF DenialsKept
      <3> QED
        BY <1>1, <1>3, <3>2, <3>3, DenialsStay, Zenon DEF IInv
    <2> QED
      BY <2>2, <2>3, Zenon
  <1>12. ProbeHeld'
    BY <1>1, ProbeStays, Zenon DEF IInv
  <1> QED
    BY <1>6, <1>8, <1>9, <1>10, <1>11, <1>12, Zenon DEF IInv, Types

\* What Resume leaves as it is, with a paused run
Driven ==
    /\ World' /\ CallFacts' /\ Accounted'
    /\ \A d \in Callers : call[d].probe => call'[d].probe

\* A step that changes the run to a state of its own and leaves calls and approvals alone.
LEMMA RunKeeps ==
    ASSUME IInv, run' \in RunState, UNCHANGED <<drives, call, consumed, done, overlap>>,
           UNCHANGED <<script, asks, breaker, now, torn, strayed>>
    PROVE  Driven
  <1>a. World /\ CallFacts
    BY Zenon DEF IInv, Types
  <1>1. World'
    BY <1>a, Zenon DEF World
  <1>2. GrantsKept /\ AsksGrow
    BY <1>a, SameAsks, Zenon
  <1>3. CallFacts' /\ Quiet
    BY <1>a, <1>2, StillFacts, Zenon
  <1>4. Accounted'
    BY <1>2, <1>3, QuietAccount, Zenon DEF IInv
  <1> QED
    BY <1>1, <1>3, <1>4, Zenon DEF Driven
---------------------------------------------------------------------------
\* The steps that consume approvals or forget what was consumed

\* A finite set gains one element.
LEMMA OneMore ==
    ASSUME NEW S, NEW x, IsFiniteSet(S), x \notin S
    PROVE  Cardinality(S \cup {x}) = Cardinality(S) + 1 /\ Cardinality(S) \in Nat
  BY FS_AddElement, FS_CardinalityType, Zenon

\* Sets of approvals are finite.
LEMMA FiniteAsks ==
    ASSUME World, NEW S \in SUBSET (1..Len(asks))
    PROVE  IsFiniteSet(S)
  <1>1. Len(asks) \in Nat
    BY DEF World
  <1>2. IsFiniteSet(1..Len(asks))
    BY <1>1, FS_Interval, SMTT(20)
  <1> QED
    BY <1>2, FS_Subset, Zenon

\* The approval that was picked is consumed, and counts for its tool.
LEMMA StepConsume ==
    ASSUME IInv, NEW c \in Callers, Consume(c)
    PROVE  IInv'
  <1>a. World /\ CallFacts /\ OpFacts /\ call[c] \in CallType /\ Held(call[c])
    BY Zenon DEF IInv, Types, CallFacts
  <1>1. /\ UNCHANGED <<script, run, asks, breaker, now, drives, op, overlap, torn, strayed>>
        /\ call[c].pc = "consume" /\ To(c, "execute")
        /\ consumed' = consumed \cup {call[c].pick}
        /\ done' = [done EXCEPT ![call[c].tool] = @ + 1]
    BY Zenon DEF Consume
  <1>2. /\ call[c].pick \in 1..Len(asks) /\ asks[call[c].pick].tool = call[c].tool
        /\ call[c].tool \in Tools
    BY <1>a, <1>1, ConstantTypes, Zenon DEF Held
  <1>3. World'
    <2>1. done' \in [Tools -> Nat]
      BY <1>a, <1>1, <1>2 DEF World
    <2>2. consumed' \subseteq 1..Len(asks)
      BY <1>a, <1>1, <1>2, Zenon DEF World
    <2> QED
      BY <1>a, <1>1, <2>1, <2>2, Zenon DEF World
  <1>4. GrantsKept /\ NoDenial /\ AsksGrow /\ DenialsKept
    BY <1>a, <1>1, SameAsks, Zenon DEF DenialsKept
  <1>5. OpFacts' /\ Denials'
    BY <1>a, <1>1, <1>4, StillOps, DenialsStay, Zenon DEF IInv
  <1>6. PICK v \in CallType : Moved(c, v)
    BY <1>a, <1>1, ToMoves, Zenon
  <1>7. CallFacts' /\ Quiet
    BY <1>a, <1>1, <1>4, <1>6, MovedFacts, Zenon
  <1>8. ProbeHeld'
    BY <1>a, <1>1, <1>6, ProbeMoves, Zenon DEF IInv
  <1>9. Accounted'
    <2> SUFFICES ASSUME Covered PROVE Covered'
      BY <1>1, Zenon DEF IInv, Accounted
    <2> DEFINE p == call[c].pick
    <2>1. p \notin consumed /\ asks[p].status = "approved"
      BY <1>1, Zenon DEF Covered
    <2>2. ASSUME NEW t \in Tools PROVE done'[t] = Cardinality({i \in consumed' : asks'[i].tool = t})
      <3> DEFINE S == {i \in consumed : asks[i].tool = t}
      <3>1. done[t] = Cardinality(S) /\ done[t] \in Nat
        BY <1>a, Zenon DEF Covered, World
      <3>2. IsFiniteSet(S) /\ p \notin S
        <4>1. S \in SUBSET (1..Len(asks))
          BY <1>a, Zenon DEF World
        <4> QED
          BY <1>a, <2>1, <4>1, FiniteAsks, Zenon
      <3>3. CASE t = call[c].tool
        <4>1. {i \in consumed' : asks'[i].tool = t} = S \cup {p}
          BY <1>1, <1>2, <3>3, Zenon
        <4>2. done'[t] = done[t] + 1
          BY <1>a, <1>1, <1>2, <3>3, Zenon DEF World
        <4> HIDE DEF S, p
        <4> QED
          BY <3>1, <3>2, <4>1, <4>2, OneMore, Zenon
      <3>4. CASE t # call[c].tool
        <4>1. {i \in consumed' : asks'[i].tool = t} = S
          BY <1>1, <1>2, <3>4, Zenon
        <4>2. done'[t] = done[t]
          BY <1>a, <1>1, <1>2, <3>4, Zenon DEF World
        <4> QED
          BY <3>1, <4>1, <4>2, Zenon
      <3> QED
        BY <3>3, <3>4, Zenon
    <2>3. \A i \in consumed' : asks'[i].status = "approved"
      BY <1>1, <2>1, Zenon DEF Covered
    <2>4. \A d \in Callers : call'[d].pc # "consume"
      <3>1. \A d \in Callers : d # c => call'[d] = call[d] /\ call[d].pc # "consume"
        BY <1>a, <1>1, <1>6, Zenon DEF Covered, Moved, CallFacts
      <3>2. call'[c].pc # "consume"
        BY <1>a, <1>6, Zenon DEF Moved, CallFacts
      <3> QED
        BY <3>1, <3>2, Zenon
    <2> QED
      BY <2>2, <2>3, <2>4, Zenon DEF Covered
  <1> QED
    BY <1>3, <1>5, <1>7, <1>8, <1>9, Zenon DEF IInv, Types

\* Nothing is consumed and no call is about to: the account is empty.
LEMMA EmptyAccount ==
    ASSUME consumed' = {}, done' = [t \in Tools |-> 0],
           overlap' \/ \A c \in Callers : call'[c].pc # "consume"
    PROVE  Accounted'
  <1> SUFFICES ASSUME \A c \in Callers : call'[c].pc # "consume" PROVE Covered'
    BY Zenon DEF Accounted
  <1>1. \A t \in Tools : done'[t] = 0 /\ {i \in consumed' : asks'[i].tool = t} = {}
    BY Zenon
  <1>2. Cardinality({}) = 0
    BY FS_EmptySet, Zenon
  <1> QED
    BY <1>1, <1>2, Zenon DEF Covered

\* RESUME starts the next drive where there was none, with nothing consumed.
LEMMA ResumeKeeps ==
    ASSUME IInv, Resume, UNCHANGED <<script, asks, breaker, now, torn, strayed>>
    PROVE  Driven
  <1>a. World /\ CallFacts
    BY Zenon DEF IInv, Types
  <1>b. run' \in RunState
    BY Zenon DEF Resume, RunState
  <1>1. CASE escalated
    <2> DEFINE v == [NoCall EXCEPT !.pc = "ready", !.pos = 1]
               n == drives + 1
    <2>1. /\ drives < MaxDrives /\ drives' = n /\ call' = [call EXCEPT ![n] = v]
          /\ consumed' = {} /\ done' = [t \in Tools |-> 0]
          /\ overlap' = (overlap \/ \E c \in Callers : call[c].pc = "consume")
      BY <1>1, Zenon DEF Resume, Reset
    <2>2. v \in CallType /\ v.pc = "ready" /\ v.probe = FALSE
      BY RecordTypes, Zenon DEF NoCall
    <2>3. n \in 1..MaxDrives /\ n > drives /\ drives \in Nat
      BY <1>a, <2>1, ConstantTypes DEF World
    <2>4. n \in Callers /\ call[n].pc = "none" /\ ~ call[n].probe
      <3>1. n \in Callers /\ call[n].pc = "none"
        BY <1>a, <2>3, ConstantTypes, Zenon DEF CallFacts
      <3>2. Held(call[n])
        BY <1>a, <3>1, Zenon DEF CallFacts
      <3> QED
        BY <3>1, <3>2, Zenon DEF Held
    <2> HIDE DEF v
    <2>5. /\ call' \in [Callers -> CallType] /\ call'[n] = v
          /\ \A d \in Callers : d # n => call'[d] = call[d]
      BY <1>a, <2>1, <2>2, <2>4, Zenon DEF CallFacts
    <2>6. CallFacts'
      <3>1. \A d \in Callers : Held(call[d])'
        BY <1>a, <2>2, <2>5, Zenon DEF CallFacts, Held
      <3>2. \A d \in 1..MaxDrives : d > n => d > drives /\ d # n /\ d \in Callers
        BY <2>3, ConstantTypes
      <3> QED
        BY <1>a, <2>1, <2>5, <3>1, <3>2, Zenon DEF CallFacts
    <2>7. World'
      <3>1. overlap' \in BOOLEAN
        BY <1>a, <2>1, Zenon DEF World
      <3>2. done' \in [Tools -> Nat] /\ consumed' \subseteq 1..Len(asks)
        BY <2>1, Zenon
      <3> QED
        BY <1>a, <1>b, <2>1, <2>3, <3>1, <3>2, Zenon DEF World
    <2>8. overlap' \/ \A d \in Callers : call'[d].pc # "consume"
      BY <2>1, <2>2, <2>5, Zenon
    <2>9. Accounted'
      BY <2>1, <2>8, EmptyAccount, Zenon
    <2>10. \A d \in Callers : call[d].probe => call'[d].probe
      BY <2>4, <2>5, Zenon
    <2> QED
      BY <2>6, <2>7, <2>9, <2>10, Zenon DEF Driven
  <1>2. CASE ~ escalated
    <2>1. UNCHANGED <<drives, call, consumed, done, overlap, escalated>>
      BY <1>2, Zenon DEF Resume
    <2>2. World'
      BY <1>a, <1>b, <2>1, Zenon DEF World
    <2>3. GrantsKept /\ AsksGrow
      BY <1>a, SameAsks, Zenon
    <2>4. CallFacts' /\ Quiet
      BY <1>a, <2>1, <2>3, StillFacts, Zenon
    <2>5. Accounted'
      BY <2>1, <2>3, <2>4, QuietAccount, Zenon DEF IInv
    <2> QED
      BY <2>1, <2>2, <2>4, <2>5, Zenon DEF Driven
  <1> QED
    BY <1>1, <1>2, Zenon

\* The decision is applied: a denial ends the run.
LEMMA StepApply ==
    ASSUME IInv, NEW o \in Operators, ApplyDecision(o)
    PROVE  IInv'
  <1>a. World /\ CallFacts /\ OpFacts /\ run \in RunState
    BY Zenon DEF IInv, Types, World
  <1>1. UNCHANGED <<script, asks, breaker, now, torn, strayed>> /\ SetOp(o, NoOp) /\ op[o].pc = "apply"
    BY Zenon DEF ApplyDecision
  <1>2. \/ op[o].set = "approved" /\ run = "paused" /\ Resume
        \/ op[o].set = "approved" /\ run' = run /\ UNCHANGED <<drives, call, consumed, done, overlap>>
        \/ op[o].set = "denied" /\ run' = Failed(run) /\ UNCHANGED <<drives, call, consumed, done, overlap>>
    BY Zenon DEF ApplyDecision
  <1>3. Failed(run) \in Terminal /\ Failed(run) \in RunState
    BY <1>a, Zenon DEF Failed, Terminal, RunState
  <1>4. Driven
    BY <1>a, <1>1, <1>2, <1>3, ResumeKeeps, RunKeeps, Zenon
  <1>5. GrantsKept /\ NoDenial /\ AsksGrow
    BY <1>a, <1>1, SameAsks, Zenon
  <1>6. OpFacts'
    BY <1>a, <1>1, <1>5, RecordTypes, OpMoves, Zenon DEF NoOp
  <1>7. Denials'
    <2>1. CASE op[o].set = "denied"
      BY <1>2, <1>3, <2>1, Zenon DEF Denials
    <2>2. CASE op[o].set # "denied"
      <3>1. DenialsKept
        BY <1>a, <1>1, <2>2, Zenon DEF DenialsKept, SetOp, OpFacts
      <3>2. run \in Terminal => run' \in Terminal
        BY <1>2, <2>2, Zenon DEF Terminal
      <3> QED
        BY <1>1, <1>5, <3>1, <3>2, DenialsStay, Zenon DEF IInv
    <2> QED
      BY <2>1, <2>2, Zenon
  <1>8. ProbeHeld'
    BY <1>1, <1>4, ProbeStays, Zenon DEF IInv, Driven
  <1> QED
    BY <1>4, <1>6, <1>7, <1>8, Zenon DEF IInv, Types, Driven

\* A plain RESUME or STOP, and the clock.
LEMMA StepRun ==
    ASSUME IInv, Tick \/ \E action \in {"resume", "stop"} : Intervene(action)
    PROVE  IInv'
  <1>a. World /\ CallFacts /\ OpFacts /\ run \in RunState
    BY Zenon DEF IInv, Types, World
  <1>1. UNCHANGED <<script, asks, breaker, torn, strayed, op>>
    BY Zenon DEF Tick, Intervene, history
  <1>2. Driven
    <2>1. CASE Tick
      <3>1. UNCHANGED <<script, run, asks, consumed, breaker, call, drives, history>> /\ now' = now + 1
        BY <2>1, Zenon DEF Tick
      <3>2. World'
        BY <1>a, <3>1 DEF World, history, BreakerType
      <3>3. GrantsKept /\ AsksGrow
        BY <1>a, <1>1, SameAsks, Zenon
      <3>4. CallFacts' /\ Quiet
        BY <1>a, <3>1, <3>3, StillFacts, Zenon
      <3>5. Accounted'
        BY <3>1, <3>3, <3>4, QuietAccount, Zenon DEF IInv, history
      <3> QED
        BY <3>1, <3>2, <3>4, <3>5, Zenon DEF Driven
    <2>2. CASE \E action \in {"resume", "stop"} : Intervene(action)
      <3>1. UNCHANGED now /\ (Resume \/ (run' = "cancelled" /\ UNCHANGED <<drives, call, consumed, done, overlap>>))
        BY <2>2, Zenon DEF Intervene
      <3>2. "cancelled" \in RunState
        BY Zenon DEF RunState, Terminal
      <3> QED
        BY <1>1, <3>1, <3>2, ResumeKeeps, RunKeeps, Zenon
    <2> QED
      BY <2>1, <2>2, Zenon
  <1>3. run \in Terminal => run' \in Terminal
    <2>1. run' = run \/ (run = "paused" /\ Resume) \/ run' = "cancelled"
      BY Zenon DEF Tick, Intervene
    <2> QED
      BY <2>1, Zenon DEF Terminal
  <1>4. GrantsKept /\ NoDenial /\ AsksGrow /\ DenialsKept
    BY <1>a, <1>1, SameAsks, Zenon DEF DenialsKept
  <1>5. OpFacts'
    BY <1>a, <1>1, <1>4, StillOps, Zenon
  <1>6. Denials' /\ ProbeHeld'
    BY <1>1, <1>2, <1>3, <1>4, DenialsStay, ProbeStays, Zenon DEF IInv, Driven
  <1> QED
    BY <1>2, <1>5, <1>6, Zenon DEF IInv, Types, Driven

\* A crash ends calls and requests, and forgets consumption and breaker.
LEMMA StepCrash ==
    ASSUME IInv, Crash
    PROVE  IInv'
  <1>a. World /\ CallFacts /\ OpFacts
    BY Zenon DEF IInv, Types
  <1>1. /\ UNCHANGED <<script, asks, now, drives, overlap>>
        /\ call' = [c \in Callers |-> NoCall] /\ op' = [o \in Operators |-> NoOp]
        /\ consumed' = {} /\ breaker' = NewBreaker /\ done' = [t \in Tools |-> 0]
        /\ run' = IF run = "running" THEN "failed" ELSE run
        /\ torn' = (torn \/ \E o \in Operators : op[o].pc = "apply")
        /\ strayed' = FALSE
    BY Zenon DEF Crash
  <1>2. torn' \in BOOLEAN /\ (~ torn' => ~ torn /\ \A o \in Operators : op[o].pc # "apply")
    BY <1>a, <1>1, Zenon DEF World
  <1>3. World'
    <2>1. run' \in RunState
      BY <1>a, <1>1, Zenon DEF World, RunState, Terminal
    <2>2. breaker' \in BreakerType /\ Len(breaker'.outcomes) <= Window /\ breaker'.opened <= now
      <3>1. NewBreaker.outcomes = <<>> /\ NewBreaker.opened = 0
        BY Zenon DEF NewBreaker
      <3>2. Len(<<>>) <= Window
        BY ConstantTypes
      <3>3. now \in Nat
        BY <1>a, Zenon DEF World
      <3>4. NewBreaker.opened <= now
        BY <3>1, <3>3
      <3> QED
        BY <1>1, <3>1, <3>2, <3>4, RecordTypes, Zenon
    <2>3. done' \in [Tools -> Nat] /\ consumed' \subseteq 1..Len(asks)
      BY <1>1, Zenon
    <2> QED
      BY <1>a, <1>1, <1>2, <2>1, <2>2, <2>3, Zenon DEF World
  <1>4. CallFacts'
    <2>1. NoCall \in CallType /\ NoCall.pc = "none" /\ NoCall.probe = FALSE
      BY RecordTypes, Zenon DEF NoCall
    <2>2. \A c \in Callers : call'[c] = NoCall
      BY <1>1, Zenon
    <2>3. call' \in [Callers -> CallType]
      BY <1>1, <2>1, Zenon
    <2>4. \A d \in 1..MaxDrives : d \in Callers
      BY ConstantTypes, Zenon
    <2> QED
      BY <2>1, <2>2, <2>3, <2>4, Zenon DEF CallFacts, Held
  <1>5. OpFacts'
    <2>1. NoOp \in OpType /\ NoOp.pc = "idle"
      BY RecordTypes, Zenon DEF NoOp
    <2> QED
      BY <1>1, <2>1, Zenon DEF OpFacts
  <1>6. Accounted'
    <2>1. \A c \in Callers : call'[c].pc # "consume"
      BY <1>1, Zenon DEF NoCall
    <2> QED
      BY <1>1, <2>1, EmptyAccount, Zenon
  <1>7. Denials'
    BY <1>1, <1>2, Zenon DEF IInv, Denials, Terminal
  <1>8. ProbeHeld'
    BY <1>1, Zenon DEF ProbeHeld, NewBreaker
  <1> QED
    BY <1>3, <1>4, <1>5, <1>6, <1>7, <1>8, Zenon DEF IInv, Types

\* Initially one drive is at its start.
LEMMA InitIInv == Init => IInv
  <1> SUFFICES ASSUME Init PROVE IInv
    BY Zenon
  <1> DEFINE v == [NoCall EXCEPT !.pc = "ready", !.pos = 1]
  <1>1. v \in CallType /\ v.pc = "ready" /\ v.probe = FALSE /\ NoCall \in CallType
        /\ NoCall.pc = "none" /\ NoCall.probe = FALSE
    BY RecordTypes, Zenon DEF NoCall
  <1>2. call = [c \in Callers |-> IF c = 1 THEN v ELSE NoCall]
    BY Zenon DEF Init
  <1> HIDE DEF v
  <1>3. CallFacts
    <2>1. \A c \in Callers : call[c] = v \/ call[c] = NoCall
      BY <1>2, Zenon
    <2>2. \A d \in 1..MaxDrives : d > 1 => call[d] = NoCall
      BY <1>2, ConstantTypes
    <2>3. call \in [Callers -> CallType]
      BY <1>1, <1>2, Zenon
    <2>4. drives = 1
      BY Zenon DEF Init
    <2> QED
      BY <1>1, <2>1, <2>2, <2>3, <2>4, Zenon DEF CallFacts, Held
  <1>4. World
    <2>1. NewBreaker.outcomes = <<>> /\ NewBreaker.opened = 0 /\ Len(<<>>) <= Window
      BY ConstantTypes DEF NewBreaker
    <2>2. "running" \in RunState /\ <<>> \in Seq(AskType) /\ 1 \in 1..MaxDrives
      BY ConstantTypes DEF RunState
    <2>3. breaker \in BreakerType /\ Len(breaker.outcomes) <= Window /\ breaker.opened <= now
      <3>1. breaker = NewBreaker /\ now = 0 /\ 0 <= 0
        BY DEF Init
      <3> QED
        BY <2>1, <3>1, RecordTypes, Zenon
    <2> QED
      BY <2>2, <2>3, Zenon DEF Init, World
  <1>5. OpFacts
    <2>1. NoOp \in OpType /\ NoOp.pc = "idle"
      BY RecordTypes, Zenon DEF NoOp
    <2> QED
      BY <2>1, Zenon DEF OpFacts, Init
  <1>6. Accounted
    <2>1. \A c \in Callers : call[c].pc # "consume"
      BY <1>1, <1>2, Zenon
    <2>2. \A t \in Tools : done[t] = 0 /\ {i \in consumed : asks[i].tool = t} = {}
      BY Zenon DEF Init
    <2>3. Cardinality({}) = 0 /\ consumed = {}
      BY FS_EmptySet, Zenon DEF Init
    <2> QED
      BY <2>1, <2>2, <2>3, Zenon DEF Accounted, Covered
  <1>7. Denials /\ ProbeHeld
    BY DEF Init, Denials, ProbeHeld, NewBreaker
  <1> QED
    BY <1>3, <1>4, <1>5, <1>6, <1>7, Zenon DEF IInv, Types

\* Every step keeps the invariant.
LEMMA StepIInv == IInv /\ [Next]_vars => IInv'
  <1> SUFFICES ASSUME IInv, [Next]_vars PROVE IInv'
    BY Zenon
  <1>1. CASE UNCHANGED vars
    <2>1. World'
      BY <1>1, Zenon DEF vars, IInv, Types, World
    <2>2. CallFacts'
      BY <1>1, Zenon DEF vars, IInv, Types, CallFacts, Held
    <2>3. OpFacts'
      BY <1>1, Zenon DEF vars, IInv, Types, OpFacts
    <2>4. Accounted'
      BY <1>1, Zenon DEF vars, IInv, Accounted, Covered
    <2>5. Denials' /\ ProbeHeld'
      BY <1>1, Zenon DEF vars, IInv, Denials, ProbeHeld
    <2> QED
      BY <2>1, <2>2, <2>3, <2>4, <2>5, Zenon DEF IInv, Types
  <1>2. ASSUME NEW c \in Callers,
               \/ \E t \in Tools : Invoke(c, t)
               \/ Refuse(c) \/ CheckBreaker(c) \/ TurnAway(c) \/ Allow(c) \/ Lookup(c) \/ Consume(c)
               \/ Pause(c) \/ Ask(c) \/ Unwind(c) \/ Complete(c)
               \/ \E success, clean \in BOOLEAN : Execute(c, success, clean)
        PROVE  IInv'
    BY <1>2, StepCall, StepLookup, StepConsume, StepAsk, Zenon DEF CallStep
  <1>3. ASSUME NEW o \in Operators, ReadApproval(o) \/ SaveApproval(o) \/ ApplyDecision(o) PROVE IInv'
    BY <1>3, StepRead, StepSave, StepApply, Zenon
  <1>4. ASSUME NEW o \in Operators, NEW i \in 1..Len(asks), NEW set \in {"none", "approved", "denied"},
               Open(o, i, set)
        PROVE  IInv'
    BY <1>4, StepOpen, Zenon
  <1>5. ASSUME Crash \/ Tick \/ \E action \in {"resume", "stop"} : Intervene(action) PROVE IInv'
    BY <1>5, StepCrash, StepRun, Zenon
  <1> QED
    BY <1>1, <1>2, <1>3, <1>4, <1>5, Zenon DEF Next

---------------------------------------------------------------------------
\* The theorems

\* The invariant holds in every reachable state, for all constants.
THEOREM Inductive == Spec => []IInv
  BY InitIInv, StepIInv, PTL DEF Spec

\* Types: a call at "consume" has picked an approval of its tool, a probe is carried by a call
\* the breaker let through, and the breaker keeps at most Window outcomes.
THEOREM TypeCorrect == Spec => []TypeOK
  <1>1. ASSUME IInv PROVE TypeOK
    <2>1. /\ World /\ \A c \in Callers : Held(call[c])
      BY <1>1, Zenon DEF IInv, Types, CallFacts
    <2>2. \A i \in 1..Len(asks) : asks[i] \in AskType
      BY <2>1 DEF World
    <2>3. breaker.state \in BreakerState
      BY <2>1, Zenon DEF World, BreakerType
    <2> QED
      BY <2>1, <2>2, <2>3, Zenon DEF TypeOK, World, Held, AskType, Status, RunState
  <1> QED
    BY <1>1, Inductive, PTL

\* "An approval authorizes one escalated call per execution attempt": the calls of a tool let
\* through since the last reset are no more than its approvals, where no two calls looked at
\* once and no approval was torn.
THEOREM GrantsSuffice == Spec => []GrantCovers
  <1>1. ASSUME IInv PROVE GrantCovers
    <2> SUFFICES ASSUME Covered, NEW t \in Tools
                 PROVE  done[t] <= Cardinality({i \in 1..Len(asks) : asks[i].tool = t /\ asks[i].status = "approved"})
      BY <1>1, Zenon DEF IInv, Accounted, GrantCovers
    <2> DEFINE S == {i \in consumed : asks[i].tool = t}
               T == {i \in 1..Len(asks) : asks[i].tool = t /\ asks[i].status = "approved"}
    <2>1. World /\ consumed \subseteq 1..Len(asks)
      BY <1>1, Zenon DEF IInv, Types, World
    <2>2. T \in SUBSET (1..Len(asks)) /\ S \subseteq T
      BY <2>1, Zenon DEF Covered
    <2>3. done[t] = Cardinality(S)
      BY Zenon DEF Covered
    <2> HIDE DEF S, T
    <2>4. IsFiniteSet(T)
      BY <2>1, <2>2, FiniteAsks, Zenon
    <2>5. Cardinality(S) <= Cardinality(T)
      BY <2>2, <2>4, FS_Subset, Zenon
    <2> QED
      BY <2>3, <2>5, Zenon DEF T
  <1> QED
    BY <1>1, Inductive, PTL

\* "Deny a request and fail the paused run": when no operator is at work, a run with a denied
\* approval has ended.
THEOREM DenialEnds == Spec => []DeniedEnds
  <1>1. IInv => DeniedEnds
    BY Zenon DEF IInv, Denials, DeniedEnds
  <1> QED
    BY <1>1, Inductive, PTL

\* A half-open breaker waits for a probe that is on its way, or that a check behind the breaker
\* turned away.
THEOREM ProbeOnItsWay == Spec => []ProbeHeld
  <1>1. IInv => ProbeHeld
    BY Zenon DEF IInv
  <1> QED
    BY <1>1, Inductive, PTL
===========================================================================
