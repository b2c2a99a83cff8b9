--------------------------- MODULE TriggersInv ---------------------------
(***************************************************************************)
(* The inductive invariant of Triggers, that it holds initially, and that  *)
(* every step keeps the types, the clocks and the nonces; for any threads, *)
(* deliveries, schedule and bounds.                                        *)
(***************************************************************************)
EXTENDS Triggers, TLAPS

CallType == [pc : Steps, key : Keys \cup {NoKey}, id : 0..MaxCalls, at : 0..MaxTime,
             seen : 0..MaxTime, entry : 0..MaxCalls, todo : SUBSET Instants,
             msg : Deliveries \cup {0}, outcome : Outcomes]

ClaimType == [at : Int, by : 0..MaxCalls]
EventType == [key : Keys \cup {NoKey}, outcome : Outcomes, at : 0..MaxTime, by : 0..MaxCalls]
LetterType == [id : 1..MaxCalls, key : Keys \cup {NoKey}, replayed : BOOLEAN]
RunType == [key : Keys \cup {NoKey}, at : 0..MaxTime, by : 0..MaxCalls]

\* The types, of the calls and the history too.
Shape ==
    /\ now \in 0..MaxTime /\ spec \in Specs /\ frozen \in BOOLEAN
    /\ stamp \in [Deliveries -> Int] /\ nonce \in [Deliveries -> Int]
    /\ claims \in [Keys -> ClaimType] /\ events \subseteq EventType
    /\ fired \in Never..MaxTime /\ dlq \subseteq LetterType
    /\ call \in [Threads -> CallType]
    /\ admitted \in [Deliveries -> Nat] /\ runs \subseteq RunType
    /\ torn \subseteq Keys \cup {NoKey} /\ calls \in 0..MaxCalls

\* Clocks that were read are not ahead of the clock.
Clocks == \A c \in Threads : call[c].seen <= now /\ call[c].at <= now

\* A nonce on record, and one about to be claimed, lie within the skew of the signature.
Near(d, t) == stamp[d] # Never /\ t - stamp[d] \in -Skew..Skew

NonceFacts ==
    /\ \A d \in Deliveries :
          IF nonce[d] = Never THEN admitted[d] = 0 ELSE admitted[d] = 1 /\ Near(d, nonce[d])
    /\ \A c \in Threads :
          call[c].pc = "nonce" => call[c].msg \in Deliveries /\ Near(call[c].msg, call[c].seen)

---------------------------------------------------------------------------
\* The calls that are inside ingest, past its start.
Inside == {"look", "turned", "claim", "submit", "accept", "link", "release", "dead", "letter"}
In(c) == call[c].pc \in Inside

\* Ids are given out once.
FreshIds ==
    /\ \A c \in Threads : In(c) => call[c].id \in 1..calls
    /\ \A c, d \in Threads : In(c) /\ In(d) /\ call[c].id = call[d].id => c = d
    /\ \A r \in runs : r.by <= calls
    /\ \A e \in events : e.by <= calls
    /\ \A e \in dlq : e.id <= calls
    /\ \A k \in Keys : claims[k].by <= calls

\* What is on record of a call that is inside: its run, its claim, its event, its letter.
OwnRun(c) ==
    \A r \in runs : r.by = call[c].id =>
        /\ call[c].pc \notin {"look", "claim", "submit"}
        /\ call[c].pc = "release" => call[c].key \in torn

OwnClaim(c) ==
    \A k \in Keys : claims[k].by = call[c].id =>
        /\ k = call[c].key /\ call[c].pc \in {"submit", "accept", "link", "release"}
        /\ call[c].pc \in {"submit", "release"} => claims[k].at = call[c].seen

OwnEvent(c) ==
    \A e \in events : e.by = call[c].id =>
        call[c].pc = "link" \/ (call[c].pc = "letter" /\ e.key = NoKey)

OwnLetter(c) == \A e \in dlq : e.id # call[c].id

Own(c) == In(c) => OwnRun(c) /\ OwnClaim(c) /\ OwnEvent(c) /\ OwnLetter(c)

OneLetter == \A e, f \in dlq : e.id = f.id => e = f

Records == FreshIds /\ OneLetter /\ \A c \in Threads : Own(c)

---------------------------------------------------------------------------
\* A stake in a key: a run, or a call that has claimed it and is about to submit.
Stake(k, a, i) ==
    \/ \E r \in runs : r.key = k /\ r.at = a /\ r.by = i
    \/ \E c \in Threads :
          call[c].pc = "submit" /\ call[c].key = k /\ call[c].seen = a /\ call[c].id = i

Apart(a, b) == a - b > Window \/ b - a > Window

\* Stakes of a key are more than the window apart; its claim is that of a stake or later
\* than all of them by more than the window.  Where it was released, so are the clock and
\* the calls about to claim.
StakesApart ==
    \A k \in Keys \ torn : \A a, b \in 0..MaxTime : \A i, j \in 0..MaxCalls :
        Stake(k, a, i) /\ Stake(k, b, j) /\ i # j => Apart(a, b)

ClaimCovers ==
    \A k \in Keys \ torn : \A a \in 0..MaxTime : \A i \in 0..MaxCalls :
        Stake(k, a, i) =>
            IF claims[k] # Free
            THEN claims[k] = [at |-> a, by |-> i] \/ claims[k].at > a + Window
            ELSE /\ now > a + Window
                 /\ \A c \in Threads :
                       call[c].pc = "claim" /\ call[c].key = k => call[c].seen > a + Window

FreeClaims == \A k \in Keys : claims[k].by = 0 => claims[k] = Free

Stakes == StakesApart /\ ClaimCovers /\ FreeClaims

\* The inductive invariant.
IInv == Shape /\ Clocks /\ NonceFacts /\ Records /\ Stakes /\ DeadLetterReleased

---------------------------------------------------------------------------
\* The types of the constants, one by one.
LEMMA ConstantTypes ==
    /\ Instants \subseteq Nat \ {0} /\ Deliveries \subseteq Nat \ {0}
    /\ KeyOf \in [Deliveries -> Nat \ {0}]
    /\ Window \in Nat /\ Skew \in Nat /\ TickSeconds \in Nat
    /\ MaxCatchUp \in Nat \ {0} /\ MaxTime \in Nat \ {0} /\ MaxCalls \in Nat \ {0}
  BY TriggersAssumption, Zenon

\* An idle thread has a call of the right shape.
LEMMA IdleType == Idle \in CallType
  BY TriggersAssumption DEF Idle, CallType, Steps, Outcomes, NoKey

\* The empty store satisfies the invariant.
LEMMA InitIInv == Init => IInv
  <1> SUFFICES ASSUME Init PROVE IInv
    BY Zenon
  <1> USE TriggersAssumption DEF Init, Idle, Free, NoKey, Never
  <1>1. Shape
    <2>1. Free \in ClaimType
      BY ConstantTypes DEF ClaimType
    <2>2. claims \in [Keys -> ClaimType] /\ call \in [Threads -> CallType]
      BY <2>1, IdleType, Zenon
    <2>3. now \in 0..MaxTime /\ fired \in -1..MaxTime /\ calls \in 0..MaxCalls
      BY ConstantTypes
    <2>4. /\ stamp \in [Deliveries -> Int] /\ nonce \in [Deliveries -> Int]
          /\ admitted \in [Deliveries -> Nat]
      OBVIOUS
    <2> HIDE DEF Idle, Free
    <2> QED
      BY <2>2, <2>3, <2>4, Zenon DEF Shape
  <1>2. Clocks /\ NonceFacts
    BY DEF Clocks, NonceFacts
  <1>3. Records
    BY DEF Records, FreshIds, Own, OneLetter, In, Inside
  <1>4. Stakes
    BY DEF Stakes, StakesApart, ClaimCovers, FreeClaims, Stake
  <1>5. DeadLetterReleased
    BY Zenon DEF DeadLetterReleased
  <1> QED
    BY <1>1, <1>2, <1>3, <1>4, <1>5, Zenon DEF IInv

---------------------------------------------------------------------------
\* Types, action by action.

\* A call replaced by a call keeps the calls well-formed.
LEMMA CallsKept ==
    ASSUME NEW c \in Threads, NEW n \in CallType, call \in [Threads -> CallType], Enter(c, n)
    PROVE  call' \in [Threads -> CallType]
  BY Zenon DEF Enter

\* So is a call with a field replaced by a value of the field's type.
LEMMA FieldKept ==
    ASSUME NEW n \in CallType
    PROVE  /\ \A v \in Steps : [n EXCEPT !.pc = v] \in CallType
           /\ \A v \in Keys \cup {NoKey} : [n EXCEPT !.key = v] \in CallType
           /\ \A v \in 0..MaxCalls : [n EXCEPT !.id = v] \in CallType
           /\ \A v \in 0..MaxTime : [n EXCEPT !.at = v] \in CallType
           /\ \A v \in 0..MaxTime : [n EXCEPT !.seen = v] \in CallType
           /\ \A v \in 0..MaxCalls : [n EXCEPT !.entry = v] \in CallType
           /\ \A v \in SUBSET Instants : [n EXCEPT !.todo = v] \in CallType
           /\ \A v \in Deliveries : [n EXCEPT !.msg = v] \in CallType
           /\ \A v \in Outcomes : [n EXCEPT !.outcome = v] \in CallType
  BY Zenon DEF CallType

\* A call that moves on is a call.
LEMMA GotoKept ==
    ASSUME NEW c \in Threads, NEW p \in Steps, call \in [Threads -> CallType], Goto(c, p)
    PROVE  call' \in [Threads -> CallType]
  BY DEF Goto, CallType

\* A call that returns is a call.
LEMMA ReturnKept ==
    ASSUME NEW c \in Threads, call \in [Threads -> CallType], Return(c)
    PROVE  call' \in [Threads -> CallType]
  <1>1. CASE After(c) = "idle"
    BY <1>1, IdleType, CallsKept, Zenon DEF Return
  <1>2. CASE After(c) # "idle"
    <2>1. After(c) \in Steps
      BY Zenon DEF After, Steps
    <2> QED
      BY <1>2, <2>1, GotoKept, Zenon DEF Return
  <1> QED
    BY <1>1, <1>2, Zenon

\* What is due is a set of instants.
LEMMA DueShape ==
    ASSUME spec \in Specs, spec.source \in {"cron", "watch"}
    PROVE  Due \subseteq Instants
  <1>1. Missed \subseteq Instants
    BY Zenon DEF Missed
  <1>2. spec.policy \in {"skip", "catch_up", "catch_up_all"}
    BY TriggersAssumption, Zenon
  <1> QED
    BY <1>1, <1>2, Zenon DEF Due, Latest

\* A step that only replaces a call by a call.
LEMMA CallShape ==
    ASSUME Shape, NEW c \in Threads, NEW n \in CallType, Enter(c, n),
           UNCHANGED <<now, spec, frozen, stamp, nonce, store, history>>, calls' \in 0..MaxCalls
    PROVE  Shape'
  <1>1. call' \in [Threads -> CallType]
    BY CallsKept, Zenon DEF Shape
  <1> QED
    BY <1>1, Zenon DEF Shape, store, history

\* Deliveries, ticks and replays enter with a call of the right shape.
LEMMA ShapeEntry ==
    ASSUME Shape, NEW c \in Threads,
           \/ \E d \in Deliveries : Verify(c, d) \/ Deliver(c, d)
           \/ Tick(c) \/ Crash(c) \/ \E e \in dlq : Replay(c, e)
    PROVE  Shape'
  <1>a. Idle \in CallType /\ now \in 0..MaxTime /\ calls \in 0..MaxCalls
    BY IdleType, Zenon DEF Shape
  <1>b. {"nonce", "start", "next"} \subseteq Steps
    BY Zenon DEF Steps
  <1>1. ASSUME NEW d \in Deliveries, Verify(c, d) PROVE Shape'
    <2>1. KeyOf[d] \in Keys \cup {NoKey}
      BY Zenon DEF Keys
    <2>2. [Idle EXCEPT !.pc = "nonce", !.key = KeyOf[d], !.msg = d, !.seen = now] \in CallType
      BY <1>a, <1>b, <2>1, FieldKept, Zenon
    <2> QED
      BY <1>1, <1>a, <2>2, CallShape, Zenon DEF Verify, world, bounds
  <1>2. ASSUME NEW d \in Deliveries, Deliver(c, d) PROVE Shape'
    <2>1. KeyOf[d] \in Keys \cup {NoKey}
      BY Zenon DEF Keys
    <2>2. [Idle EXCEPT !.pc = "start", !.key = KeyOf[d]] \in CallType
      BY <1>a, <1>b, <2>1, FieldKept, Zenon
    <2> QED
      BY <1>2, <1>a, <2>2, CallShape, Zenon DEF Deliver, world, bounds
  <1>3. CASE Tick(c)
    <2>1. Due \in SUBSET Instants
      BY <1>3, DueShape, Zenon DEF Tick, Shape
    <2>2. [Idle EXCEPT !.pc = "next", !.todo = Due] \in CallType
      BY <1>a, <1>b, <2>1, FieldKept, Zenon
    <2> QED
      BY <1>3, <1>a, <2>2, CallShape, Zenon DEF Tick, world, bounds
  <1>4. CASE Crash(c)
    BY <1>4, <1>a, CallShape, Zenon DEF Crash, world
  <1>5. ASSUME NEW e \in dlq, Replay(c, e) PROVE Shape'
    <2> DEFINE k == IF spec.template THEN e.key ELSE NoKey
    <2>1. e.id \in 0..MaxCalls /\ k \in Keys \cup {NoKey}
      BY DEF Shape, LetterType
    <2> HIDE DEF k
    <2>2. [Idle EXCEPT !.pc = "start", !.entry = e.id, !.key = k] \in CallType
      BY <1>a, <1>b, <2>1, FieldKept, Zenon
    <2> QED
      BY <1>5, <1>a, <2>2, CallShape, Zenon DEF Replay, world, bounds, k
  <1> QED
    BY <1>1, <1>2, <1>3, <1>4, <1>5, Zenon

\* The claim of a nonce.
LEMMA ShapeNonce ==
    ASSUME Shape, NEW c \in Threads, ClaimNonce(c)
    PROVE  Shape'
  <1>1. call' \in [Threads -> CallType]
    <2>1. "start" \in Steps /\ call \in [Threads -> CallType]
      BY Zenon DEF Steps, Shape
    <2> QED
      BY <2>1, IdleType, CallsKept, GotoKept, Zenon DEF ClaimNonce
  <1>2. nonce' \in [Deliveries -> Int] /\ admitted' \in [Deliveries -> Nat]
    <2>1. call[c].seen \in Int
      BY DEF Shape, CallType
    <2> QED
      BY <2>1 DEF ClaimNonce, Shape
  <1> QED
    BY <1>1, <1>2, Zenon DEF ClaimNonce, Shape, world, store, bounds

\* The loop of the tick.
LEMMA ShapeInstant ==
    ASSUME Shape, NEW c \in Threads, NEW b \in BOOLEAN, NextInstant(c, b)
    PROVE  Shape'
  <1>1. call[c] \in CallType /\ call[c].todo \in SUBSET Instants
    BY Zenon DEF Shape, CallType
  <1>2. call' \in [Threads -> CallType]
    <2>1. CASE Enter(c, Idle)
      BY <2>1, IdleType, CallsKept, Zenon DEF Shape
    <2>2. ASSUME NEW i \in call[c].todo,
                 Enter(c, [call[c] EXCEPT !.pc = IF b THEN "next" ELSE "start",
                                          !.key = i, !.todo = @ \ {i}])
          PROVE  call' \in [Threads -> CallType]
      <3> DEFINE p == IF b THEN "next" ELSE "start"
      <3>1. p \in Steps /\ i \in Keys \cup {NoKey} /\ call[c].todo \ {i} \in SUBSET Instants
        BY <1>1, Zenon DEF Steps, Keys
      <3> HIDE DEF p
      <3>2. [call[c] EXCEPT !.pc = p, !.key = i] \in CallType
        BY <1>1, <3>1, FieldKept, Zenon
      <3>3. [call[c] EXCEPT !.pc = p, !.key = i].todo = call[c].todo
        BY <1>1, Zenon DEF CallType
      <3>4. [call[c] EXCEPT !.pc = p, !.key = i, !.todo = @ \ {i}] \in CallType
        BY <3>1, <3>2, <3>3, FieldKept, Zenon
      <3> QED
        BY <2>2, <3>4, CallsKept, Zenon DEF Shape, p
    <2> QED
      BY <2>1, <2>2, Zenon DEF NextInstant
  <1>3. events' \subseteq EventType
    <2>1. [key |-> NoKey, outcome |-> "concurrent", at |-> now, by |-> 0] \in EventType
      BY ConstantTypes DEF Shape, Outcomes, EventType
    <2>2. \/ events' = events
          \/ events' = events \cup {[key |-> NoKey, outcome |-> "concurrent", at |-> now, by |-> 0]}
      BY Zenon DEF NextInstant
    <2> QED
      BY <2>1, <2>2, Zenon DEF Shape
  <1>4. UNCHANGED <<now, spec, frozen, stamp, nonce, claims, fired, dlq, admitted, runs, torn, calls>>
    BY Zenon DEF NextInstant, world, history, bounds
  <1> QED
    BY <1>2, <1>3, <1>4, Zenon DEF Shape

\* ingest up to its verdict
LEMMA ShapeLook ==
    ASSUME Shape, NEW c \in Threads,
           \E b \in BOOLEAN : Start(c, b) \/ Look(c, b)
    PROVE  Shape'
  <1>a. call[c] \in CallType /\ now \in 0..MaxTime /\ calls \in 0..MaxCalls
    BY Zenon DEF Shape
  <1>1. ASSUME NEW b \in BOOLEAN, Start(c, b) PROVE Shape'
    <2> DEFINE p == IF frozen THEN "turned" ELSE IF b THEN "look" ELSE "dead"
               o == IF frozen THEN "freeze" ELSE "none"
    <2>1. p \in Steps /\ o \in Outcomes
      BY Zenon DEF Steps, Outcomes
    <2> HIDE DEF p, o
    <2>2. calls < MaxCalls /\ calls' = calls + 1
      BY <1>1, Zenon DEF Start
    <2>3. calls' \in 0..MaxCalls
      BY <1>a, <2>2, ConstantTypes
    <2>4. [call[c] EXCEPT !.pc = p, !.outcome = o, !.id = calls', !.at = now] \in CallType
      BY <1>a, <2>1, <2>3, FieldKept, Zenon
    <2>5. /\ Enter(c, [call[c] EXCEPT !.pc = p, !.outcome = o, !.id = calls', !.at = now])
          /\ UNCHANGED <<now, spec, frozen, stamp, nonce, store, history>>
      BY <1>1, Zenon DEF Start, world, p, o
    <2> QED
      BY <2>3, <2>4, <2>5, CallShape, Zenon
  <1>2. ASSUME NEW b \in BOOLEAN, Look(c, b) PROVE Shape'
    <2>1. PICK v \in Outcomes :
             Enter(c, [call[c] EXCEPT !.pc = IF v = "none" THEN "claim" ELSE "turned",
                                      !.outcome = v, !.seen = now])
      BY <1>2, Zenon DEF Look, Outcomes
    <2> DEFINE p == IF v = "none" THEN "claim" ELSE "turned"
    <2>2. p \in Steps
      BY Zenon DEF Steps
    <2> HIDE DEF p
    <2>3. [call[c] EXCEPT !.pc = p, !.outcome = v, !.seen = now] \in CallType
      BY <1>a, <2>2, FieldKept, Zenon
    <2>4. UNCHANGED <<now, spec, frozen, stamp, nonce, store, history, calls>>
      BY <1>2, Zenon DEF Look, world, bounds
    <2> QED
      BY <1>a, <2>1, <2>3, <2>4, CallShape, Zenon DEF p
  <1> QED
    BY <1>1, <1>2, Zenon

\* The recorded verdict, and the claim.
LEMMA ShapeClaim ==
    ASSUME Shape, NEW c \in Threads, Turn(c) \/ Claim(c)
    PROVE  Shape'
  <1>a. call[c] \in CallType /\ call \in [Threads -> CallType]
    BY Zenon DEF Shape
  <1>1. CASE Turn(c)
    <2>1. call' \in [Threads -> CallType]
      BY <1>1, <1>a, ReturnKept, Zenon DEF Turn
    <2>2. Event(c, IF call[c].outcome = "freeze" THEN NoKey ELSE call[c].key, call[c].outcome) \in EventType
      BY <1>a, Zenon DEF Event, CallType, EventType
    <2> QED
      BY <1>1, <2>1, <2>2, Zenon DEF Turn, Shape, world, history, bounds
  <1>2. CASE Claim(c)
    <2>1. {"turned", "submit"} \subseteq Steps /\ "deduplicated" \in Outcomes
      BY Zenon DEF Steps, Outcomes
    <2>2. [call[c] EXCEPT !.pc = "turned", !.outcome = "deduplicated"] \in CallType
      BY <1>a, <2>1, FieldKept, Zenon
    <2>3. call' \in [Threads -> CallType]
      BY <1>2, <1>a, <2>1, <2>2, CallsKept, GotoKept, Zenon DEF Claim
    <2>4. [at |-> call[c].seen, by |-> call[c].id] \in ClaimType
      BY <1>a DEF CallType, ClaimType
    <2>5. claims' \in [Keys -> ClaimType]
      BY <1>2, <2>4, Zenon DEF Claim, Shape
    <2>6. UNCHANGED <<now, spec, frozen, stamp, nonce, events, fired, dlq, admitted, runs, torn, calls>>
      BY <1>2, Zenon DEF Claim, world, history, bounds
    <2> QED
      BY <2>3, <2>5, <2>6, Zenon DEF Shape
  <1> QED
    BY <1>1, <1>2, Zenon

\* ingest from the submission on
LEMMA ShapeSubmit ==
    ASSUME Shape, FreshIds, NEW c \in Threads,
           \/ \E a \in {"run", "blocked", "raised", "late"} : Submit(c, a)
           \/ Accept(c) \/ Link(c) \/ Release(c) \/ Fail(c) \/ Letter(c)
    PROVE  Shape'
  <1> USE DEF world, store, history, bounds
  <1>0. call[c] \in CallType
    BY Zenon DEF Shape
  <1>1. ASSUME NEW a \in {"run", "blocked", "raised", "late"}, Submit(c, a) PROVE Shape'
    <2>1. call' \in [Threads -> CallType]
      BY <1>1, GotoKept, Zenon DEF Submit, Shape, Steps
    <2>2. [key |-> call[c].key, at |-> call[c].seen, by |-> call[c].id] \in RunType
      BY <1>0, Zenon DEF CallType, RunType
    <2>3. torn' \subseteq Keys \cup {NoKey}
      BY <1>0, <1>1, Zenon DEF Submit, Shape, CallType
    <2> QED
      BY <1>1, <2>1, <2>2, <2>3, Zenon DEF Submit, Shape
  <1>2. CASE Accept(c)
    <2>1. call' \in [Threads -> CallType]
      BY <1>2, GotoKept, Zenon DEF Accept, Shape, Steps
    <2>2. Event(c, call[c].key, "accepted") \in EventType
      BY <1>0, Zenon DEF Event, CallType, Outcomes, EventType
    <2> QED
      BY <1>2, <2>1, <2>2, Zenon DEF Accept, Shape
  <1>3. CASE Link(c)
    <2>1. call' \in [Threads -> CallType]
      BY <1>3, ReturnKept, Zenon DEF Link, Shape
    <2>2. fired' \in Never..MaxTime
      BY <1>0, <1>3, ConstantTypes DEF Link, Shape, CallType, Never
    <2> QED
      BY <1>3, <2>1, <2>2, Zenon DEF Link, Shape
  <1>4. CASE Release(c)
    <2>1. call' \in [Threads -> CallType]
      BY <1>4, GotoKept, Zenon DEF Release, Shape, Steps
    <2>2. Free \in ClaimType
      BY ConstantTypes DEF Free, Never, ClaimType
    <2>3. claims' \in [Keys -> ClaimType]
      BY <1>4, <2>2, Zenon DEF Release, Shape
    <2>4. torn' \subseteq Keys \cup {NoKey}
      BY <1>0, <1>4, Zenon DEF Release, Shape, CallType
    <2> QED
      BY <1>4, <2>1, <2>3, <2>4, Zenon DEF Release, Shape
  <1>5. CASE Fail(c)
    <2>1. call' \in [Threads -> CallType]
      BY <1>5, GotoKept, Zenon DEF Fail, Shape, Steps
    <2>2. Event(c, NoKey, "failed") \in EventType
      BY <1>0, Zenon DEF Event, CallType, Outcomes, EventType
    <2> QED
      BY <1>5, <2>1, <2>2, Zenon DEF Fail, Shape
  <1>6. CASE Letter(c)
    <2>1. call' \in [Threads -> CallType]
      BY <1>6, ReturnKept, Zenon DEF Letter, Shape
    <2>2. call[c].id \in 1..MaxCalls
      BY <1>6, ConstantTypes DEF Letter, FreshIds, In, Inside, Shape
    <2>3. [id |-> call[c].id, key |-> call[c].key, replayed |-> FALSE] \in LetterType
      BY <1>0, <2>2, Zenon DEF CallType, LetterType
    <2> QED
      BY <1>6, <2>1, <2>3, Zenon DEF Letter, Shape
  <1> QED
    BY <1>1, <1>2, <1>3, <1>4, <1>5, <1>6, Zenon

\* The mark on a dead letter, and the environment.
LEMMA ShapeWorld ==
    ASSUME Shape,
           \/ \E c \in Threads : Mark(c)
           \/ \E d \in Deliveries : Sign(d)
           \/ Freeze \/ Pass
    PROVE  Shape'
  <1> USE DEF world, store, history, bounds
  <1>1. ASSUME NEW c \in Threads, Mark(c) PROVE Shape'
    <2>1. call' \in [Threads -> CallType]
      BY <1>1, IdleType, CallsKept, Zenon DEF Mark, Shape
    <2>2. \A e \in dlq : [e EXCEPT !.replayed = TRUE] \in LetterType /\ e \in LetterType
      BY Zenon DEF Shape, LetterType
    <2>3. dlq' \subseteq LetterType
      BY <1>1, <2>2, Zenon DEF Mark
    <2> QED
      BY <1>1, <2>1, <2>3, Zenon DEF Mark, Shape
  <1>2. ASSUME NEW d \in Deliveries, Sign(d) PROVE Shape'
    BY <1>2 DEF Sign, Shape
  <1>3. CASE Freeze
    BY <1>3, Zenon DEF Freeze, Shape
  <1>4. CASE Pass
    BY <1>4, ConstantTypes DEF Pass, Shape
  <1> QED
    BY <1>1, <1>2, <1>3, <1>4, Zenon

---------------------------------------------------------------------------
\* What the actions do to the calls.

Others(c) == \A x \in Threads \ {c} : call'[x] = call[x]

\* The call is not inside ingest, nor at its nonce, after the step.
Left(c) ==
    /\ Others(c) /\ call'[c].pc \notin Inside \cup {"nonce"}
    /\ call'[c].seen <= now /\ call'[c].at <= now

\* The call goes on to p and its data stay.
Moved(c, p) ==
    /\ Others(c) /\ call'[c].pc = p
    /\ call'[c].key = call[c].key /\ call'[c].id = call[c].id
    /\ call'[c].seen = call[c].seen /\ call'[c].at = call[c].at

\* Goto moves the call.
LEMMA GotoMoves ==
    ASSUME Shape, NEW c \in Threads, NEW p, Goto(c, p)
    PROVE  Moved(c, p)
  BY Zenon DEF Shape, CallType, Goto, Moved, Others

\* Return leaves ingest.
LEMMA ReturnLeaves ==
    ASSUME Shape, Clocks, NEW c \in Threads, Return(c)
    PROVE  Left(c)
  <1>1. CASE After(c) = "idle"
    BY <1>1, ConstantTypes DEF Return, Enter, Idle, Left, Others, Inside, Shape
  <1>2. CASE After(c) # "idle"
    <2>1. Moved(c, After(c))
      BY <1>2, GotoMoves, Zenon DEF Return
    <2>2. After(c) \notin Inside \cup {"nonce"}
      BY Zenon DEF After, Inside
    <2> QED
      BY <2>1, <2>2, Zenon DEF Moved, Left, Clocks
  <1> QED
    BY <1>1, <1>2, Zenon

\* So does going idle.
LEMMA IdleLeaves ==
    ASSUME Shape, NEW c \in Threads, Enter(c, Idle)
    PROVE  Left(c)
  BY ConstantTypes DEF Enter, Idle, Left, Others, Inside, Shape

\* The deliveries, the tick and the replay leave the call before ingest.
LEMMA EntryLeaves ==
    ASSUME Shape, Clocks, NEW c \in Threads,
           \/ \E d \in Deliveries : Deliver(c, d)
           \/ ClaimNonce(c) \/ Tick(c)
           \/ \E b \in BOOLEAN : NextInstant(c, b)
           \/ \E e \in dlq : Replay(c, e)
           \/ Mark(c) \/ Crash(c)
    PROVE  Left(c)
  <1>0. call[c] \in CallType /\ call[c].seen <= now /\ call[c].at <= now /\ now \in Nat
    BY DEF Shape, Clocks
  <1>a. ASSUME NEW n, Enter(c, n), n.pc \notin Inside \cup {"nonce"}, n.seen = 0, n.at = 0
        PROVE  Left(c)
    BY <1>0, <1>a DEF Enter, Left, Others, Shape
  <1>1. CASE \E d \in Deliveries : Deliver(c, d)
    <2>1. PICK d \in Deliveries : Enter(c, [Idle EXCEPT !.pc = "start", !.key = KeyOf[d]])
      BY <1>1, Zenon DEF Deliver
    <2> QED
      BY <2>1, <1>a, Zenon DEF Idle, Inside
  <1>2. CASE ClaimNonce(c)
    <2>1. CASE Goto(c, "start")
      BY <2>1, <1>0, GotoMoves DEF Moved, Left, Inside
    <2> QED
      BY <1>2, <2>1, IdleLeaves, Zenon DEF ClaimNonce
  <1>3. CASE Tick(c)
    BY <1>0, <1>3 DEF Tick, Enter, Idle, Left, Others, Inside, Shape
  <1>4. CASE \E b \in BOOLEAN : NextInstant(c, b)
    <2>1. PICK b \in BOOLEAN : NextInstant(c, b)
      BY <1>4, Zenon
    <2>2. CASE Enter(c, Idle)
      BY <2>2, IdleLeaves, Zenon
    <2>3. ASSUME NEW i \in call[c].todo,
                 Enter(c, [call[c] EXCEPT !.pc = IF b THEN "next" ELSE "start",
                                          !.key = i, !.todo = @ \ {i}])
          PROVE  Left(c)
      BY <1>0, <2>3, Zenon DEF Enter, Left, Others, Inside, Shape, CallType
    <2> QED
      BY <2>1, <2>2, <2>3, Zenon DEF NextInstant
  <1>5. CASE \E e \in dlq : Replay(c, e)
    <2>1. PICK e \in dlq : Enter(c, [Idle EXCEPT !.pc = "start", !.entry = e.id,
                                              !.key = IF spec.template THEN e.key ELSE NoKey])
      BY <1>5, Zenon DEF Replay
    <2> QED
      BY <2>1, <1>a, Zenon DEF Idle, Inside
  <1>6. CASE Mark(c) \/ Crash(c)
    BY <1>6, IdleLeaves, Zenon DEF Mark, Crash
  <1> QED
    BY <1>1, <1>2, <1>3, <1>4, <1>5, <1>6, Zenon

\* A verified delivery is at its nonce, with the clock it was compared with.
LEMMA VerifyMoves ==
    ASSUME Shape, NEW c \in Threads, NEW d \in Deliveries, Verify(c, d)
    PROVE  /\ Others(c) /\ call'[c].pc = "nonce" /\ call'[c].msg = d
           /\ call'[c].seen = now /\ call'[c].at = 0 /\ Near(d, now)
  <1>1. Enter(c, [Idle EXCEPT !.pc = "nonce", !.key = KeyOf[d], !.msg = d, !.seen = now])
    BY Zenon DEF Verify
  <1>2. Others(c) /\ call'[c].pc = "nonce" /\ call'[c].msg = d /\ call'[c].seen = now /\ call'[c].at = 0
    BY <1>1, Zenon DEF Enter, Others, Idle, Shape
  <1> QED
    BY <1>2, Zenon DEF Verify, Near

\* The start of ingest takes the next id.
LEMMA StartMoves ==
    ASSUME Shape, NEW c \in Threads, NEW b \in BOOLEAN, Start(c, b)
    PROVE  /\ Others(c) /\ call'[c].pc \in {"turned", "look", "dead"}
           /\ call'[c].id = calls + 1 /\ calls' = calls + 1 /\ call'[c].at = now
           /\ call'[c].seen = call[c].seen /\ call'[c].key = call[c].key
  <1>1. /\ Enter(c, [call[c] EXCEPT !.pc = IF frozen THEN "turned" ELSE IF b THEN "look" ELSE "dead",
                                    !.outcome = IF frozen THEN "freeze" ELSE "none",
                                    !.id = calls + 1, !.at = now])
        /\ calls' = calls + 1
    BY Zenon DEF Start
  <1> QED
    BY <1>1, Zenon DEF Enter, Others, Shape, CallType

\* The limiter notes its clock, and goes on to the claim only without a verdict.
LEMMA LookMoves ==
    ASSUME Shape, NEW c \in Threads, NEW b \in BOOLEAN, Look(c, b)
    PROVE  /\ Others(c) /\ call'[c].pc \in {"claim", "turned"} /\ call'[c].seen = now
           /\ call'[c].id = call[c].id /\ call'[c].at = call[c].at /\ call'[c].key = call[c].key
  <1>1. PICK v : Enter(c, [call[c] EXCEPT !.pc = IF v = "none" THEN "claim" ELSE "turned",
                                          !.outcome = v, !.seen = now])
    BY Zenon DEF Look
  <1> QED
    BY <1>1, Zenon DEF Enter, Others, Shape, CallType

\* The claim, the submission and what follows move the call.
LEMMA IngestMoves ==
    ASSUME Shape, NEW c \in Threads
    PROVE  /\ Claim(c) => Moved(c, "submit") \/ Moved(c, "turned")
           /\ \A a \in {"run", "blocked", "raised", "late"} :
                 Submit(c, a) => Moved(c, IF a \in {"run", "blocked"} THEN "accept" ELSE "release")
           /\ Accept(c) => Moved(c, "link")
           /\ Release(c) => Moved(c, "dead")
           /\ Fail(c) => Moved(c, "letter")
  <1>1. ASSUME Claim(c) PROVE Moved(c, "submit") \/ Moved(c, "turned")
    <2>1. CASE Goto(c, "submit")
      BY <2>1, GotoMoves, Zenon
    <2>2. CASE Enter(c, [call[c] EXCEPT !.pc = "turned", !.outcome = "deduplicated"])
      BY <2>2, Zenon DEF Enter, Moved, Others, Shape, CallType
    <2> QED
      BY <1>1, <2>1, <2>2, Zenon DEF Claim
  <1>2. \A a \in {"run", "blocked", "raised", "late"} :
           Submit(c, a) => Moved(c, IF a \in {"run", "blocked"} THEN "accept" ELSE "release")
    BY GotoMoves, Zenon DEF Submit
  <1>3. /\ Accept(c) => Moved(c, "link")
        /\ Release(c) => Moved(c, "dead")
        /\ Fail(c) => Moved(c, "letter")
    BY GotoMoves, Zenon DEF Accept, Release, Fail
  <1> QED
    BY <1>1, <1>2, <1>3, Zenon

---------------------------------------------------------------------------
\* No call has read a clock from the future.
LEMMA ClocksKept ==
    ASSUME Shape, Clocks, Next
    PROVE  Clocks'
  <1> USE DEF world, bounds
  <1>a. now \in Nat /\ \A x \in Threads : call[x].seen <= now /\ call[x].at <= now
    BY DEF Shape, Clocks
  <1>b. ASSUME now' = now, NEW c \in Threads, Left(c) PROVE Clocks'
    BY <1>a, <1>b, Zenon DEF Clocks, Left, Others
  <1>c. ASSUME now' = now, NEW c \in Threads, NEW p, Moved(c, p) PROVE Clocks'
    BY <1>a, <1>c, Zenon DEF Clocks, Moved, Others
  <1>1. ASSUME NEW c \in Threads, NEW d \in Deliveries, Verify(c, d) PROVE Clocks'
    <2>1. now' = now
      BY <1>1, Zenon DEF Verify
    <2> QED
      BY <1>a, <1>1, <2>1, VerifyMoves DEF Clocks, Others
  <1>2. ASSUME NEW c \in Threads,
               \/ \E d \in Deliveries : Deliver(c, d)
               \/ ClaimNonce(c) \/ Tick(c)
               \/ \E b \in BOOLEAN : NextInstant(c, b)
               \/ \E e \in dlq : Replay(c, e)
               \/ Mark(c) \/ Crash(c)
        PROVE  Clocks'
    <2>1. now' = now
      BY <1>2, Zenon DEF Deliver, ClaimNonce, Tick, NextInstant, Replay, Mark, Crash
    <2> QED
      BY <1>2, <1>b, <2>1, EntryLeaves, Zenon
  <1>3. ASSUME NEW c \in Threads, NEW b \in BOOLEAN, Start(c, b) PROVE Clocks'
    <2>1. now' = now
      BY <1>3, Zenon DEF Start
    <2> QED
      BY <1>a, <1>3, <2>1, StartMoves DEF Clocks, Others
  <1>4. ASSUME NEW c \in Threads, NEW b \in BOOLEAN, Look(c, b) PROVE Clocks'
    <2>1. now' = now
      BY <1>4, Zenon DEF Look
    <2> QED
      BY <1>a, <1>4, <2>1, LookMoves DEF Clocks, Others
  <1>5. ASSUME NEW c \in Threads, Turn(c) \/ Link(c) \/ Letter(c) PROVE Clocks'
    BY <1>5, <1>b, ReturnLeaves, Zenon DEF Turn, Link, Letter
  <1>6. ASSUME NEW c \in Threads,
               \/ Claim(c) \/ Accept(c) \/ Release(c) \/ Fail(c)
               \/ \E a \in {"run", "blocked", "raised", "late"} : Submit(c, a)
        PROVE  Clocks'
    <2>1. now' = now
      BY <1>6, Zenon DEF Claim, Accept, Release, Fail, Submit
    <2> QED
      BY <1>6, <1>c, <2>1, IngestMoves, Zenon
  <1>7. CASE (\E d \in Deliveries : Sign(d)) \/ Freeze
    BY <1>7, Zenon DEF Sign, Freeze, Clocks
  <1>8. CASE Pass
    BY <1>a, <1>8 DEF Pass, Clocks, Shape, CallType
  <1> QED
    BY <1>1, <1>2, <1>3, <1>4, <1>5, <1>6, <1>7, <1>8, Zenon DEF Next, Ingest

---------------------------------------------------------------------------
\* The nonces.  A second claim of a nonce comes within twice the skew of the first: both
\* clocks lie within the skew of the signature.

LEMMA NonceKept ==
    ASSUME Shape, Clocks, NonceFacts, Next
    PROVE  NonceFacts'
  <1> USE DEF world, bounds, history
  <1> DEFINE Quiet == UNCHANGED <<stamp, nonce, admitted>>
  <1>a. ASSUME Quiet, NEW c \in Threads, Others(c), call'[c].pc # "nonce" PROVE NonceFacts'
    BY <1>a, Zenon DEF NonceFacts, Near, Others
  <1>1. ASSUME NEW c \in Threads, NEW d \in Deliveries, Verify(c, d) PROVE NonceFacts'
    <2>1. Quiet
      BY <1>1, Zenon DEF Verify
    <2> QED
      BY <1>1, <2>1, VerifyMoves DEF NonceFacts, Near, Others
  <1>2. ASSUME NEW c \in Threads, ClaimNonce(c) PROVE NonceFacts'
    <2> DEFINE d == call[c].msg
    <2>1. /\ d \in Deliveries /\ Near(d, call[c].seen) /\ call[c].seen \in Nat
          /\ stamp[d] \in Int /\ nonce[d] \in Int
      BY <1>2 DEF ClaimNonce, NonceFacts, Shape, CallType
    <2>2. Left(c) /\ stamp' = stamp
      BY <1>2, EntryLeaves, Zenon DEF ClaimNonce
    <2>3. \A x \in Threads : call'[x].pc = "nonce" => call'[x] = call[x]
      BY <2>2, Zenon DEF Left, Others
    <2>4. CASE UNCHANGED <<nonce, admitted>>
      BY <2>2, <2>3, <2>4, Zenon DEF NonceFacts, Near
    <2>5. CASE /\ nonce[d] = Never \/ nonce[d] < call[c].seen - NonceWindow
               /\ nonce' = [nonce EXCEPT ![d] = call[c].seen]
               /\ admitted' = [admitted EXCEPT ![d] = @ + 1]
      <3>1. nonce[d] = Never
        <4> SUFFICES ASSUME nonce[d] # Never PROVE FALSE
          BY Zenon
        <4>1. Near(d, nonce[d])
          BY <2>1, Zenon DEF NonceFacts
        <4> QED
          BY <2>1, <2>5, <4>1, ConstantTypes DEF Near, NonceWindow
      <3>2. admitted[d] = 0
        BY <2>1, <3>1, Zenon DEF NonceFacts
      <3>3. call[c].seen # Never
        BY <2>1 DEF Never
      <3>4. /\ nonce'[d] = call[c].seen /\ admitted'[d] = 1
            /\ \A e \in Deliveries \ {d} : nonce'[e] = nonce[e] /\ admitted'[e] = admitted[e]
        BY <2>1, <2>5, <3>2 DEF Shape
      <3> HIDE DEF d
      <3>5. \A e \in Deliveries :
               IF nonce'[e] = Never THEN admitted'[e] = 0
               ELSE admitted'[e] = 1 /\ Near(e, nonce'[e])
        BY <2>1, <3>3, <3>4, Zenon DEF NonceFacts
      <3> QED
        BY <2>2, <2>3, <3>5, Zenon DEF NonceFacts, Near
    <2> QED
      BY <1>2, <2>4, <2>5, Zenon DEF ClaimNonce
  <1>3. ASSUME NEW c \in Threads,
               \/ \E d \in Deliveries : Deliver(c, d)
               \/ Tick(c)
               \/ \E b \in BOOLEAN : NextInstant(c, b)
               \/ \E e \in dlq : Replay(c, e)
               \/ Mark(c) \/ Crash(c)
        PROVE  NonceFacts'
    <2>1. Quiet
      BY <1>3, Zenon DEF Deliver, Tick, NextInstant, Replay, Mark, Crash
    <2> QED
      BY <1>3, <1>a, <2>1, EntryLeaves, Zenon DEF Left
  <1>4. ASSUME NEW c \in Threads, NEW b \in BOOLEAN, Start(c, b) PROVE NonceFacts'
    <2>1. Quiet
      BY <1>4, Zenon DEF Start
    <2> QED
      BY <1>a, <1>4, <2>1, StartMoves, Zenon
  <1>5. ASSUME NEW c \in Threads, NEW b \in BOOLEAN, Look(c, b) PROVE NonceFacts'
    <2>1. Quiet
      BY <1>5, Zenon DEF Look
    <2> QED
      BY <1>a, <1>5, <2>1, LookMoves, Zenon
  <1>6. ASSUME NEW c \in Threads, Turn(c) \/ Link(c) \/ Letter(c) PROVE NonceFacts'
    BY <1>6, <1>a, ReturnLeaves, Zenon DEF Turn, Link, Letter, Left
  <1>7. ASSUME NEW c \in Threads,
               \/ Claim(c) \/ Accept(c) \/ Release(c) \/ Fail(c)
               \/ \E a \in {"run", "blocked", "raised", "late"} : Submit(c, a)
        PROVE  NonceFacts'
    <2>1. Quiet
      BY <1>7, Zenon DEF Claim, Accept, Release, Fail, Submit
    <2> QED
      BY <1>7, <1>a, <2>1, IngestMoves, Zenon DEF Moved
  <1>8. ASSUME NEW d \in Deliveries, Sign(d) PROVE NonceFacts'
    <2>1. \A e \in Deliveries : stamp[e] # Never => stamp'[e] = stamp[e]
      BY <1>8, Zenon DEF Sign, Shape
    <2> QED
      BY <1>8, <2>1, Zenon DEF Sign, NonceFacts, Near
  <1>9. CASE Freeze \/ Pass
    BY <1>9, Zenon DEF Freeze, Pass, NonceFacts, Near
  <1> QED
    BY <1>1, <1>2, <1>3, <1>4, <1>5, <1>6, <1>7, <1>8, <1>9, Zenon DEF Next, Ingest
==========================================================================
