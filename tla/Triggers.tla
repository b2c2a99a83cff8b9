------------------------------ MODULE Triggers ------------------------------
(***************************************************************************)
(* One trigger of triggers/: webhook verification, the cron and watch      *)
(* tick, the limiter, ingest with its dead letters, and their replay, on   *)
(* replicas that share the Postgres store.  A thread handles one delivery  *)
(* at a time, and each of its steps is one transaction on the store, so    *)
(* the clock a step compares with may have been read some steps before.    *)
(*                                                                         *)
(* The token buckets live in the memory of a replica and are abstracted to *)
(* a choice; so are what a template renders and what submission answers.   *)
(* The key of a delivery is the dedup key of its payload: a number, for a  *)
(* tick the scheduled instant itself.                                      *)
(***************************************************************************)
EXTENDS Integers, FiniteSets

CONSTANTS
    Threads,           \* one per replica
    Specs,             \* [source, template, policy, cooldown] the trigger may have
    Deliveries,        \* signed webhook deliveries, each with its nonce
    KeyOf,             \* the dedup key of a delivery's payload
    Instants,          \* what the schedule matches
    Window,            \* dedup.window_minutes
    Skew,              \* skew_seconds, and replay_window_seconds, which equals it
    TickSeconds, MaxCatchUp,
    MaxTime, MaxCalls, MaxCrashes, MaxFreezes

ASSUME TriggersAssumption ==
    /\ Instants \subseteq Nat \ {0} /\ Deliveries \subseteq Nat \ {0} /\ KeyOf \in [Deliveries -> Nat \ {0}]
    /\ {Window, TickSeconds, MaxCatchUp, MaxTime, MaxCalls} \subseteq Nat \ {0}
    /\ {Skew, MaxCrashes, MaxFreezes} \subseteq Nat
    /\ \A s \in Specs : s.source \in {"cron", "watch"} => s.policy \in {"skip", "catch_up", "catch_up_all"}

VARIABLES
    now, spec,
    frozen,            \* a freeze window covers the target
    stamp,             \* the timestamp a delivery is signed with
    nonce,             \* seen_at of its nonce
    admitted,          \* history: how often it passed verification
    claims,            \* the dedup claim on each key
    events,            \* TriggerEvents
    fired,             \* fired_at of the last TriggerRun
    dlq,               \* TriggerDlqEntries
    runs,              \* history: runs submitted
    torn,              \* history: keys whose claim was released after the run was created,
                       \* or from under another call: the claim was that call's, or that
                       \* call, with an older clock, was about to claim
    call,              \* what each thread is doing
    calls, crashes, freezes

store == <<claims, events, fired, dlq>>
history == <<admitted, runs, torn>>
vars == <<now, spec, frozen, stamp, nonce, store, history, call, calls, crashes, freezes>>

NoKey == 0
Never == -1
Free == [at |-> Never, by |-> 0]
Keys == Instants \cup {KeyOf[d] : d \in Deliveries}
Idle == [pc |-> "idle", key |-> NoKey, id |-> 0, at |-> 0, seen |-> 0, entry |-> 0,
         todo |-> {}, msg |-> 0, outcome |-> "none"]
Steps == {"idle", "nonce", "next", "start", "look", "turned", "claim", "submit", "accept",
          "link", "release", "dead", "letter", "mark"}
Outcomes == {"none", "accepted", "deduplicated", "cooldown", "rate", "freeze",
             "concurrent", "failed"}

Init ==
    /\ now = 0 /\ spec \in Specs /\ frozen = FALSE
    /\ stamp = [d \in Deliveries |-> Never] /\ nonce = [d \in Deliveries |-> Never]
    /\ admitted = [d \in Deliveries |-> 0]
    /\ claims = [k \in Keys |-> Free]
    /\ events = {} /\ fired = Never /\ dlq = {} /\ runs = {} /\ torn = {}
    /\ call = [c \in Threads |-> Idle]
    /\ calls = 0 /\ crashes = 0 /\ freezes = 0

Enter(c, new) == call' = [call EXCEPT ![c] = new]
Goto(c, pc) == call' = [call EXCEPT ![c].pc = pc]

\* Where a call returns to: replay_dlq, the loop of the tick, or the client.
After(c) ==
    IF call[c].entry # 0 THEN "mark"
    ELSE IF spec.source \in {"cron", "watch"} THEN "next" ELSE "idle"

Return(c) == IF After(c) = "idle" THEN Enter(c, Idle) ELSE Goto(c, After(c))

bounds == <<calls, crashes, freezes>>
world == <<now, spec, frozen, stamp>>

---------------------------------------------------------------------------
\* Deliveries.  The sender of a webhook signs a delivery once, with a clock that may be
\* off by the skew, and may send it any number of times.

Sign(d) ==
    /\ spec.source = "webhook" /\ stamp[d] = Never
    /\ \E t \in (now - Skew)..(now + Skew) : t >= 0 /\ stamp' = [stamp EXCEPT ![d] = t]
    /\ UNCHANGED <<now, spec, frozen, nonce, store, history, call, bounds>>

\* verify reads the clock and checks timestamp and signature; a failure changes nothing.
Verify(c, d) ==
    /\ call[c].pc = "idle" /\ stamp[d] # Never
    /\ now - stamp[d] \in -Skew..Skew
    /\ Enter(c, [Idle EXCEPT !.pc = "nonce", !.key = KeyOf[d], !.msg = d, !.seen = now])
    /\ UNCHANGED <<world, nonce, store, history, bounds>>

\* Mutation of NonceWindow: the nonce is remembered for the skew only.
NonceWindowShort == Skew

\* max(replay_window, 2 * skew)
NonceWindow == 2 * Skew

\* claim_nonce: a seen nonce is a replay (409), unless it was seen too long ago.
ClaimNonce(c) ==
    LET d == call[c].msg IN
    /\ call[c].pc = "nonce"
    /\ IF nonce[d] = Never \/ nonce[d] < call[c].seen - NonceWindow
       THEN /\ nonce' = [nonce EXCEPT ![d] = call[c].seen]
            /\ admitted' = [admitted EXCEPT ![d] = @ + 1]
            /\ Goto(c, "start")
       ELSE Enter(c, Idle) /\ UNCHANGED <<nonce, admitted>>
    /\ UNCHANGED <<world, store, runs, torn, bounds>>

\* The other sources have no nonce.  Where the specification has no template of the
\* key, alertmanager passes the fingerprint for it.
Deliver(c, d) ==
    /\ spec.source \in {"github", "alertmanager"} /\ call[c].pc = "idle"
    /\ Enter(c, [Idle EXCEPT !.pc = "start", !.key = KeyOf[d]])
    /\ UNCHANGED <<world, nonce, store, history, bounds>>

---------------------------------------------------------------------------
\* The schedule

\* due walks the matches after the anchor, oldest first, at most 4 * MaxCatchUp of them.
Anchor == IF fired = Never THEN now - TickSeconds ELSE fired

Missed ==
    LET due == {i \in Instants : Anchor < i /\ i <= now}
    IN  {i \in due : Cardinality({j \in due : j < i}) < 4 * MaxCatchUp}

Latest(S) == {i \in S : \A j \in S : j <= i}

\* Mutation of Due: the window of skip is measured from the oldest missed instant.
DueOldest ==
    IF Missed = {} THEN {}
    ELSE CASE spec.policy = "skip" -> {i \in Latest(Missed) : \A j \in Missed : now - j <= TickSeconds}
           [] spec.policy = "catch_up" -> Latest(Missed)
           [] spec.policy = "catch_up_all" ->
                  {i \in Missed : Cardinality({j \in Missed : j > i}) < MaxCatchUp}

Due ==
    IF Missed = {} THEN {}
    ELSE CASE spec.policy = "skip" -> {i \in Latest(Missed) : now - i <= TickSeconds}
           [] spec.policy = "catch_up" -> Latest(Missed)
           [] spec.policy = "catch_up_all" ->
                  {i \in Missed : Cardinality({j \in Missed : j > i}) < MaxCatchUp}

\* The tick of a replica computes the due instants once and ingests them one by one.
Tick(c) ==
    /\ spec.source \in {"cron", "watch"}
    /\ call[c].pc = "idle" /\ Due # {}
    /\ Enter(c, [Idle EXCEPT !.pc = "next", !.todo = Due])
    /\ UNCHANGED <<world, nonce, store, history, bounds>>

\* The oldest instant left is next.  A watch records an event and goes on when its target
\* is busy.
NextInstant(c, busy) ==
    /\ call[c].pc = "next"
    /\ busy => spec.source = "watch" /\ call[c].todo # {}
    /\ \/ call[c].todo = {} /\ Enter(c, Idle) /\ UNCHANGED events
       \/ \E i \in call[c].todo :
            /\ \A j \in call[c].todo : i <= j
            /\ Enter(c, [call[c] EXCEPT !.pc = IF busy THEN "next" ELSE "start",
                                        !.key = i, !.todo = @ \ {i}])
            /\ events' = IF busy THEN events \cup {[key |-> NoKey, outcome |-> "concurrent",
                                                   at |-> now, by |-> 0]}
                         ELSE events
    /\ UNCHANGED <<world, nonce, claims, fired, dlq, history, bounds>>

---------------------------------------------------------------------------
\* ingest

Event(c, key, outcome) ==
    [key |-> key, outcome |-> outcome, at |-> call[c].at, by |-> call[c].id]

\* The clock is read, and an active freeze records the event without its key.
\* Otherwise the key is rendered, which may fail.
Start(c, renders) ==
    /\ call[c].pc = "start" /\ calls < MaxCalls
    /\ calls' = calls + 1
    /\ Enter(c, [call[c] EXCEPT !.pc = IF frozen THEN "turned" ELSE IF renders THEN "look" ELSE "dead",
                                !.outcome = IF frozen THEN "freeze" ELSE "none",
                                !.id = calls', !.at = now])
    /\ UNCHANGED <<world, nonce, store, history, crashes, freezes>>

\* The limiter reads its clock: an event with the key in the window, whatever its
\* outcome, then the cooldown, then the buckets.
Look(c, limited) ==
    LET k == call[c].key
        verdict ==
            IF \E e \in events : k # NoKey /\ e.key = k /\ e.at >= now - Window
            THEN "deduplicated"
            ELSE IF \E e \in events : e.outcome = "accepted" /\ now - e.at < spec.cooldown
            THEN "cooldown"
            ELSE IF limited THEN "rate" ELSE "none"
    IN
    /\ call[c].pc = "look"
    /\ Enter(c, [call[c] EXCEPT !.pc = IF verdict = "none" THEN "claim" ELSE "turned",
                                !.outcome = verdict, !.seen = now])
    /\ UNCHANGED <<world, nonce, store, history, bounds>>

\* What is not accepted is recorded, with its key unless frozen.
Turn(c) ==
    /\ call[c].pc = "turned"
    /\ events' = events \cup
          {Event(c, IF call[c].outcome = "freeze" THEN NoKey ELSE call[c].key, call[c].outcome)}
    /\ Return(c)
    /\ UNCHANGED <<world, nonce, claims, fired, dlq, history, bounds>>

\* Mutation of Claimable: the claim is not conditional.
ClaimableAlways(k, seen) == TRUE

Claimable(k, seen) == claims[k] = Free \/ claims[k].at < seen - Window

\* claim_dedup, one upsert
Claim(c) ==
    LET k == call[c].key IN
    /\ call[c].pc = "claim"
    /\ IF k = NoKey
       THEN Goto(c, "submit") /\ UNCHANGED claims
       ELSE IF Claimable(k, call[c].seen)
       THEN /\ claims' = [claims EXCEPT ![k] = [at |-> call[c].seen, by |-> call[c].id]]
            /\ Goto(c, "submit")
       ELSE /\ Enter(c, [call[c] EXCEPT !.pc = "turned", !.outcome = "deduplicated"])
            /\ UNCHANGED claims
    /\ UNCHANGED <<world, nonce, events, fired, dlq, history, bounds>>

\* The task is rendered and submitted.  Admission may block it; an exception may come
\* before the run was saved or after.
Submit(c, answer) ==
    /\ call[c].pc = "submit"
    /\ runs' = IF answer \in {"run", "late"}
               THEN runs \cup {[key |-> call[c].key, at |-> call[c].seen, by |-> call[c].id]}
               ELSE runs
    /\ torn' = IF answer = "late" THEN torn \cup {call[c].key} ELSE torn
    /\ Goto(c, IF answer \in {"run", "blocked"} THEN "accept" ELSE "release")
    /\ UNCHANGED <<world, nonce, store, admitted, bounds>>

Accept(c) ==
    /\ call[c].pc = "accept"
    /\ events' = events \cup {Event(c, call[c].key, "accepted")}
    /\ Goto(c, "link")
    /\ UNCHANGED <<world, nonce, claims, fired, dlq, history, bounds>>

\* _record_run, for a blocked one too; last_run is the one fired last.
Link(c) ==
    /\ call[c].pc = "link"
    /\ fired' = IF call[c].at > fired THEN call[c].at ELSE fired
    /\ Return(c)
    /\ UNCHANGED <<world, nonce, claims, events, dlq, history, bounds>>

\* A call with an older clock than the claim of c is about to claim the same key.
Behind(c) ==
    \E x \in Threads :
        call[x].pc = "claim" /\ call[x].key = call[c].key /\ call[x].seen < call[c].seen

\* Mutation of Release: the claim stays.
ReleaseNothing(c) ==
    /\ call[c].pc = "release"
    /\ Goto(c, "dead")
    /\ UNCHANGED <<world, nonce, store, history, bounds>>

\* _fail: the claim on the key is deleted, whoever holds it by now ...
Release(c) ==
    LET k == call[c].key IN
    /\ call[c].pc = "release"
    /\ IF k = NoKey THEN UNCHANGED <<claims, torn>>
       ELSE /\ claims' = [claims EXCEPT ![k] = Free]
            /\ torn' = IF claims[k].by \in {0, call[c].id} /\ ~ Behind(c) THEN torn
                       ELSE torn \cup {k}
    /\ Goto(c, "dead")
    /\ UNCHANGED <<world, nonce, events, fired, dlq, admitted, runs, bounds>>

\* ... the failure is recorded, without the key ...
Fail(c) ==
    /\ call[c].pc = "dead"
    /\ events' = events \cup {Event(c, NoKey, "failed")}
    /\ Goto(c, "letter")
    /\ UNCHANGED <<world, nonce, claims, fired, dlq, history, bounds>>

\* Mutation of Letter: the entry takes the id of the entry that was replayed.
LetterKeepsId(c) ==
    /\ call[c].pc = "letter"
    /\ dlq' = dlq \cup {[id |-> call[c].entry, key |-> call[c].key, replayed |-> FALSE]}
    /\ Return(c)
    /\ UNCHANGED <<world, nonce, claims, events, fired, history, bounds>>

\* ... and the payload is kept.
Letter(c) ==
    /\ call[c].pc = "letter"
    /\ dlq' = dlq \cup {[id |-> call[c].id, key |-> call[c].key, replayed |-> FALSE]}
    /\ Return(c)
    /\ UNCHANGED <<world, nonce, claims, events, fired, history, bounds>>

---------------------------------------------------------------------------
\* replay_dlq: the payload goes through ingest again, its key rendered anew (a key the
\* source passed is gone), and the entry is marked at the end.

Replay(c, e) ==
    /\ call[c].pc = "idle" /\ ~ e.replayed
    /\ Enter(c, [Idle EXCEPT !.pc = "start", !.entry = e.id,
                             !.key = IF spec.template THEN e.key ELSE NoKey])
    /\ UNCHANGED <<world, nonce, store, history, bounds>>

Mark(c) ==
    /\ call[c].pc = "mark"
    /\ dlq' = {IF e.id = call[c].entry THEN [e EXCEPT !.replayed = TRUE] ELSE e : e \in dlq}
    /\ Enter(c, Idle)
    /\ UNCHANGED <<world, nonce, claims, events, fired, history, bounds>>

---------------------------------------------------------------------------
Crash(c) ==
    /\ call[c].pc # "idle" /\ crashes < MaxCrashes
    /\ crashes' = crashes + 1
    /\ Enter(c, Idle)
    /\ UNCHANGED <<world, nonce, store, history, calls, freezes>>

\* A freeze is declared, starts, ends or is lifted.
Freeze ==
    /\ freezes < MaxFreezes /\ freezes' = freezes + 1
    /\ frozen' = ~ frozen
    /\ UNCHANGED <<now, spec, stamp, nonce, store, history, call, calls, crashes>>

Pass ==
    /\ now < MaxTime /\ now' = now + 1
    /\ UNCHANGED <<spec, frozen, stamp, nonce, store, history, call, bounds>>

Ingest(c) ==
    \/ \E b \in BOOLEAN : Start(c, b) \/ Look(c, b)
    \/ Turn(c) \/ Claim(c)
    \/ \E a \in {"run", "blocked", "raised", "late"} : Submit(c, a)
    \/ Accept(c) \/ Link(c) \/ Release(c) \/ Fail(c) \/ Letter(c)

Next ==
    \/ \E c \in Threads :
          \/ \E d \in Deliveries : Verify(c, d) \/ Deliver(c, d)
          \/ ClaimNonce(c) \/ Tick(c)
          \/ \E b \in BOOLEAN : NextInstant(c, b)
          \/ Ingest(c)
          \/ \E e \in dlq : Replay(c, e)
          \/ Mark(c) \/ Crash(c)
    \/ \E d \in Deliveries : Sign(d)
    \/ Freeze \/ Pass

Spec == Init /\ [][Next]_vars

---------------------------------------------------------------------------
\* Shape of the state; the dead letter of a delivery is one entry.
TypeOK ==
    /\ now \in 0..MaxTime /\ spec \in Specs /\ frozen \in BOOLEAN
    /\ stamp \in [Deliveries -> Int] /\ nonce \in [Deliveries -> Int]
    /\ claims \in [Keys -> [at : Int, by : 0..MaxCalls]]
    /\ events \subseteq [key : Keys \cup {NoKey}, outcome : Outcomes, at : 0..MaxTime,
                         by : 0..MaxCalls]
    /\ fired \in Never..MaxTime
    /\ dlq \subseteq [id : 1..MaxCalls, key : Keys \cup {NoKey}, replayed : BOOLEAN]
    /\ \A e, f \in dlq : e.id = f.id => e = f
    /\ \A c \in Threads : call[c].pc \in Steps /\ call[c].key \in Keys \cup {NoKey}

\* "two replicas processing the same delivery cannot both start a run": runs of one key
\* were claimed more than the window apart, across replicas, redeliveries, ticks and
\* replays of dead letters.  Left out are the keys in torn.
OneRunPerWindow ==
    \A r, s \in runs :
        r.key = s.key /\ r.key \notin torn \cup {NoKey} /\ r.by # s.by
            => r.at - s.at > Window \/ s.at - r.at > Window

\* A signed delivery passes verification once: its nonce is remembered as long as its
\* timestamp is accepted, also when it was stamped in the future.
NonceOnce == \A d \in Deliveries : admitted[d] <= 1

\* "A delivery that fails before starting a run must not hold its dedup claim": nothing
\* a dead letter left behind makes its own replay a duplicate.
DeadLetterReleased ==
    \A e \in dlq :
        /\ \A k \in Keys : claims[k].by # e.id
        /\ \A v \in events : v.by = e.id => v.key = NoKey

\* due against the policies as documented: skip fires the last instant if it lies in the
\* tick window, catch_up the last one of the gap, catch_up_all the last MaxCatchUp ones;
\* as long as no more than 4 * MaxCatchUp instants passed since the trigger last fired.
DueMatchesPolicy ==
    LET gap == {i \in Instants : Anchor < i /\ i <= now} IN
    spec.source \in {"cron", "watch"} /\ gap # {} /\ Cardinality(gap) <= 4 * MaxCatchUp =>
        LET last == CHOOSE i \in gap : \A j \in gap : j <= i IN
        Due = IF spec.policy = "skip" /\ now - last > TickSeconds THEN {}
              ELSE IF spec.policy = "catch_up_all"
              THEN {i \in gap : Cardinality({j \in gap : i < j}) < MaxCatchUp}
              ELSE {last}
=============================================================================
