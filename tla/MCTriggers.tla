----------------------------- MODULE MCTriggers -----------------------------
(***************************************************************************)
(* Triggers for TLC: each behaviour has one of the trigger specifications  *)
(* below, and the replicas are interchangeable.                            *)
(***************************************************************************)
EXTENDS Triggers, TLC

Source(s, t, p, c) == [source |-> s, template |-> t, policy |-> p, cooldown |-> c]

MCSpecs ==
    {Source("webhook", TRUE, "none", 0), Source("github", TRUE, "none", 1),
     Source("alertmanager", FALSE, "none", 0), Source("watch", TRUE, "catch_up", 0)}
    \cup {Source("cron", TRUE, p, 0) : p \in {"skip", "catch_up", "catch_up_all"}}

SameKey == [d \in Deliveries |-> 1]

\* Where each source is taken furthest: repeated deliveries and replays of one key over
\* two windows (github), the life of a nonce (webhook), a key that replays lose
\* (alertmanager), overlapping ticks with a fault, and one replica ticking over the gaps
\* of the schedule (cron), a busy target (watch).  Two sources meet the rate limit.
Limited == \E e \in events : e.outcome = "rate"
Alone == Cardinality({c \in Threads : call[c].pc # "idle"}) <= 1
Focus ==
    /\ Limited => spec.source \in {"webhook", "alertmanager"}
    /\ CASE spec.source = "github" ->
                now <= 2 /\ freezes = 0 /\ calls + crashes <= IF Alone \/ now <= 1 THEN 3 ELSE 2
         [] spec.source \in {"webhook", "alertmanager"} -> now <= 2 /\ calls <= 2 /\ freezes = 0
         [] spec.source = "cron" ->
                \/ now <= 2 /\ calls + freezes + crashes <= 2
                \/ Alone /\ now + calls <= 6 /\ freezes + crashes = 0 /\ dlq = {}
         [] spec.source = "watch" -> now <= 2 /\ calls + crashes <= 2 /\ freezes = 0

Symmetry == Permutations(Threads)
=============================================================================
