------------------------------ MODULE Breaker ------------------------------
(***************************************************************************)
(* The state machine of one circuit breaker (guards/breaker.py), as        *)
(* functions of its record.  The registry takes no lock: a call of allow   *)
(* or record is one step of the thread that makes it.                      *)
(***************************************************************************)
EXTENDS Naturals, Sequences, FiniteSets

CONSTANTS
    Window,     \* outcomes kept
    MinCalls,   \* outcomes before the rate counts
    OpenFor     \* seconds before a probe

ASSUME BreakerAssumption == Window \in Nat \ {0} /\ {MinCalls, OpenFor} \subseteq Nat

BreakerState == {"closed", "open", "half_open"}

NewBreaker == [state |-> "closed", outcomes |-> <<>>, opened |-> 0]

\* allow: closed, or the first call once the breaker has been open for long enough
Allows(b, now) == b.state = "closed" \/ (b.state = "open" /\ now - b.opened >= OpenFor)

\* The breaker after allow
AfterAllow(b, now) == IF b.state = "open" /\ Allows(b, now) THEN [b EXCEPT !.state = "half_open"] ELSE b

Trimmed(outcomes) ==
    IF Len(outcomes) > Window THEN SubSeq(outcomes, Len(outcomes) - Window + 1, Len(outcomes)) ELSE outcomes

\* failure_threshold is one half
Trips(outcomes) ==
    /\ Len(outcomes) >= MinCalls
    /\ 2 * Cardinality({i \in 1..Len(outcomes) : ~ outcomes[i]}) >= Len(outcomes)

\* Mutation of AfterRecord: a probe that fails leaves the breaker half open.
AfterRecordStuck(b, success, now) ==
    LET outcomes == Trimmed(Append(b.outcomes, success)) IN
    IF b.state = "half_open" THEN IF success THEN NewBreaker ELSE b
    ELSE IF Trips(outcomes) THEN [state |-> "open", outcomes |-> outcomes, opened |-> now]
    ELSE [b EXCEPT !.outcomes = outcomes]

\* record: any outcome that arrives while half open is taken for the probe's.
AfterRecord(b, success, now) ==
    LET outcomes == Trimmed(Append(b.outcomes, success)) IN
    IF b.state = "half_open"
    THEN IF success THEN NewBreaker ELSE [state |-> "open", outcomes |-> <<>>, opened |-> now]
    ELSE IF Trips(outcomes) THEN [state |-> "open", outcomes |-> outcomes, opened |-> now]
    ELSE [b EXCEPT !.outcomes = outcomes]
===========================================================================
