-------------------------- MODULE TriggersProofs -------------------------
(***************************************************************************)
(* Every step of Triggers keeps the records of the calls and the stakes in *)
(* the keys, and the theorems that follow, for any threads, deliveries,    *)
(* schedule and bounds.                                                    *)
(***************************************************************************)
EXTENDS TriggersInv

\* The records of the calls, and the stakes in the keys
Ledger == Records /\ Stakes /\ DeadLetterReleased

\* What a step of the call c, with the id i, may do to the records: its own are new, claims
\* are released, letters are marked.
Acts(c, i) ==
    /\ Others(c) /\ i \in 0..calls' /\ calls <= calls'
    /\ \A x \in Threads \ {c} : In(x) => call[x].id # i
    /\ \A r \in runs' : r \in runs \/ r.by = i
    /\ \A e \in events' : e \in events \/ e.by \in {0, i}
    /\ \A e \in dlq' : e.id = i \/ \E f \in dlq : f.id = e.id
    /\ \A k \in Keys : claims'[k] = claims[k] \/ claims'[k].by \in {0, i}
    /\ torn \subseteq torn'

\* Such a step keeps the records of the other calls.
LEMMA RecordsKept ==
    ASSUME Shape, Records, calls' \in Nat, NEW c \in Threads, NEW i, Acts(c, i), OneLetter',
           In(c)' => i >= 1 /\ call'[c].id = i /\ Own(c)'
    PROVE  Records'
  <1>0. calls \in Nat /\ i \in Nat
    BY DEF Shape, Acts
  <1>1. \A x \in Threads \ {c} :
           /\ call'[x] = call[x]
           /\ In(x)' => In(x) /\ call[x].id \in 1..calls /\ call[x].id \notin {0, i} /\ Own(x)
    BY <1>0 DEF In, Acts, Others, Records, FreshIds
  <1>2. FreshIds'
    <2>1. /\ \A x \in Threads : In(x)' => call'[x].id \in 1..calls'
          /\ \A x, y \in Threads : In(x)' /\ In(y)' /\ call'[x].id = call'[y].id => x = y
      BY <1>0, <1>1 DEF Acts, Records, FreshIds
    <2>2. (\A r \in runs' : r.by <= calls') /\ (\A e \in events' : e.by <= calls')
      BY <1>0 DEF Acts, Records, FreshIds, Shape, RunType, EventType
    <2>3. (\A e \in dlq' : e.id <= calls') /\ (\A k \in Keys : claims'[k].by <= calls')
      BY <1>0 DEF Acts, Records, FreshIds, Shape, LetterType, ClaimType
    <2> QED
      BY <2>1, <2>2, <2>3, Zenon DEF FreshIds
  <1>3. ASSUME NEW x \in Threads \ {c}, In(x)' PROVE Own(x)'
    <2>1. call'[x] = call[x] /\ call[x].id \notin {0, i} /\ In(x) /\ Own(x)
      BY <1>1, <1>3, Zenon
    <2>2. OwnRun(x)' /\ OwnClaim(x)'
      BY <2>1, Zenon DEF Acts, Own, OwnRun, OwnClaim
    <2>3. OwnEvent(x)' /\ OwnLetter(x)'
      BY <2>1 DEF Acts, Own, OwnEvent, OwnLetter
    <2> QED
      BY <2>2, <2>3, Zenon DEF Own
  <1>4. \A x \in Threads : Own(x)'
    BY <1>3, Zenon DEF Own
  <1> QED
    BY <1>2, <1>4, Zenon DEF Records

\* It keeps the dead letters released, if the call has none.
LEMMA LettersKept ==
    ASSUME Shape, DeadLetterReleased, NEW c, NEW i, Acts(c, i), \A e \in dlq' : e.id # i
    PROVE  DeadLetterReleased'
  <1>1. \A e \in dlq : e.id # 0
    BY DEF Shape, LetterType
  <1> QED
    BY <1>1 DEF Acts, DeadLetterReleased

\* A step that adds no stake, keeps the claims and sends no call to its claim with an old
\* clock keeps the stakes apart.
LEMMA StakesKept ==
    ASSUME Shape, Stakes, claims' = claims, torn \subseteq torn', now' \in Nat, now <= now',
           \A k \in Keys, a \in 0..MaxTime, i \in 0..MaxCalls : Stake(k, a, i)' => Stake(k, a, i),
           \A x \in Threads : call'[x].pc = "claim" =>
               \/ call[x].pc = "claim" /\ call'[x].key = call[x].key /\ call'[x].seen = call[x].seen
               \/ call'[x].seen = now
    PROVE  Stakes'
  <1>1. StakesApart'
    BY Zenon DEF Stakes, StakesApart, Apart
  <1>2. ClaimCovers'
    <2> SUFFICES ASSUME NEW k \in Keys \ torn', NEW a \in 0..MaxTime, NEW i \in 0..MaxCalls,
                        Stake(k, a, i)'
                 PROVE  IF claims[k] # Free
                        THEN claims[k] = [at |-> a, by |-> i] \/ claims[k].at > a + Window
                        ELSE /\ now' > a + Window
                             /\ \A c \in Threads :
                                   call'[c].pc = "claim" /\ call'[c].key = k => call'[c].seen > a + Window
      BY Zenon DEF ClaimCovers
    <2>1. Stake(k, a, i) /\ k \in Keys \ torn
      BY Zenon
    <2>2. CASE claims[k] # Free
      BY <2>1, <2>2, Zenon DEF Stakes, ClaimCovers
    <2>3. CASE claims[k] = Free
      <3>1. /\ now > a + Window
            /\ \A c \in Threads :
                  call[c].pc = "claim" /\ call[c].key = k => call[c].seen > a + Window
        BY <2>1, <2>3, Zenon DEF Stakes, ClaimCovers
      <3> QED
        BY <2>3, <3>1, ConstantTypes DEF Shape
    <2> QED
      BY <2>2, <2>3, Zenon
  <1>3. FreeClaims'
    BY Zenon DEF Stakes, FreeClaims
  <1> QED
    BY <1>1, <1>2, <1>3, Zenon DEF Stakes

\* A step that leaves runs and claims alone, and sends the call neither to its submission
\* nor, with an old clock, to its claim.
LEMMA QuietStakes ==
    ASSUME Shape, Stakes, NEW c \in Threads, Others(c), UNCHANGED <<runs, claims, torn, now>>,
           call'[c].pc # "submit", call'[c].pc = "claim" => call'[c].seen = now
    PROVE  Stakes'
  <1>1. \A k \in Keys, a \in 0..MaxTime, i \in 0..MaxCalls : Stake(k, a, i)' => Stake(k, a, i)
    BY Zenon DEF Stake, Others
  <1>2. \A x \in Threads : call'[x].pc = "claim" => call'[x] = call[x] \/ call'[x].seen = now
    BY Zenon DEF Others
  <1> QED
    BY <1>1, <1>2, StakesKept DEF Shape

\* The other calls have other ids.
LEMMA OtherIds ==
    ASSUME Shape, FreshIds, NEW c \in Threads, In(c)
    PROVE  /\ call[c].id \in 1..calls /\ calls \in Nat
           /\ \A x \in Threads \ {c} : In(x) => call[x].id # call[c].id
  BY DEF FreshIds, Shape

---------------------------------------------------------------------------
\* Deliveries, ticks, replays and crashes: a call outside ingest has no records.
LEMMA LedgerEntry ==
    ASSUME Shape, Clocks, Ledger, NEW c \in Threads,
           \/ \E d \in Deliveries : Verify(c, d) \/ Deliver(c, d)
           \/ ClaimNonce(c) \/ Tick(c)
           \/ \E b \in BOOLEAN : NextInstant(c, b)
           \/ \E e \in dlq : Replay(c, e)
           \/ Crash(c) \/ Link(c)
    PROVE  Ledger'
  <1>1. Others(c) /\ call'[c].pc \notin Inside
    <2>1. CASE \E d \in Deliveries : Verify(c, d)
      BY <2>1, VerifyMoves, Zenon DEF Inside
    <2>2. CASE Link(c)
      BY <2>2, ReturnLeaves, Zenon DEF Link, Left
    <2> QED
      BY <2>1, <2>2, EntryLeaves, Zenon DEF Left
  <1>2. UNCHANGED <<claims, runs, torn, dlq, calls, now>>
    <2> USE DEF world, store, history, bounds
    <2>1. CASE \E d \in Deliveries : Verify(c, d) \/ Deliver(c, d)
      BY <2>1, Zenon DEF Verify, Deliver
    <2>2. CASE ClaimNonce(c) \/ Tick(c) \/ Crash(c) \/ Link(c)
      BY <2>2, Zenon DEF ClaimNonce, Tick, Crash, Link
    <2>3. CASE (\E b \in BOOLEAN : NextInstant(c, b)) \/ \E e \in dlq : Replay(c, e)
      BY <2>3, Zenon DEF NextInstant, Replay
    <2> QED
      BY <2>1, <2>2, <2>3, Zenon
  <1>3. \A e \in events' : e \in events \/ e.by = 0
    <2>1. ASSUME NEW b \in BOOLEAN, NextInstant(c, b)
          PROVE  \A e \in events' : e \in events \/ e.by = 0
      <3>1. \/ events' = events
            \/ events' = events \cup {[key |-> NoKey, outcome |-> "concurrent", at |-> now, by |-> 0]}
        BY <2>1, Zenon DEF NextInstant
      <3> QED
        BY <3>1
    <2>2. CASE events' = events
      BY <2>2, Zenon
    <2> QED
      BY <2>1, <2>2, Zenon DEF Verify, Deliver, ClaimNonce, Tick, Replay, Crash, Link, store
  <1>4. Acts(c, 0) /\ \A e \in dlq' : e.id # 0
    BY <1>1, <1>2, <1>3 DEF Acts, Ledger, Records, FreshIds, Shape, LetterType
  <1>5. Records' /\ DeadLetterReleased'
    BY <1>1, <1>2, <1>4, RecordsKept, LettersKept DEF In, Ledger, Records, OneLetter, Shape
  <1>6. Stakes'
    BY <1>1, <1>2, QuietStakes, Zenon DEF Inside, Ledger
  <1> QED
    BY <1>5, <1>6, Zenon DEF Ledger

\* What is turned away is recorded under the id of the call, which leaves.
LEMMA LedgerTurn ==
    ASSUME Shape, Clocks, Ledger, NEW c \in Threads, Turn(c)
    PROVE  Ledger'
  <1>1. Others(c) /\ call'[c].pc \notin Inside /\ In(c)
    BY ReturnLeaves, Zenon DEF Turn, Left, In, Inside
  <1>2. UNCHANGED <<claims, runs, torn, dlq, calls, now>>
    BY Zenon DEF Turn, world, history, bounds
  <1>3. \A e \in events' : e \in events \/ e.by = call[c].id
    BY DEF Turn, Event
  <1>4. Acts(c, call[c].id) /\ \A e \in dlq' : e.id # call[c].id
    BY <1>1, <1>2, <1>3, OtherIds DEF Acts, Ledger, Records, Own, OwnLetter
  <1>5. Records' /\ DeadLetterReleased'
    BY <1>1, <1>2, <1>4, RecordsKept, LettersKept DEF In, Ledger, Records, OneLetter, Shape
  <1>6. Stakes'
    BY <1>1, <1>2, QuietStakes, Zenon DEF Inside, Ledger
  <1> QED
    BY <1>5, <1>6, Zenon DEF Ledger

\* A dead letter is the last record of its call.
LEMMA LedgerLetter ==
    ASSUME Shape, Clocks, Ledger, NEW c \in Threads, Letter(c)
    PROVE  Ledger'
  <1>1. Others(c) /\ call'[c].pc \notin Inside /\ In(c) /\ call[c].pc = "letter"
    BY ReturnLeaves, Zenon DEF Letter, Left, In, Inside
  <1>2. UNCHANGED <<claims, events, runs, torn, calls, now>>
    BY Zenon DEF Letter, world, history, bounds
  <1>3. \A e \in dlq' : e \in dlq \/ e = [id |-> call[c].id, key |-> call[c].key, replayed |-> FALSE]
    BY Zenon DEF Letter
  <1>3a. \A e \in dlq' : e \in dlq \/ e.id = call[c].id
    BY <1>3
  <1>4. Acts(c, call[c].id)
    BY <1>1, <1>2, <1>3a, OtherIds DEF Acts, Ledger, Records
  <1>5. Own(c) /\ In(c)
    BY <1>1, Zenon DEF Ledger, Records
  <1>6. OneLetter'
    BY <1>3, <1>3a, <1>5, Zenon DEF Ledger, Records, OneLetter, Own, OwnLetter
  <1>7. Records'
    BY <1>1, <1>2, <1>4, <1>6, RecordsKept DEF In, Ledger, Shape
  <1>8. DeadLetterReleased'
    <2>1. \A k \in Keys : claims[k].by # call[c].id
      BY <1>1, <1>5, Zenon DEF Own, OwnClaim
    <2>2. \A e \in events : e.by = call[c].id => e.key = NoKey
      BY <1>1, <1>5, Zenon DEF Own, OwnEvent
    <2> QED
      BY <1>2, <1>3a, <2>1, <2>2, Zenon DEF Ledger, DeadLetterReleased
  <1>9. Stakes'
    BY <1>1, <1>2, QuietStakes, Zenon DEF Inside, Ledger
  <1> QED
    BY <1>7, <1>8, <1>9, Zenon DEF Ledger

\* A letter that is marked keeps its id.
LEMMA LedgerMark ==
    ASSUME Shape, Clocks, Ledger, NEW c \in Threads, Mark(c)
    PROVE  Ledger'
  <1>1. Others(c) /\ call'[c].pc \notin Inside
    BY EntryLeaves, Zenon DEF Left
  <1>2. UNCHANGED <<claims, events, runs, torn, calls, now>>
    BY Zenon DEF Mark, world, history, bounds
  <1> DEFINE Marked(e) == IF e.id = call[c].entry THEN [e EXCEPT !.replayed = TRUE] ELSE e
  <1>3. dlq' = {Marked(e) : e \in dlq}
    BY Zenon DEF Mark
  <1>4. \A e \in dlq : Marked(e).id = e.id /\ e.id # 0
    BY DEF Shape, LetterType
  <1> HIDE DEF Marked
  <1>5. \A e \in dlq' : \E f \in dlq : f.id = e.id /\ e = Marked(f)
    BY <1>3, <1>4, Zenon
  <1>6. Acts(c, 0) /\ \A e \in dlq' : e.id # 0
    BY <1>1, <1>2, <1>4, <1>5 DEF Acts, Ledger, Records, FreshIds, Shape
  <1>7. OneLetter'
    BY <1>5, Zenon DEF Ledger, Records, OneLetter
  <1>8. Records' /\ DeadLetterReleased'
    BY <1>1, <1>2, <1>6, <1>7, RecordsKept, LettersKept DEF In, Ledger, Shape
  <1>9. Stakes'
    BY <1>1, <1>2, QuietStakes, Zenon DEF Inside, Ledger
  <1> QED
    BY <1>8, <1>9, Zenon DEF Ledger

\* A call enters ingest under an id that nothing bears yet.
LEMMA LedgerStart ==
    ASSUME Shape, Clocks, Ledger, NEW c \in Threads, NEW b \in BOOLEAN, Start(c, b)
    PROVE  Ledger'
  <1>1. /\ Others(c) /\ call'[c].pc \in {"turned", "look", "dead"}
        /\ call'[c].id = calls + 1 /\ calls' = calls + 1
    BY StartMoves, Zenon
  <1>2. UNCHANGED <<claims, events, dlq, runs, torn, now>>
    BY Zenon DEF Start, world, store, history
  <1>3. /\ calls \in Nat /\ \A r \in runs : r.by # calls + 1
        /\ \A e \in events : e.by # calls + 1
        /\ \A e \in dlq : e.id # calls + 1
        /\ \A k \in Keys : claims[k].by # calls + 1
    BY DEF Ledger, Records, FreshIds, Shape, RunType, EventType, LetterType, ClaimType
  <1>4. Acts(c, calls + 1)
    BY <1>1, <1>2, <1>3 DEF Acts, Ledger, Records, FreshIds
  <1>5. Own(c)'
    BY <1>1, <1>2, <1>3, Zenon DEF Own, OwnRun, OwnClaim, OwnEvent, OwnLetter
  <1>6. Records' /\ DeadLetterReleased'
    BY <1>1, <1>2, <1>3, <1>4, <1>5, RecordsKept, LettersKept DEF Ledger, Records, OneLetter
  <1>7. Stakes'
    BY <1>1, <1>2, QuietStakes, Zenon DEF Ledger
  <1> QED
    BY <1>6, <1>7, Zenon DEF Ledger

\* The limiter: the clock of a call that goes on to claim is the current one.
LEMMA LedgerLook ==
    ASSUME Shape, Clocks, Ledger, NEW c \in Threads, NEW b \in BOOLEAN, Look(c, b)
    PROVE  Ledger'
  <1>1. /\ Others(c) /\ call'[c].pc \in {"claim", "turned"} /\ call'[c].seen = now
        /\ call'[c].id = call[c].id
    BY LookMoves, Zenon
  <1>2. UNCHANGED <<claims, events, dlq, runs, torn, calls, now>> /\ call[c].pc = "look"
    BY Zenon DEF Look, world, store, history, bounds
  <1>3. In(c) /\ Own(c)
    BY <1>2, Zenon DEF In, Inside, Ledger, Records
  <1>4. Acts(c, call[c].id) /\ call[c].id >= 1 /\ calls' \in Nat
    BY <1>1, <1>2, <1>3, OtherIds DEF Acts, Ledger, Records
  <1>5. Own(c)' /\ \A e \in dlq' : e.id # call[c].id
    BY <1>1, <1>2, <1>3, Zenon DEF Own, OwnRun, OwnClaim, OwnEvent, OwnLetter
  <1>6. Records' /\ DeadLetterReleased'
    BY <1>1, <1>2, <1>4, <1>5, RecordsKept, LettersKept, Zenon DEF Ledger, Records, OneLetter
  <1>7. Stakes'
    BY <1>1, <1>2, QuietStakes, Zenon DEF Ledger
  <1> QED
    BY <1>6, <1>7, Zenon DEF Ledger

---------------------------------------------------------------------------
\* No key is the absent one.
LEMMA KeysNotAbsent == NoKey \notin Keys
  BY ConstantTypes, Zenon DEF Keys, NoKey

\* A claim that is taken lies more than the window after every stake in its key.
LEMMA ClaimLater ==
    ASSUME Shape, Stakes, NEW c \in Threads, call[c].pc = "claim", NEW k \in Keys \ torn, call[c].key = k,
           Claimable(k, call[c].seen), NEW a \in 0..MaxTime, NEW j \in 0..MaxCalls, Stake(k, a, j)
    PROVE  call[c].seen > a + Window
  <1>1. CASE claims[k] = Free
    BY <1>1, Zenon DEF Stakes, ClaimCovers
  <1>2. CASE claims[k] # Free
    <2>1. claims[k].at < call[c].seen - Window /\ claims[k].at \in Int /\ call[c].seen \in Nat
      BY <1>2 DEF Claimable, Shape, ClaimType, CallType
    <2>2. claims[k] = [at |-> a, by |-> j] \/ claims[k].at > a + Window
      BY <1>2, Zenon DEF Stakes, ClaimCovers
    <2>3. claims[k].at = a \/ claims[k].at > a + Window
      BY <2>2
    <2> QED
      BY <2>1, <2>3, ConstantTypes
  <1> QED
    BY <1>1, <1>2, Zenon

\* A claim adds a stake, later than the others by more than the window, and covers them.
LEMMA ClaimStakes ==
    ASSUME Shape, Clocks, Ledger, NEW c \in Threads, call[c].pc = "claim", NEW k \in Keys, call[c].key = k,
           Claimable(k, call[c].seen), Moved(c, "submit"), call[c].id # 0,
           claims' = [claims EXCEPT ![k] = [at |-> call[c].seen, by |-> call[c].id]],
           UNCHANGED <<runs, torn, now>>
    PROVE  Stakes'
  <1> DEFINE s == call[c].seen
             i == call[c].id
  <1>1. claims'[k] = [at |-> s, by |-> i] /\ \A kk \in Keys \ {k} : claims'[kk] = claims[kk]
    BY Zenon DEF Shape
  <1>2. claims'[k].at = s /\ claims'[k].by = i /\ claims'[k] # Free
    BY <1>1 DEF Free
  <1>3. ASSUME NEW kk \in Keys, NEW a \in 0..MaxTime, NEW j \in 0..MaxCalls, Stake(kk, a, j)'
        PROVE  Stake(kk, a, j) \/ (kk = k /\ a = s /\ j = i)
    BY <1>3, Zenon DEF Stake, Others, Moved
  <1>4. ASSUME k \notin torn, NEW a \in 0..MaxTime, NEW j \in 0..MaxCalls, Stake(k, a, j)
        PROVE  s > a + Window
    BY <1>4, ClaimLater, Zenon DEF Ledger
  <1>5. s \in Nat /\ i \in 0..MaxCalls /\ Window \in Nat
    BY ConstantTypes DEF Shape, CallType
  <1> HIDE DEF s, i
  <1>6. StakesApart'
    <2> SUFFICES ASSUME NEW kk \in Keys \ torn', NEW a \in 0..MaxTime, NEW b \in 0..MaxTime,
                        NEW j \in 0..MaxCalls, NEW l \in 0..MaxCalls,
                        Stake(kk, a, j)', Stake(kk, b, l)', j # l
                 PROVE  Apart(a, b)
      BY Zenon DEF StakesApart, Apart
    <2>1. CASE Stake(kk, a, j) /\ Stake(kk, b, l)
      BY <2>1, Zenon DEF Ledger, Stakes, StakesApart
    <2>2. CASE kk = k /\ a = s /\ j = i
      <3>1. Stake(k, b, l)
        BY <1>3, <2>2, Zenon
      <3> QED
        BY <1>4, <1>5, <2>2, <3>1, SMTT(20) DEF Apart
    <2>3. CASE kk = k /\ b = s /\ l = i
      <3>1. Stake(k, a, j)
        BY <1>3, <2>3, Zenon
      <3> QED
        BY <1>4, <1>5, <2>3, <3>1 DEF Apart
    <2> QED
      BY <1>3, <2>1, <2>2, <2>3, Zenon
  <1>7. ClaimCovers'
    <2> SUFFICES ASSUME NEW kk \in Keys \ torn', NEW a \in 0..MaxTime, NEW j \in 0..MaxCalls,
                        Stake(kk, a, j)'
                 PROVE  IF claims'[kk] # Free
                        THEN claims'[kk] = [at |-> a, by |-> j] \/ claims'[kk].at > a + Window
                        ELSE /\ now' > a + Window
                             /\ \A x \in Threads :
                                   call'[x].pc = "claim" /\ call'[x].key = kk
                                      => call'[x].seen > a + Window
      BY Zenon DEF ClaimCovers
    <2>1. CASE kk = k
      <3>1. claims'[k] = [at |-> a, by |-> j] \/ claims'[k].at > a + Window
        BY <1>1, <1>2, <1>3, <1>4, <2>1, ZenonT(40)
      <3> QED
        BY <1>2, <2>1, <3>1, Zenon
    <2>2. CASE kk # k
      <3>1. Stake(kk, a, j) /\ kk \in Keys \ torn /\ claims'[kk] = claims[kk]
        BY <1>1, <1>3, <2>2, Zenon
      <3>2. \A x \in Threads : call'[x].pc = "claim" => call'[x] = call[x]
        BY Zenon DEF Moved, Others
      <3> QED
        BY <3>1, <3>2, Zenon DEF Ledger, Stakes, ClaimCovers
    <2> QED
      BY <2>1, <2>2, Zenon
  <1>8. FreeClaims'
    BY <1>1, <1>2, Zenon DEF Ledger, Stakes, FreeClaims, i
  <1> QED
    BY <1>6, <1>7, <1>8, Zenon DEF Stakes

\* The claim.
LEMMA LedgerClaim ==
    ASSUME Shape, Clocks, Ledger, NEW c \in Threads, Claim(c)
    PROVE  Ledger'
  <1>1. /\ UNCHANGED <<events, dlq, runs, torn, calls, now>> /\ call[c].pc = "claim"
        /\ Moved(c, "submit") \/ Moved(c, "turned")
    BY IngestMoves, Zenon DEF Claim, world, history, bounds
  <1> DEFINE k == call[c].key
             i == call[c].id
  <1>2. In(c) /\ Own(c) /\ Others(c) /\ call'[c].id = i
    BY <1>1, Zenon DEF In, Inside, Moved, Ledger, Records
  <1>3. /\ i \in 1..calls /\ calls \in Nat /\ k \in Keys \cup {NoKey}
        /\ \A x \in Threads \ {c} : In(x) => call[x].id # i
    BY <1>2, OtherIds, Zenon DEF Ledger, Records, Shape, CallType
  <1>4. ASSUME \A kk \in Keys : claims'[kk] = claims[kk] \/ (kk = k /\ claims'[kk].by = i),
               Own(c)', Stakes'
        PROVE  Ledger'
    <2>1. Acts(c, i)
      BY <1>1, <1>2, <1>3, <1>4, SMTT(20) DEF Acts
    <2>2. Records' /\ DeadLetterReleased'
      BY <1>1, <1>2, <1>3, <1>4, <2>1, RecordsKept, LettersKept, SMTT(20) DEF Ledger, Records, OneLetter, Own, OwnLetter
    <2> QED
      BY <1>4, <2>2, Zenon DEF Ledger
  <1>5. CASE claims' = claims /\ (Moved(c, "turned") \/ k = NoKey)
    <2>1. Own(c)'
      BY <1>1, <1>2, <1>5, KeysNotAbsent, Zenon DEF Own, OwnRun, OwnClaim, OwnEvent, OwnLetter, Moved
    <2>2. \A x \in Threads : call'[x].pc = "claim" => call'[x] = call[x]
      BY <1>1, Zenon DEF Others, Moved
    <2>3. ASSUME NEW kk \in Keys, NEW a \in 0..MaxTime, NEW j \in 0..MaxCalls, Stake(kk, a, j)'
          PROVE  Stake(kk, a, j)
      BY <1>1, <1>5, <2>3, KeysNotAbsent, Zenon DEF Stake, Others, Moved
    <2>4. Stakes'
      BY <1>1, <1>5, <2>2, <2>3, StakesKept, SMTT(20) DEF Ledger, Shape
    <2> QED
      BY <1>4, <1>5, <2>1, <2>4, Zenon
  <1>6. CASE /\ k \in Keys /\ Claimable(k, call[c].seen) /\ Moved(c, "submit")
             /\ claims' = [claims EXCEPT ![k] = [at |-> call[c].seen, by |-> i]]
    <2>1. /\ claims'[k].at = call[c].seen /\ claims'[k].by = i
          /\ \A kk \in Keys \ {k} : claims'[kk] = claims[kk]
      BY <1>6, Zenon DEF Shape
    <2>2. OwnClaim(c)'
      BY <1>1, <1>2, <1>6, <2>1, Zenon DEF Own, OwnClaim, Moved
    <2>3. Own(c)'
      BY <1>1, <1>2, <1>6, <2>2, Zenon DEF Own, OwnRun, OwnEvent, OwnLetter, Moved
    <2>4. Stakes'
      <3>1. call[c].id # 0
        BY <1>3
      <3> QED
        BY <1>1, <1>6, <3>1, ClaimStakes, Zenon
    <2> QED
      BY <1>4, <2>1, <2>3, <2>4, Zenon
  <1>7. CASE k = NoKey
    BY <1>5, <1>7, Zenon DEF Claim
  <1>8. CASE k # NoKey /\ Claimable(k, call[c].seen)
    BY <1>3, <1>6, <1>8, GotoMoves, Zenon DEF Claim
  <1>9. CASE k # NoKey /\ ~ Claimable(k, call[c].seen)
    <2>1. call' = [call EXCEPT ![c] = [call[c] EXCEPT !.pc = "turned", !.outcome = "deduplicated"]]
          /\ claims' = claims
      BY <1>9, Zenon DEF Claim, Enter
    <2>2. call'[c].pc = "turned"
      BY <2>1, Zenon DEF Shape, CallType
    <2> QED
      BY <1>1, <1>5, <2>1, <2>2, Zenon DEF Moved
  <1> QED
    BY <1>7, <1>8, <1>9, Zenon

---------------------------------------------------------------------------
\* The steps from the submission on, and the theorems

\* Submission turns the stake of a call into a run; a run whose submission then raises
\* tears its key.
LEMMA LedgerSubmit ==
    ASSUME Shape, Clocks, Ledger, NEW c \in Threads,
           NEW a \in {"run", "blocked", "raised", "late"}, Submit(c, a)
    PROVE  Ledger'
  <1>1. UNCHANGED <<claims, events, dlq, calls, now>> /\ call[c].pc = "submit"
    BY Zenon DEF Submit, world, store, bounds
  <1>2. Moved(c, IF a \in {"run", "blocked"} THEN "accept" ELSE "release")
    BY IngestMoves, Zenon
  <1>3. torn' = IF a = "late" THEN torn \cup {call[c].key} ELSE torn
    BY Zenon DEF Submit
  <1>4. \A r \in runs' :
           \/ r \in runs
           \/ /\ a \in {"run", "late"}
              /\ r.key = call[c].key /\ r.at = call[c].seen /\ r.by = call[c].id
    BY SMTT(20) DEF Submit
  <1>5. In(c) /\ Own(c) /\ Others(c) /\ call'[c].id = call[c].id
    BY <1>1, <1>2, Zenon DEF In, Inside, Moved, Ledger, Records
  <1>6. Acts(c, call[c].id) /\ call[c].id >= 1 /\ calls' \in Nat
    BY <1>1, <1>3, <1>4, <1>5, OtherIds, SMTT(20) DEF Acts, Ledger, Records
  <1>7. OwnRun(c)' /\ OwnClaim(c)'
    BY <1>1, <1>2, <1>3, <1>4, <1>5, Zenon DEF Own, OwnRun, OwnClaim, Moved
  <1>8. OwnEvent(c)' /\ OwnLetter(c)' /\ \A e \in dlq' : e.id # call[c].id
    BY <1>1, <1>5, Zenon DEF Own, OwnEvent, OwnLetter
  <1>9. Records' /\ DeadLetterReleased'
    BY <1>1, <1>5, <1>6, <1>7, <1>8, RecordsKept, LettersKept, ZenonT(40) DEF Ledger, Records, OneLetter, Own
  <1>10. Stakes'
    <2>1. \A x \in Threads : call'[x].pc = "claim" => call'[x] = call[x]
      BY <1>2, Zenon DEF Others, Moved
    <2>2. \A k \in Keys, t \in 0..MaxTime, i \in 0..MaxCalls : Stake(k, t, i)' => Stake(k, t, i)
      BY <1>1, <1>2, <1>4 DEF Stake, Others, Moved
    <2> QED
      BY <1>1, <1>3, <2>1, <2>2, StakesKept, SMTT(20) DEF Ledger, Shape
  <1> QED
    BY <1>9, <1>10, Zenon DEF Ledger

\* The event of an accepted call, and the one of a failed call, bear its id.
LEMMA LedgerEvent ==
    ASSUME Shape, Clocks, Ledger, NEW c \in Threads, Accept(c) \/ Fail(c)
    PROVE  Ledger'
  <1>1. UNCHANGED <<claims, dlq, runs, torn, calls, now>>
    BY Zenon DEF Accept, Fail, world, history, bounds
  <1>2. \/ call[c].pc = "accept" /\ Moved(c, "link")
        \/ call[c].pc = "dead" /\ Moved(c, "letter")
    BY IngestMoves, ZenonT(40) DEF Accept, Fail
  <1>3. \A e \in events' : e \in events \/ (e.by = call[c].id /\ (call[c].pc = "dead" => e.key = NoKey))
    BY DEF Accept, Fail, Event
  <1>4. In(c) /\ Own(c) /\ Others(c) /\ call'[c].id = call[c].id
    BY <1>2, Zenon DEF In, Inside, Moved, Ledger, Records
  <1>5. Acts(c, call[c].id) /\ call[c].id >= 1 /\ calls' \in Nat
    BY <1>1, <1>3, <1>4, OtherIds DEF Acts, Ledger, Records
  <1>6. OwnRun(c)' /\ OwnClaim(c)'
    BY <1>1, <1>2, <1>4, Zenon DEF Own, OwnRun, OwnClaim, Moved
  <1>7. OwnEvent(c)' /\ OwnLetter(c)' /\ \A e \in dlq' : e.id # call[c].id
    BY <1>1, <1>2, <1>3, <1>4, Zenon DEF Own, OwnEvent, OwnLetter, Moved
  <1>8. Records' /\ DeadLetterReleased'
    BY <1>1, <1>4, <1>5, <1>6, <1>7, RecordsKept, LettersKept, Zenon DEF Ledger, Records, OneLetter, Own
  <1>9. Stakes'
    BY <1>1, <1>2, <1>4, QuietStakes, Zenon DEF Ledger, Moved
  <1> QED
    BY <1>8, <1>9, Zenon DEF Ledger

\* A claim that is released, of a key that is not torn, was the call's own or nobody's; the
\* call has no run, and nobody with an older clock is about to claim.
LEMMA ReleaseLate ==
    ASSUME Shape, Clocks, Ledger, NEW c \in Threads, call[c].pc = "release",
           NEW k \in Keys \ torn, k = call[c].key, claims[k].by \in {0, call[c].id}, ~ Behind(c),
           NEW a \in 0..MaxTime, NEW j \in 0..MaxCalls, Stake(k, a, j)
    PROVE  /\ now > a + Window
           /\ \A x \in Threads : call[x].pc = "claim" /\ call[x].key = k => call[x].seen > a + Window
  <1>1. CASE claims[k] = Free
    BY <1>1, Zenon DEF Ledger, Stakes, ClaimCovers
  <1>2. CASE claims[k] # Free
    <2>1. In(c) /\ Own(c)
      BY Zenon DEF In, Inside, Ledger, Records
    <2>2. claims[k].by = call[c].id
      BY <1>2, Zenon DEF Ledger, Stakes, FreeClaims
    <2>3. claims[k].at = call[c].seen
      BY <2>1, <2>2, Zenon DEF Own, OwnClaim
    <2>4. claims[k] = [at |-> a, by |-> j] \/ claims[k].at > a + Window
      BY <1>2, Zenon DEF Ledger, Stakes, ClaimCovers
    <2>5. j # call[c].id
      <3>1. ASSUME NEW r \in runs, r.by = call[c].id PROVE FALSE
        BY <2>1, <3>1, Zenon DEF Own, OwnRun
      <3>2. ASSUME NEW x \in Threads, call[x].pc = "submit", call[x].id = call[c].id PROVE FALSE
        BY <2>1, <3>2, OtherIds, Zenon DEF In, Inside, Ledger, Records
      <3> QED
        BY <3>1, <3>2, Zenon DEF Stake
    <2>6. call[c].seen > a + Window
      BY <2>2, <2>3, <2>4, <2>5
    <2>7. call[c].seen \in Nat /\ call[c].seen <= now /\ now \in Nat /\ Window \in Nat
      BY ConstantTypes DEF Shape, CallType, Clocks
    <2>8. \A x \in Threads : call[x].pc = "claim" /\ call[x].key = k =>
              call[x].seen \in Nat /\ call[x].seen >= call[c].seen
      BY <2>7 DEF Behind, Shape, CallType
    <2> QED
      BY <2>6, <2>7, <2>8
  <1> QED
    BY <1>1, <1>2, Zenon

\* A release keeps the stakes apart.
LEMMA LedgerRelease ==
    ASSUME Shape, Clocks, Ledger, NEW c \in Threads, Release(c)
    PROVE  Ledger'
  <1> DEFINE k == call[c].key
             i == call[c].id
  <1>1. /\ UNCHANGED <<events, dlq, runs, calls, now>> /\ call[c].pc = "release" /\ Moved(c, "dead")
        /\ torn \subseteq torn'
    BY IngestMoves, Zenon DEF Release, world, bounds
  <1>2. In(c) /\ Own(c) /\ Others(c) /\ call'[c].id = i /\ k \in Keys \cup {NoKey}
    BY <1>1, Zenon DEF In, Inside, Moved, Ledger, Records, Shape, CallType
  <1>3. (k \in Keys => claims'[k] = Free) /\ \A kk \in Keys \ {k} : claims'[kk] = claims[kk]
    BY <1>2, KeysNotAbsent, Zenon DEF Release, Shape
  <1>4. \A kk \in Keys : claims'[kk] = claims[kk] \/ claims'[kk].by = 0
    BY <1>3 DEF Free
  <1>5. Acts(c, i) /\ i >= 1 /\ calls' \in Nat
    BY <1>1, <1>2, <1>4, OtherIds, SMTT(20) DEF Acts, Ledger, Records
  <1>6. OwnRun(c)' /\ OwnClaim(c)'
    BY <1>1, <1>2, <1>3, <1>5, SMTT(20) DEF Own, OwnRun, OwnClaim, Moved, Free
  <1>7. OwnEvent(c)' /\ OwnLetter(c)' /\ \A e \in dlq' : e.id # i
    BY <1>1, <1>2, Zenon DEF Own, OwnEvent, OwnLetter
  <1>8. Records' /\ DeadLetterReleased'
    BY <1>1, <1>2, <1>5, <1>6, <1>7, RecordsKept, LettersKept, Zenon DEF Ledger, Records, OneLetter, Own
  <1>9. \A kk \in Keys, a \in 0..MaxTime, j \in 0..MaxCalls : Stake(kk, a, j)' => Stake(kk, a, j)
    BY <1>1, Zenon DEF Stake, Others, Moved
  <1>10. \A x \in Threads : call'[x].pc = "claim" => call'[x] = call[x]
    BY <1>1, Zenon DEF Others, Moved
  <1>11. StakesApart' /\ FreeClaims'
    BY <1>1, <1>3, <1>9, Zenon DEF Ledger, Stakes, StakesApart, Apart, FreeClaims
  <1>12. ASSUME k \in Keys \ torn', NEW a \in 0..MaxTime, NEW j \in 0..MaxCalls, Stake(k, a, j)
         PROVE  /\ now > a + Window
                /\ \A x \in Threads :
                      call[x].pc = "claim" /\ call[x].key = k => call[x].seen > a + Window
    <2>1. claims[k].by \in {0, i} /\ ~ Behind(c) /\ k \in Keys \ torn
      BY <1>1, <1>12, KeysNotAbsent, Zenon DEF Release
    <2> QED
      BY <1>1, <1>12, <2>1, ReleaseLate, Zenon
  <1> HIDE DEF k, i
  <1>13. ClaimCovers'
    <2> SUFFICES ASSUME NEW kk \in Keys \ torn', NEW a \in 0..MaxTime, NEW j \in 0..MaxCalls,
                        Stake(kk, a, j)'
                 PROVE  IF claims'[kk] # Free
                        THEN claims'[kk] = [at |-> a, by |-> j] \/ claims'[kk].at > a + Window
                        ELSE /\ now' > a + Window
                             /\ \A x \in Threads :
                                   call'[x].pc = "claim" /\ call'[x].key = kk
                                      => call'[x].seen > a + Window
      BY Zenon DEF ClaimCovers
    <2>1. Stake(kk, a, j) /\ kk \in Keys \ torn
      BY <1>1, <1>9, Zenon
    <2>2. CASE kk = k
      BY <1>1, <1>3, <1>10, <1>12, <2>1, <2>2, Zenon
    <2>3. CASE kk # k
      BY <1>1, <1>3, <1>10, <2>1, <2>3, ZenonT(40) DEF Ledger, Stakes, ClaimCovers
    <2> QED
      BY <2>2, <2>3, Zenon
  <1> QED
    BY <1>8, <1>11, <1>13, Zenon DEF Ledger, Stakes

\* The environment: the clock only makes the claims of the future later.
LEMMA LedgerWorld ==
    ASSUME Shape, Ledger, (\E d \in Deliveries : Sign(d)) \/ Freeze \/ Pass
    PROVE  Ledger'
  <1>1. UNCHANGED <<claims, events, dlq, runs, torn, calls, call>>
    BY Zenon DEF Sign, Freeze, Pass, store, history, bounds
  <1>2. now' \in Nat /\ now <= now'
    BY DEF Sign, Freeze, Pass, Shape
  <1>3. Records' /\ DeadLetterReleased'
    BY <1>1, ZenonT(40) DEF Ledger, Records, FreshIds, OneLetter, Own, OwnRun, OwnClaim, OwnEvent, OwnLetter, In,
       DeadLetterReleased
  <1>4. Stakes'
    BY <1>1, <1>2, StakesKept, Zenon DEF Ledger, Stake
  <1> QED
    BY <1>3, <1>4, Zenon DEF Ledger

---------------------------------------------------------------------------
\* Every step keeps the invariant.
LEMMA StepIInv ==
    ASSUME IInv, [Next]_vars
    PROVE  IInv'
  <1> USE DEF IInv
  <1>1. CASE UNCHANGED vars
    <2>1. Shape' /\ Clocks' /\ NonceFacts'
      BY <1>1, Zenon DEF vars, store, history, Shape, Clocks, NonceFacts, Near
    <2>2. Records'
      BY <1>1, SMTT(20) DEF vars, store, history, Records, FreshIds, Own, OwnRun, OwnClaim, OwnEvent, OwnLetter,
                  OneLetter, In
    <2>3. Stakes' /\ DeadLetterReleased'
      BY <1>1 DEF vars, store, history, Stakes, StakesApart, ClaimCovers, FreeClaims, Stake, Apart,
                  DeadLetterReleased
    <2> QED
      BY <2>1, <2>2, <2>3, Zenon
  <1>2. CASE Next
    <2>1. Clocks' /\ NonceFacts'
      BY <1>2, ClocksKept, NonceKept, Zenon
    <2>2. Ledger /\ FreshIds
      BY Zenon DEF Ledger, Records
    <2>3. Shape'
      BY <1>2, <2>2, ShapeEntry, ShapeNonce, ShapeInstant, ShapeLook, ShapeClaim, ShapeSubmit, ShapeWorld, Zenon DEF Next, Ingest
    <2>4. Ledger'
      BY <1>2, <2>2, LedgerEntry, LedgerTurn, LedgerLetter, LedgerMark, LedgerStart, LedgerLook,
         LedgerClaim, LedgerSubmit, LedgerEvent, LedgerRelease, LedgerWorld DEF Next, Ingest
    <2> QED
      BY <2>1, <2>3, <2>4, Zenon DEF Ledger
  <1> QED
    BY <1>1, <1>2, Zenon

\* The inductive invariant of the triggers holds in every state.
THEOREM Inductive == Spec => []IInv
  <1>1. Init => IInv
    BY InitIInv, Zenon
  <1>2. IInv /\ [Next]_vars => IInv'
    BY StepIInv, Zenon
  <1> QED
    BY <1>1, <1>2, PTL DEF Spec

\* Types: store, calls and history keep their shape, and an id has one dead letter.
THEOREM TypeCorrect == Spec => []TypeOK
  <1>1. IInv => TypeOK
    BY Zenon DEF IInv, Shape, Records, OneLetter, TypeOK, CallType, ClaimType, EventType, LetterType
  <1> QED
    BY <1>1, Inductive, PTL

\* Across replicas, redeliveries, ticks, crashes and replays, runs of one key were claimed
\* more than the dedup window apart, where no claim was torn from under a call.
THEOREM RunsApart == Spec => []OneRunPerWindow
  <1>1. ASSUME IInv PROVE OneRunPerWindow
    <2> SUFFICES ASSUME NEW r \in runs, NEW s \in runs, r.key = s.key,
                        r.key \notin torn \cup {NoKey}, r.by # s.by
                 PROVE  r.at - s.at > Window \/ s.at - r.at > Window
      BY Zenon DEF OneRunPerWindow
    <2>1. /\ r.key \in Keys \ torn /\ r.at \in 0..MaxTime /\ s.at \in 0..MaxTime
          /\ r.by \in 0..MaxCalls /\ s.by \in 0..MaxCalls
      BY <1>1, Zenon DEF IInv, Shape, RunType
    <2>2. Stake(r.key, r.at, r.by) /\ Stake(r.key, s.at, s.by)
      BY Zenon DEF Stake
    <2> QED
      BY <1>1, <2>1, <2>2, Zenon DEF IInv, Stakes, StakesApart, Apart
  <1> QED
    BY <1>1, Inductive, PTL

\* A signed delivery is admitted at most once, whatever the skew.
THEOREM NonceSafe == Spec => []NonceOnce
  <1>1. IInv => NonceOnce
    BY DEF IInv, NonceFacts, NonceOnce, Shape
  <1> QED
    BY <1>1, Inductive, PTL

\* A dead letter holds neither a claim nor an event with a key.
THEOREM LettersReleased == Spec => []DeadLetterReleased
  <1>1. IInv => DeadLetterReleased
    BY Zenon DEF IInv
  <1> QED
    BY <1>1, Inductive, PTL

---------------------------------------------------------------------------
\* The schedule

FST == INSTANCE FiniteSetTheorems
WF == INSTANCE WellFoundedInduction

\* The library's Cardinality is that of Triggers: a set of numbers within bounds has a size,
\* and a part of it that lacks a member has a smaller one.
LEMMA BoundedSet ==
    ASSUME NEW n \in Nat, NEW S \in SUBSET (0..n)
    PROVE  /\ Cardinality(S) \in Nat
           /\ \A T \in SUBSET S : T # S => Cardinality(T) \in Nat /\ Cardinality(T) < Cardinality(S)
  <1>1. \A U : IsFiniteSet(U) <=> FST!IsFiniteSet(U)
    BY Zenon DEF IsFiniteSet, FST!IsFiniteSet
  <1>2. \A U : Cardinality(U) = FST!Cardinality(U)
    BY Zenon DEF Cardinality, FST!Cardinality
  <1>3. FST!IsFiniteSet(0..n)
    BY FST!FS_Interval
  <1>4. FST!IsFiniteSet(S) /\ FST!Cardinality(S) \in Nat
    BY <1>3, FST!FS_Subset, FST!FS_CardinalityType, Zenon
  <1>5. ASSUME NEW T \in SUBSET S, T # S
        PROVE  FST!Cardinality(T) \in Nat /\ FST!Cardinality(T) < FST!Cardinality(S)
    <2>1. /\ FST!IsFiniteSet(T) /\ FST!Cardinality(T) <= FST!Cardinality(S)
          /\ FST!Cardinality(T) # FST!Cardinality(S)
      BY <1>4, <1>5, FST!FS_Subset, Zenon
    <2>2. FST!Cardinality(T) \in Nat
      BY <2>1, FST!FS_CardinalityType, Zenon
    <2> QED
      BY <1>4, <2>1, <2>2
  <1> QED
    BY <1>2, <1>4, <1>5, Zenon

Newest(S) == CHOOSE i \in S : \A j \in S : j <= i

\* A bounded set of numbers has a greatest one, and Newest is that one.
LEMMA NewestIn ==
    ASSUME NEW n \in Nat, NEW S \in SUBSET (0..n), S # {}
    PROVE  Newest(S) \in S /\ \A j \in S : j <= Newest(S)
  <1> DEFINE R == WF!OpToRel(<, Nat)
             T == {n - i : i \in S}
  <1>1. T \subseteq Nat
    OBVIOUS
  <1>2. T # {}
    <2>1. PICK i \in S : TRUE
      BY Zenon
    <2> QED
      BY <2>1, Zenon
  <1>3. \A i \in S : n - i \in T
    BY Zenon
  <1>4. \A y \in T : \E i \in S : y = n - i
    BY Zenon
  <1> HIDE DEF T
  <1>5. PICK x \in T : \A y \in T : ~ (<<y, x>> \in R)
    BY <1>1, <1>2, WF!NatLessThanWellFounded, WF!WFMin, Zenon
  <1>6. \A y \in T : ~ (y < x)
    <2> SUFFICES ASSUME NEW y \in T, y < x PROVE FALSE
      BY Zenon
    <2>1. <<y, x>> \in Nat \X Nat /\ <<y, x>>[1] < <<y, x>>[2]
      BY <1>1, Zenon
    <2> QED
      BY <1>5, <2>1, Zenon DEF WF!OpToRel
  <1>7. PICK i \in S : x = n - i
    BY <1>4, Zenon
  <1>8. \A j \in S : j <= i
    BY <1>3, <1>6, <1>7
  <1> QED
    BY <1>8, Zenon DEF Newest

\* A greatest element is the only one the latest-first lookup returns.
LEMMA LatestIs ==
    ASSUME NEW S \in SUBSET Int, NEW m \in S, \A j \in S : j <= m
    PROVE  Latest(S) = {m}
  <1>1. \A i \in S : m <= i => i = m
    BY SMTT(20), Zenon
  <1> QED
    BY <1>1, Zenon DEF Latest

\* What is due is what the policy documents, in every state with a bounded gap.
THEOREM DueCorrect == Spec => []DueMatchesPolicy
  <1>1. ASSUME IInv PROVE DueMatchesPolicy
    <2> DEFINE gap == {i \in Instants : Anchor < i /\ i <= now}
    <2> SUFFICES ASSUME spec.source \in {"cron", "watch"}, gap # {}, Cardinality(gap) <= 4 * MaxCatchUp
                 PROVE  Due = IF spec.policy = "skip" /\ now - Newest(gap) > TickSeconds THEN {}
                              ELSE IF spec.policy = "catch_up_all"
                              THEN {i \in gap : Cardinality({j \in gap : i < j}) < MaxCatchUp}
                              ELSE {Newest(gap)}
      BY Zenon DEF DueMatchesPolicy, Newest
    <2>1. now \in Nat /\ spec.policy \in {"skip", "catch_up", "catch_up_all"}
      BY <1>1, TriggersAssumption DEF IInv, Shape
    <2>2. gap \in SUBSET (0..now)
      <3>1. Instants \subseteq Nat
        BY ConstantTypes, Zenon
      <3>2. \A i \in gap : i \in Nat /\ i <= now
        BY <3>1, Zenon
      <3> HIDE DEF gap
      <3> QED
        BY <2>1, <3>2
    <2>3. Newest(gap) \in gap /\ \A j \in gap : j <= Newest(gap)
      BY <2>1, <2>2, NewestIn, Zenon
    <2>3a. Latest(gap) = {Newest(gap)}
      <3> HIDE DEF gap
      <3>1. gap \in SUBSET Int
        BY <2>2
      <3> QED
        BY <2>3, <3>1, LatestIs, Zenon
    <2>4. Cardinality(gap) \in Nat
      <3> HIDE DEF gap
      <3> QED
        BY <2>1, <2>2, BoundedSet, Zenon
    <2>5. Missed = gap
      <3>1. ASSUME NEW i \in gap PROVE Cardinality({j \in gap : j < i}) < 4 * MaxCatchUp
        <4>1. {j \in gap : j < i} \in SUBSET gap /\ {j \in gap : j < i} # gap
          BY <2>1, <2>2
        <4>2. /\ Cardinality({j \in gap : j < i}) \in Nat
              /\ Cardinality({j \in gap : j < i}) < Cardinality(gap)
          BY <2>1, <2>2, <4>1, BoundedSet, Zenon
        <4> QED
          BY <2>4, <4>2, ConstantTypes, SMTT(20)
      <3> QED
        BY <3>1, Zenon DEF Missed
    <2> HIDE DEF gap
    <2>7. CASE spec.policy = "skip"
      <3>1. Due = {i \in {Newest(gap)} : now - i <= TickSeconds}
        BY <2>3, <2>3a, <2>5, <2>7, Zenon DEF Due
      <3> QED
        <4>1. now - Newest(gap) \in Int /\ TickSeconds \in Nat
          <5>1. Newest(gap) \in 0..now
            BY <2>2, <2>3, Zenon
          <5> QED
            BY <2>1, <5>1, ConstantTypes, SMTT(20)
        <4>2. CASE now - Newest(gap) > TickSeconds
          <5>1. Due = {}
            BY <3>1, <4>1, <4>2, SMTT(20)
          <5> QED
            BY <2>7, <4>2, <5>1, Zenon
        <4>3. CASE ~ (now - Newest(gap) > TickSeconds)
          <5>1. now - Newest(gap) <= TickSeconds
            BY <4>1, <4>3
          <5>2. Due = {Newest(gap)}
            BY <2>3, <3>1, <5>1, Zenon
          <5> QED
            BY <2>7, <4>3, <5>2, Zenon
        <4> QED
          BY <4>2, <4>3, Zenon
    <2>8. CASE spec.policy = "catch_up"
      BY <2>3, <2>3a, <2>5, <2>8, Zenon DEF Due
    <2>9. CASE spec.policy = "catch_up_all"
      <3>1. Due = {i \in gap : Cardinality({j \in gap : j > i}) < MaxCatchUp}
        BY <2>3, <2>5, <2>9, Zenon DEF Due
      <3> QED
        BY <2>9, <3>1, Zenon
    <2> QED
      BY <2>1, <2>7, <2>8, <2>9, Zenon
  <1> QED
    BY <1>1, Inductive, PTL
===========================================================================
