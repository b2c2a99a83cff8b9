------------------------ MODULE CertificationProofs ------------------------
(***************************************************************************)
(* TypeOK, QuarantineHolds and ProductionEarned of Certification, for any  *)
(* number of callers, artifacts, versions, attestations and runs.          *)
(*                                                                         *)
(* Every operation saves a copy of what it read some steps before, so the  *)
(* inductive invariant is about the copies: what a call that is about to   *)
(* save may have changed in the record it read (Saving), what it knows of  *)
(* the attestation it applies (Applying), and that the attestation is not  *)
(* yet named by the record or by a copy of another call (Fresh).  As long  *)
(* as no save put back what another call had replaced, the record itself   *)
(* then keeps its bargain (Bargain), with the runs counted since the       *)
(* attestation it names was applied (Survival).                            *)
(***************************************************************************)
EXTENDS Certification, TLAPS

Ops == {"idle", "count", "flag", "promote", "update", "certify", "quarantine", "force", "reinstate", "recertify",
        "promotion"}
Pcs == {"idle", "save", "bench", "begin", "apply", "force", "note", "decide", "gate", "match"}
Events == {"none", "staging_pass", "production_pass", "recert_fail", "recover", "defer"}
Open == {"provisional", "certified"}

CallType == [op : Ops, pc : Pcs, ctx : Contexts, read : Record, new : Record, ran : Nat,
             event : Events, att : Nat, item : Nat]

\* A record within nv versions, na attestations and ns runs.
Within(r, nv, na, ns) == r \in Record /\ r.version <= nv /\ r.att <= na /\ r.survived <= MinRuns + ns

Fits(k, nv, na, ns) ==
    /\ k \in CallType
    /\ Within(k.read, nv, na, ns) /\ Within(k.new, nv, na, ns) /\ k.att <= na
    /\ k.pc = "bench" => k.ran \in Artifacts
    /\ k.pc \notin {"apply", "save"} => k.event = "none"

Version == [artifact : Artifacts, recert : BOOLEAN]

\* The stores and the counters.
Books ==
    /\ versions \in Seq(Version) /\ Len(versions) \in 1..MaxVersions
    /\ attestations \in Seq(Attestation) /\ Len(attestations) <= MaxAttestations
    /\ lapsed \subseteq DOMAIN attestations /\ quarantines \in Seq({"active", "reinstated"})
    /\ calls \in 0..MaxCalls /\ runs \in 0..MaxRuns /\ running \in 0..runs
    /\ earned \in Nat /\ held \in BOOLEAN /\ torn \in BOOLEAN

Shape ==
    /\ Within(rec, Len(versions), Len(attestations), runs - running)
    /\ DOMAIN call = Callers
    /\ \A c \in Callers : Fits(call[c], Len(versions), Len(attestations), runs - running)

\* What an attestation says of its benchmark, and a promotion of its attestation.
Attested ==
    /\ \A i \in DOMAIN attestations : attestations[i].status = "certified" => attestations[i].passed
    /\ \A p \in promotions :
          /\ p.artifact \in Artifacts /\ p.att \in DOMAIN attestations
          /\ attestations[p.att].artifact = p.artifact
          /\ attestations[p.att].ctx = "production" /\ attestations[p.att].passed

Applies(k) == k.pc \in {"apply", "save"} /\ k.event # "none"

\* The attestation a call is applying is named by no record but the one it saves itself.
Fresh ==
    \A c \in Callers : Applies(call[c]) =>
       /\ call[c].att \in DOMAIN attestations
       /\ rec.att # call[c].att /\ call[c].read.att # call[c].att
       /\ \A d \in Callers \ {c} :
             /\ call[d].read.att # call[c].att /\ call[d].new.att # call[c].att
             /\ Applies(call[d]) => call[d].att # call[c].att

\* What a call that is about to apply an attestation has found out.
Applying ==
    \A c \in Callers : call[c].pc = "apply" =>
       LET k == call[c]
           a == attestations[k.att]
       IN  /\ k.event # "none" /\ a.artifact = k.read.artifact
           /\ k.event # "recert_fail" => a.passed
           /\ k.event = "production_pass" => a.ctx = "production"
           /\ k.event = "defer" => k.read.status = "provisional"

\* What a copy may differ in from the record it was made of.
Plain(k) ==
    /\ k.new.status \in Open =>
          k.new.status = k.read.status /\ k.new.att = k.read.att /\ k.new.artifact = k.read.artifact
    /\ k.read.status = "quarantined" => k.new.status = "quarantined" \/ k.op = "update"
    /\ k.new.att \in {k.read.att, 0}

Advanced(k, a) ==
    /\ k.new.att = k.att /\ k.new.artifact = k.read.artifact /\ a.artifact = k.new.artifact
    /\ k.new.status \in Open => a.passed
    /\ k.new.status = "certified" => k.event = "production_pass" /\ a.ctx = "production"
    /\ k.new.status = "provisional" /\ k.read.status # "provisional" => k.new.survived = 0
    /\ k.read.status \in Open \/ k.new.status = "provisional"
    /\ k.read.status = "quarantined" => k.event = "recover"

Saving ==
    \A c \in Callers : call[c].pc = "save" =>
       IF call[c].event = "none" THEN Plain(call[c]) ELSE Advanced(call[c], attestations[call[c].att])

\* The record: an open workload names an attestation of its artifact, and a certified one
\* a production attestation and the runs it needs.
Bargain ==
    /\ rec.status \in Open =>
          /\ rec.att # 0 /\ attestations[rec.att].artifact = rec.artifact /\ attestations[rec.att].passed
    /\ rec.status = "certified" => attestations[rec.att].ctx = "production" /\ earned >= MinRuns
    /\ held => rec.status = "quarantined"

\* No copy counts more runs than completed since the attestation it names was applied.
Survival ==
    rec.att # 0 =>
       /\ rec.survived <= earned
       /\ \A c \in Callers : call[c].read.att = rec.att =>
             /\ call[c].pc = "save" => call[c].new.survived <= earned
             /\ Applies(call[c]) /\ call[c].event = "production_pass" => earned >= MinRuns

Core == Shape /\ Fresh /\ Applying /\ (~torn => Saving /\ Bargain /\ Survival)

IInv == Books /\ Attested /\ Core

---------------------------------------------------------------------------
\* A call moves on and leaves the record alone.

\* The constants are numbers.
LEMMA ConstantTypes ==
    /\ MinRuns \in Nat /\ MaxCalls \in Nat /\ MaxVersions \in Nat /\ MaxRuns \in Nat /\ MaxAttestations \in Nat
    /\ 1 \in Artifacts /\ Artifacts \subseteq Nat \ {0}
  BY CertificationAssumption, Zenon

\* What is left of a number.
LEMMA Difference ==
    ASSUME NEW m \in Nat, NEW n \in Nat, n <= m
    PROVE  m - n \in Nat
  OBVIOUS

\* The fields of a record.
LEMMA RecordParts ==
    ASSUME NEW r \in Record
    PROVE  /\ r.status \in Statuses /\ r.flag \in BOOLEAN /\ r.survived \in Nat /\ r.survived <= MinRuns + MaxRuns
           /\ r.version \in 1..MaxVersions /\ r.artifact \in Artifacts
           /\ r.att \in Nat /\ r.att <= MaxAttestations
  BY ConstantTypes DEF Record

\* The fields of a call.
LEMMA CallParts ==
    ASSUME Core, NEW d \in Callers
    PROVE  /\ call[d] \in CallType
           /\ call[d].read \in Record /\ call[d].new \in Record /\ call[d].att \in Nat
           /\ call[d].att <= Len(attestations)
           /\ call[d].read.att \in Nat /\ call[d].read.att <= Len(attestations)
           /\ call[d].new.att \in Nat /\ call[d].new.att <= Len(attestations)
           /\ call[d].new.survived \in Nat
  <1>1. Fits(call[d], Len(versions), Len(attestations), runs - running)
    BY Zenon DEF Core, Shape
  <1>2. call[d] \in CallType /\ call[d].read \in Record /\ call[d].new \in Record
        /\ call[d].att <= Len(attestations)
        /\ call[d].read.att <= Len(attestations) /\ call[d].new.att <= Len(attestations)
    BY <1>1, Zenon DEF Fits, Within
  <1>3. call[d].att \in Nat
    BY <1>2, Zenon DEF CallType
  <1> QED
    BY <1>2, <1>3, RecordParts, Zenon

\* The lengths of the stores, before and after a step
LEMMA LenTypes ==
    ASSUME Books, Books'
    PROVE  /\ DOMAIN attestations = 1..Len(attestations) /\ DOMAIN attestations' = 1..Len(attestations')
           /\ Len(attestations) \in Nat /\ Len(attestations') \in Nat
           /\ Len(versions) \in Nat /\ Len(versions') \in Nat /\ DOMAIN versions' = 1..Len(versions')
           /\ runs - running \in Nat /\ runs' - running' \in Nat /\ earned \in Nat /\ earned' \in Nat
  <1>1. /\ runs \in Nat /\ running \in Nat /\ running <= runs /\ runs' \in Nat /\ running' \in Nat /\ running' <= runs'
        /\ earned \in Nat /\ earned' \in Nat
    BY ConstantTypes DEF Books
  <1>2. versions \in Seq(Version) /\ attestations \in Seq(Attestation)
    BY Zenon DEF Books
  <1>3. versions' \in Seq(Version) /\ attestations' \in Seq(Attestation)
    BY Zenon DEF Books, Version, Attestation, Statuses, Contexts
  <1>4. DOMAIN attestations = 1..Len(attestations) /\ Len(attestations) \in Nat /\ Len(versions) \in Nat
    BY <1>2
  <1>5. DOMAIN attestations' = 1..Len(attestations') /\ Len(attestations') \in Nat /\ Len(versions') \in Nat
        /\ DOMAIN versions' = 1..Len(versions')
    BY <1>3
  <1>6. runs - running \in Nat /\ runs' - running' \in Nat
    BY <1>1, Difference, Zenon
  <1> QED
    BY <1>1, <1>4, <1>5, <1>6, Zenon

\* The stores only grow, and a run is counted when it ends.
Grown ==
    /\ Len(versions) <= Len(versions') /\ Len(attestations) <= Len(attestations')
    /\ \A i \in DOMAIN attestations : i \in DOMAIN attestations' /\ attestations'[i] = attestations[i]
    /\ runs - running <= runs' - running' /\ earned <= earned'
    /\ torn => torn'

\* Where the call goes is such that the invariant speaks of it.
Fitting(c, v) ==
    /\ Fits(v, Len(versions'), Len(attestations'), runs' - running')
    /\ v.read.att \in {0, rec.att, call[c].read.att}
    /\ \/ v.new.att \in {0, rec.att, call[c].new.att}
       \/ v.new.att = call[c].att /\ Applies(call[c])
    /\ Applies(v) =>
          /\ \/ v.att = call[c].att /\ Applies(call[c])
             \/ v.att = Len(attestations) + 1 /\ v.att \in DOMAIN attestations'
          /\ v.read.att # v.att

Informed(v) ==
    v.pc = "apply" =>
       /\ v.event # "none" /\ attestations'[v.att].artifact = v.read.artifact
       /\ v.event # "recert_fail" => attestations'[v.att].passed
       /\ v.event = "production_pass" => attestations'[v.att].ctx = "production"
       /\ v.event = "defer" => v.read.status = "provisional"

Faithful(v) ==
    /\ v.pc = "save" => IF v.event = "none" THEN Plain(v) ELSE Advanced(v, attestations'[v.att])
    /\ rec.att # 0 /\ v.read.att = rec.att =>
          /\ v.pc = "save" => v.new.survived <= earned'
          /\ Applies(v) /\ v.event = "production_pass" => earned' >= MinRuns

\* A step of one call that leaves the record alone.
Moves(c, v) ==
    /\ call' = [call EXCEPT ![c] = v]
    /\ UNCHANGED <<rec, held>> /\ Grown /\ Fitting(c, v) /\ Informed(v)
    /\ ~torn' => Faithful(v)

\* Such a step keeps the invariant.
LEMMA MovesKeep ==
    ASSUME Books, Books', Core, NEW c \in Callers, NEW v, Moves(c, v)
    PROVE  Core'
  <1>1. /\ DOMAIN call' = Callers /\ call'[c] = v
        /\ \A d \in Callers \ {c} : call'[d] = call[d]
    BY Zenon DEF Moves, Core, Shape
  <1>2. rec' = rec /\ held' = held /\ Grown /\ Fitting(c, v) /\ Informed(v) /\ (~torn' => Faithful(v))
    BY Zenon DEF Moves
  <1>3. DOMAIN attestations = 1..Len(attestations) /\ DOMAIN attestations' = 1..Len(attestations')
        /\ Len(attestations) \in Nat /\ Len(attestations') \in Nat
        /\ Len(versions) \in Nat /\ Len(versions') \in Nat
        /\ runs - running \in Nat /\ runs' - running' \in Nat
    BY LenTypes, Zenon
  <1>4. Shape'
    <2>1. ASSUME NEW r, Within(r, Len(versions), Len(attestations), runs - running)
          PROVE  Within(r, Len(versions'), Len(attestations'), runs' - running')
      BY <1>2, <1>3, <2>1, ConstantTypes, SMTT(20) DEF Within, Grown, Record
    <2>2. ASSUME NEW k, Fits(k, Len(versions), Len(attestations), runs - running)
          PROVE  Fits(k, Len(versions'), Len(attestations'), runs' - running')
      BY <1>2, <1>3, <2>1, <2>2 DEF Fits, Grown, CallType
    <2>3. Within(rec', Len(versions'), Len(attestations'), runs' - running')
      BY <1>2, <2>1, Zenon DEF Core, Shape
    <2>4. ASSUME NEW d \in Callers PROVE Fits(call'[d], Len(versions'), Len(attestations'), runs' - running')
      BY <1>1, <1>2, <2>2, Zenon DEF Core, Shape, Fitting
    <2> QED
      BY <1>1, <2>3, <2>4, Zenon DEF Shape
  <1>5. Fresh'
    <2> SUFFICES ASSUME NEW e \in Callers, Applies(call'[e])
                 PROVE  /\ call'[e].att \in DOMAIN attestations'
                        /\ rec'.att # call'[e].att /\ call'[e].read.att # call'[e].att
                        /\ \A d \in Callers \ {e} :
                              /\ call'[d].read.att # call'[e].att /\ call'[d].new.att # call'[e].att
                              /\ Applies(call'[d]) => call'[d].att # call'[e].att
      BY Zenon DEF Fresh, Applies
    <2>0. ASSUME NEW d \in Callers
          PROVE  /\ call[d].read.att \in 0..Len(attestations) /\ call[d].new.att \in 0..Len(attestations)
                 /\ call[d].att \in 0..Len(attestations)
      BY <1>3, CallParts
    <2>00. rec.att \in 0..Len(attestations)
      BY <1>3 DEF Core, Shape, Within, Record
    <2>1. CASE e = c
      <3>1. CASE v.att = call[c].att /\ Applies(call[c])
        BY <1>1, <1>2, <2>1, <3>1 DEF Core, Fresh, Fitting, Grown
      <3>2. CASE v.att = Len(attestations) + 1 /\ v.att \in DOMAIN attestations'
        BY <1>1, <1>2, <1>3, <2>0, <2>00, <2>1, <3>2, SMTT(20) DEF Core, Fresh, Fitting
      <3> QED
        BY <1>1, <1>2, <2>1, <3>1, <3>2, Zenon DEF Fitting
    <2>2. CASE e # c
      <3>1. call'[e] = call[e] /\ Applies(call[e])
        BY <1>1, <2>2, Zenon
      <3>2. /\ call[e].att \in DOMAIN attestations
            /\ rec.att # call[e].att /\ call[e].read.att # call[e].att
            /\ \A d \in Callers \ {e} :
                  /\ call[d].read.att # call[e].att /\ call[d].new.att # call[e].att
                  /\ Applies(call[d]) => call[d].att # call[e].att
        BY <3>1, Zenon DEF Core, Fresh
      <3>3. call[e].att \in 1..Len(attestations)
        BY <1>3, <3>2, Zenon
      <3>4. v.read.att # call[e].att /\ v.new.att # call[e].att /\ (Applies(v) => v.att # call[e].att)
        BY <1>2, <1>3, <2>2, <3>2, <3>3 DEF Fitting
      <3> QED
        BY <1>1, <1>2, <2>2, <3>1, <3>2, <3>4, Zenon DEF Grown
    <2> QED
      BY <2>1, <2>2, Zenon
  <1>6. Applying'
    <2> SUFFICES ASSUME NEW e \in Callers, call'[e].pc = "apply"
                 PROVE  /\ call'[e].event # "none" /\ attestations'[call'[e].att].artifact = call'[e].read.artifact
                        /\ call'[e].event # "recert_fail" => attestations'[call'[e].att].passed
                        /\ call'[e].event = "production_pass" => attestations'[call'[e].att].ctx = "production"
                        /\ call'[e].event = "defer" => call'[e].read.status = "provisional"
      BY Zenon DEF Applying
    <2>1. CASE e = c
      BY <1>1, <1>2, <2>1, Zenon DEF Informed
    <2>2. CASE e # c
      <3>1. call'[e] = call[e]
        BY <1>1, <2>2, Zenon
      <3>2. call[e].event # "none" /\ call[e].att \in DOMAIN attestations
        BY <3>1 DEF Core, Applying, Fresh, Applies
      <3>3. attestations'[call[e].att] = attestations[call[e].att]
        BY <1>2, <3>2, Zenon DEF Grown
      <3> QED
        BY <3>1, <3>3 DEF Core, Applying
    <2> QED
      BY <2>1, <2>2, Zenon
  <1>7. ASSUME ~torn' PROVE Saving' /\ Bargain' /\ Survival'
    <2>0. ~torn /\ Saving /\ Bargain /\ Survival /\ Faithful(v)
      BY <1>2, <1>7, Zenon DEF Core, Grown
    <2>1. Saving'
      <3> SUFFICES ASSUME NEW e \in Callers, call'[e].pc = "save"
                   PROVE  IF call'[e].event = "none" THEN Plain(call'[e])
                          ELSE Advanced(call'[e], attestations'[call'[e].att])
        BY Zenon DEF Saving, Plain, Advanced
      <3>1. CASE e = c
        BY <1>1, <2>0, <3>1, Zenon DEF Faithful
      <3>2. CASE e # c
        <4>1. call'[e] = call[e]
          BY <1>1, <3>2, Zenon
        <4>2. call[e].event # "none" => attestations'[call[e].att] = attestations[call[e].att]
          BY <1>2, <4>1, Zenon DEF Core, Fresh, Applies, Grown
        <4> QED
          BY <2>0, <4>1, <4>2, Zenon DEF Saving
      <3> QED
        BY <3>1, <3>2, Zenon
    <2>2. Bargain'
      <3>1. earned \in Nat /\ earned' \in Nat /\ earned <= earned'
        BY <1>2, Zenon DEF Books, Grown
      <3>2. rec.status \in Open => attestations'[rec.att] = attestations[rec.att]
        BY <1>2, <1>3, <2>0 DEF Core, Shape, Within, Record, Bargain, Grown
      <3> QED
        BY <1>2, <2>0, <3>1, <3>2, ConstantTypes DEF Bargain, Open
    <2>3. Survival'
      <3>1. earned \in Nat /\ earned' \in Nat /\ earned <= earned'
        BY <1>2, Zenon DEF Books, Grown
      <3> SUFFICES ASSUME rec.att # 0
                   PROVE  /\ rec.survived <= earned'
                          /\ \A d \in Callers : call'[d].read.att = rec.att =>
                                /\ call'[d].pc = "save" => call'[d].new.survived <= earned'
                                /\ Applies(call'[d]) /\ call'[d].event = "production_pass" => earned' >= MinRuns
        BY <1>2, Zenon DEF Survival, Applies
      <3>2. rec.survived \in Nat /\ \A d \in Callers : call[d].new.survived \in Nat
        BY CallParts, RecordParts, Zenon DEF Core, Shape, Within
      <3>3. ASSUME NEW d \in Callers, call'[d].read.att = rec.att
            PROVE  /\ call'[d].pc = "save" => call'[d].new.survived <= earned'
                   /\ Applies(call'[d]) /\ call'[d].event = "production_pass" => earned' >= MinRuns
        <4>1. CASE d = c
          BY <1>1, <2>0, <3>3, <4>1, Zenon DEF Faithful
        <4>2. CASE d # c
          <5>1. call'[d] = call[d] /\ call[d].read.att = rec.att
            BY <1>1, <3>3, <4>2, Zenon
          <5>2. /\ call[d].pc = "save" => call[d].new.survived <= earned
                /\ Applies(call[d]) /\ call[d].event = "production_pass" => earned >= MinRuns
            BY <2>0, <5>1, Zenon DEF Survival
          <5> QED
            BY <3>1, <3>2, <5>1, <5>2, ConstantTypes
        <4> QED
          BY <4>1, <4>2, Zenon
      <3> QED
        BY <2>0, <3>1, <3>2, <3>3 DEF Survival
    <2> QED
      BY <2>1, <2>2, <2>3, Zenon
  <1> QED
    BY <1>4, <1>5, <1>6, <1>7, Zenon DEF Core

---------------------------------------------------------------------------
\* The save of a copy

\* A caller at rest, or between two parts of its call, carries no copy.
Rests(v, na) ==
    /\ v \in CallType /\ v.pc \notin {"apply", "save"} /\ v.event = "none"
    /\ v.read = New /\ v.new = New /\ v.att <= na /\ (v.pc = "bench" => v.ran \in Artifacts)

\* The record as it is registered
LEMMA NewRecord ==
    ASSUME Books
    PROVE  /\ New \in Record /\ New.att = 0
           /\ Within(New, Len(versions), Len(attestations), runs - running)
  <1>1. Len(versions) \in Nat /\ 1 <= Len(versions) /\ 1 \in 1..MaxVersions /\ Len(attestations) \in Nat
    BY ConstantTypes DEF Books
  <1>2. runs - running \in Nat
    BY ConstantTypes, Difference DEF Books
  <1>3. New \in Record
    BY <1>1, ConstantTypes DEF New, Record, Statuses
  <1> QED
    BY <1>1, <1>2, <1>3, ConstantTypes DEF Within, New

\* The places a call can be in without a copy
LEMMA RestShape ==
    ASSUME Books, NEW op \in Ops, NEW pc \in Pcs \ {"apply", "save", "bench"}, NEW ctx \in Contexts, NEW item \in Nat,
           NEW na \in Nat, NEW att \in 0..na
    PROVE  /\ Rests(Idle, na)
           /\ Rests([Idle EXCEPT !.op = op, !.pc = pc, !.ctx = ctx, !.item = item], na)
           /\ Rests([Idle EXCEPT !.op = op, !.pc = pc, !.ctx = ctx, !.item = item, !.att = att], na)
  <1>1. New \in Record
    BY NewRecord, Zenon
  <1> HIDE DEF New
  <1>2. Idle \in CallType
    BY <1>1, Zenon DEF Idle, CallType, Ops, Pcs, Contexts, Events
  <1>3. Idle.pc = "idle" /\ Idle.event = "none" /\ Idle.read = New /\ Idle.new = New /\ Idle.att = 0
    BY Zenon DEF Idle
  <1> DEFINE r == [Idle EXCEPT !.op = op, !.pc = pc, !.ctx = ctx, !.item = item]
  <1> DEFINE q == [Idle EXCEPT !.op = op, !.pc = pc, !.ctx = ctx, !.item = item, !.att = att]
  <1>4. r \in CallType /\ r.pc = pc /\ r.event = "none" /\ r.read = New /\ r.new = New /\ r.att = 0
    BY <1>2, <1>3, Zenon DEF CallType
  <1>5. q \in CallType /\ q.pc = pc /\ q.event = "none" /\ q.read = New /\ q.new = New /\ q.att = att
    <2>1. q = [r EXCEPT !.att = att]
      BY Zenon
    <2> HIDE DEF r, q
    <2> QED
      BY <1>4, <2>1 DEF CallType
  <1>6. Rests(r, na)
    BY <1>4 DEF Rests
  <1>7. Rests(q, na)
    BY <1>5 DEF Rests
  <1> QED
    BY <1>2, <1>3, <1>6, <1>7 DEF Rests

\* What a call goes on with
LEMMA AfterShape ==
    ASSUME Books, Core, NEW c \in Callers
    PROVE  Rests(After(c), Len(attestations))
  <1> DEFINE k == call[c]
             at(pc, ctx) == [Idle EXCEPT !.op = k.op, !.pc = pc, !.ctx = ctx, !.item = k.item,
                                         !.att = IF pc = "decide" THEN k.att ELSE 0]
  <1>1. Len(attestations) \in Nat
    BY DEF Books
  <1>2. k \in CallType /\ k.att \in 0..Len(attestations)
    BY <1>1, CallParts
  <1>3. k.op \in Ops /\ k.ctx \in Contexts /\ k.item \in Nat
    BY <1>2, Zenon DEF CallType
  <1>4. ASSUME NEW pc \in {"note", "begin", "decide", "gate"}, NEW ctx \in Contexts
        PROVE  Rests(at(pc, ctx), Len(attestations))
    <2>1. pc \in Pcs \ {"apply", "save", "bench"} /\ (IF pc = "decide" THEN k.att ELSE 0) \in 0..Len(attestations)
      BY <1>1, <1>2 DEF Pcs
    <2> QED
      BY <1>1, <1>3, <2>1, RestShape, Zenon
  <1>5. Rests(Idle, Len(attestations))
    <2>1. "idle" \in Pcs \ {"apply", "save", "bench"} /\ 0 \in 0..Len(attestations)
      BY <1>1 DEF Pcs
    <2> QED
      BY <1>1, <1>3, <2>1, RestShape, Zenon
  <1>6. "production" \in Contexts
    BY SMTT(20) DEF Contexts
  <1>7. \/ After(c) = Idle
        \/ \E pc \in {"note", "begin", "decide", "gate"}, ctx \in Contexts : After(c) = at(pc, ctx)
    BY <1>3, <1>6, Zenon DEF After
  <1>8. ASSUME NEW pc \in {"note", "begin", "decide", "gate"}, NEW ctx \in Contexts, After(c) = at(pc, ctx)
        PROVE  Rests(After(c), Len(attestations))
    <2>1. Rests(at(pc, ctx), Len(attestations))
      BY <1>4, Zenon
    <2> HIDE DEF at
    <2> QED
      BY <1>8, <2>1, Zenon
  <1> HIDE DEF at
  <1> QED
    BY <1>5, <1>7, <1>8, Zenon

\* A copy that is not stale was made of the record as it is, but for the count of runs.
LEMMA NotStale ==
    ASSUME rec \in Record, NEW k, k.read \in Record, ~Stale(k)
    PROVE  /\ k.read.status = rec.status /\ k.read.version = rec.version
           /\ k.read.artifact = rec.artifact /\ k.read.att = rec.att
  <1>1. [rec EXCEPT !.survived = 0] = [k.read EXCEPT !.survived = 0]
    BY Zenon DEF Stale
  <1>2. /\ [rec EXCEPT !.survived = 0].status = rec.status /\ [k.read EXCEPT !.survived = 0].status = k.read.status
        /\ [rec EXCEPT !.survived = 0].version = rec.version /\ [k.read EXCEPT !.survived = 0].version = k.read.version
        /\ [rec EXCEPT !.survived = 0].att = rec.att /\ [k.read EXCEPT !.survived = 0].att = k.read.att
        /\ [rec EXCEPT !.survived = 0].artifact = rec.artifact
        /\ [k.read EXCEPT !.survived = 0].artifact = k.read.artifact
    BY Zenon DEF Record
  <1> QED
    BY <1>1, <1>2, Zenon

\* The save keeps the invariant.
LEMMA SaveKeeps ==
    ASSUME Books, Core, NEW c \in Callers, Save(c)
    PROVE  Core'
  <1> DEFINE k == call[c]
             v == After(c)
  <1>1. /\ k.pc = "save" /\ rec' = k.new /\ call' = [call EXCEPT ![c] = v]
        /\ torn' = (torn \/ Stale(k))
        /\ held' = (k.new.status = "quarantined" \/ (held /\ k.event # "recover" /\ k.op # "update"))
        /\ earned' = IF k.new.status = "provisional" /\ rec.status # "provisional" THEN 0 ELSE earned
        /\ versions' = versions /\ attestations' = attestations /\ running' = running /\ runs' = runs
    BY Zenon DEF Save
  <1>2. Rests(v, Len(attestations))
    BY AfterShape, Zenon
  <1> HIDE DEF v
  <1>3. /\ DOMAIN call' = Callers /\ call'[c] = v
        /\ \A d \in Callers \ {c} : call'[d] = call[d]
    BY <1>1, Zenon DEF Core, Shape
  <1>4. rec \in Record /\ k \in CallType /\ k.read \in Record /\ k.new \in Record /\ earned \in Nat
    BY CallParts, Zenon DEF Core, Shape, Within, Books
  <1>5. v.read.att = 0 /\ v.new.att = 0 /\ ~Applies(v) /\ v.pc \notin {"apply", "save"}
    BY <1>2, NewRecord, Zenon DEF Rests, Applies
  <1>6. Shape'
    <2>1. Within(k.new, Len(versions), Len(attestations), runs - running)
      BY Zenon DEF Core, Shape, Fits
    <2>2. Fits(v, Len(versions), Len(attestations), runs - running)
      BY <1>2, NewRecord, Zenon DEF Rests, Fits
    <2> QED
      BY <1>1, <1>3, <2>1, <2>2, Zenon DEF Core, Shape
  <1>7. Fresh'
    <2> SUFFICES ASSUME NEW e \in Callers, Applies(call'[e])
                 PROVE  /\ call'[e].att \in DOMAIN attestations'
                        /\ rec'.att # call'[e].att /\ call'[e].read.att # call'[e].att
                        /\ \A d \in Callers \ {e} :
                              /\ call'[d].read.att # call'[e].att /\ call'[d].new.att # call'[e].att
                              /\ Applies(call'[d]) => call'[d].att # call'[e].att
      BY Zenon DEF Fresh, Applies
    <2>1. e # c /\ call'[e] = call[e] /\ Applies(call[e])
      BY <1>3, <1>5, Zenon
    <2>2. /\ call[e].att \in DOMAIN attestations
          /\ call[e].read.att # call[e].att
          /\ \A d \in Callers \ {e} :
                /\ call[d].read.att # call[e].att /\ call[d].new.att # call[e].att
                /\ Applies(call[d]) => call[d].att # call[e].att
      BY <2>1, Zenon DEF Core, Fresh
    <2>3. call[e].att # 0
      BY <2>2 DEF Books
    <2> QED
      BY <1>1, <1>3, <1>5, <2>1, <2>2, <2>3, Zenon
  <1>8. Applying'
    BY <1>1, <1>3, <1>5 DEF Core, Applying
  <1>9. ASSUME ~torn' PROVE Saving' /\ Bargain' /\ Survival'
    <2>1. ~torn /\ Saving /\ Bargain /\ Survival /\ ~Stale(k)
      BY <1>1, <1>9, Zenon DEF Core
    <2>2. k.read.status = rec.status /\ k.read.artifact = rec.artifact /\ k.read.att = rec.att
      BY <1>4, <2>1, NotStale, SMTT(20)
    <2>3. Saving'
      BY <1>1, <1>3, <1>5, <2>1 DEF Saving, Plain, Advanced
    <2>4. k.new.survived \in Nat /\ k.att \in Nat /\ MinRuns \in Nat
      BY CallParts, ConstantTypes, Zenon
    <2>5. rec.status \in Open => rec.att # 0
      BY <2>1, Zenon DEF Bargain
    <2>6. rec.att # 0 => k.new.survived <= earned /\ (k.event = "production_pass" => earned >= MinRuns)
      BY <1>1, <2>1, <2>2, Zenon DEF Survival, Applies
    <2>7. CASE k.event = "none"
      <3>1. Plain(k)
        BY <1>1, <2>1, <2>7, Zenon DEF Saving
      <3>2. earned' = earned
        BY <1>1, <2>2, <3>1, Zenon DEF Plain, Open
      <3>3. Bargain'
        BY <1>1, <2>1, <2>2, <3>1, <3>2, Zenon DEF Plain, Bargain, Open
      <3>4. Survival'
        BY <1>1, <1>3, <1>5, <2>1, <2>2, <2>6, <3>1, <3>2 DEF Plain, Survival, Applies
      <3> QED
        BY <2>3, <3>3, <3>4, Zenon
    <2>8. CASE k.event # "none"
      <3>1. Advanced(k, attestations[k.att])
        BY <1>1, <2>1, <2>8, Zenon DEF Saving
      <3>2. k.att # 0 /\ \A d \in Callers \ {c} : call[d].read.att # k.att
        BY <1>1, <2>8 DEF Core, Fresh, Applies, Books
      <3>3. Bargain'
        BY <1>1, <2>1, <2>2, <2>5, <2>6, <3>1, <3>2, Zenon DEF Advanced, Bargain, Open
      <3>4. k.new.survived <= earned'
        BY <1>1, <2>2, <2>4, <2>5, <2>6, <3>1 DEF Advanced, Open
      <3>5. Survival'
        BY <1>1, <1>3, <1>5, <3>1, <3>2, <3>4 DEF Advanced, Survival
      <3> QED
        BY <2>3, <3>3, <3>5, Zenon
    <2> QED
      BY <2>7, <2>8, Zenon
  <1> QED
    BY <1>6, <1>7, <1>8, <1>9, Zenon DEF Core

---------------------------------------------------------------------------
\* The steps of a call that has no copy to save

\* Where the call is it has no copy, or none that it will save.
Settled(c, v) ==
    /\ v \in CallType /\ v.pc \notin {"apply", "save"} /\ v.event = "none"
    /\ v.read \in {New, rec, call[c].read} /\ v.new \in {New, call[c].new}
    /\ v.att <= Len(attestations') /\ (v.pc = "bench" => v.ran \in Artifacts)

\* A record stays within bounds that grow.
LEMMA WithinGrows ==
    ASSUME Books, Books', Grown, NEW r, Within(r, Len(versions), Len(attestations), runs - running)
    PROVE  Within(r, Len(versions'), Len(attestations'), runs' - running')
  <1>1. r \in Record /\ r.survived \in Nat /\ r.version \in Nat /\ r.att \in Nat
    BY RecordParts DEF Within
  <1> QED
    BY <1>1, LenTypes, ConstantTypes, SMTT(20) DEF Within, Grown

\* Such a step keeps the invariant.
LEMMA SettledKeeps ==
    ASSUME Books, Books', Core, NEW c \in Callers, NEW v, call' = [call EXCEPT ![c] = v],
           UNCHANGED <<rec, held>>, Grown, Settled(c, v)
    PROVE  Core'
  <1>1. New.att = 0 /\ Within(New, Len(versions), Len(attestations), runs - running)
    BY NewRecord, Zenon
  <1>2. /\ Within(rec, Len(versions), Len(attestations), runs - running)
        /\ Within(call[c].read, Len(versions), Len(attestations), runs - running)
        /\ Within(call[c].new, Len(versions), Len(attestations), runs - running)
    BY Zenon DEF Core, Shape, Fits
  <1>3. /\ Within(v.read, Len(versions'), Len(attestations'), runs' - running')
        /\ Within(v.new, Len(versions'), Len(attestations'), runs' - running')
    BY <1>1, <1>2, WithinGrows, Zenon DEF Settled
  <1>4. ~Applies(v) /\ v.pc # "apply" /\ v.pc # "save"
    BY Zenon DEF Settled, Applies
  <1>5. Fitting(c, v)
    BY <1>1, <1>3, <1>4, Zenon DEF Fitting, Fits, Settled
  <1>6. Moves(c, v)
    BY <1>4, <1>5, Zenon DEF Moves, Informed, Faithful
  <1> QED
    BY <1>6, MovesKeep, Zenon

\* A call at rest
LEMMA IdleSettled ==
    ASSUME Books, NEW c \in Callers, Len(attestations') \in Nat
    PROVE  Settled(c, Idle)
  <1>1. /\ "idle" \in Ops /\ "idle" \in Pcs \ {"apply", "save", "bench"} /\ "staging" \in Contexts
        /\ 0 \in Nat /\ 0 \in 0..Len(attestations')
    BY SMTT(20) DEF Ops, Pcs, Contexts
  <1>2. Rests(Idle, Len(attestations'))
    BY <1>1, RestShape, Zenon
  <1> QED
    BY <1>2, Zenon DEF Rests, Settled

\* The stores and the history stay as they are.
Kept == UNCHANGED <<rec, versions, attestations, running, runs, earned, held, torn>>

\* Nothing grows by nothing.
LEMMA KeptGrows ==
    ASSUME Books, Kept
    PROVE  Grown /\ Len(attestations') \in Nat /\ Len(attestations') = Len(attestations) /\ UNCHANGED <<rec, held>>
  <1>1. Len(versions) \in Nat /\ Len(attestations) \in Nat /\ earned \in Nat
    BY DEF Books
  <1>2. runs - running \in Nat
    BY ConstantTypes, Difference DEF Books
  <1> QED
    BY <1>1, <1>2 DEF Kept, Grown

\* A call that ends, or dies.
Ends(c) == Crash(c) \/ ApplyRaises(c) \/ Note(c) \/ Decide(c) \/ RegressionBlocks(c) \/ Match(c)

\* Its end keeps the invariant.
LEMMA EndsKeep ==
    ASSUME Books, Books', Core, NEW c \in Callers, Ends(c)
    PROVE  Core'
  <1>1. call' = [call EXCEPT ![c] = Idle] /\ Kept
    BY Zenon DEF Ends, Crash, ApplyRaises, Note, Decide, RegressionBlocks, Match, Kept, history
  <1> QED
    BY <1>1, KeptGrows, IdleSettled, SettledKeeps, Zenon

\* A call that begins without a copy.
Opens(c) ==
    \/ \E ctx \in Contexts : Certify(c, ctx)
    \/ Quarantine(c) \/ Reinstate(c) \/ Recertify(c) \/ RequestPromotion(c) \/ Gate(c) \/ Bench(c)

\* Its beginning keeps the invariant.
LEMMA OpensKeep ==
    ASSUME Books, Books', Core, NEW c \in Callers, Opens(c)
    PROVE  Core'
  <1>1. Kept
    BY Zenon DEF Opens, Certify, Quarantine, Reinstate, Recertify, RequestPromotion, Gate, Bench, Kept, history
  <1>2. Grown /\ Len(attestations') \in Nat /\ Len(attestations') = Len(attestations) /\ UNCHANGED <<rec, held>>
    BY <1>1, KeptGrows, Zenon
  <1> SUFFICES \E v : call' = [call EXCEPT ![c] = v] /\ Settled(c, v)
    BY <1>2, SettledKeeps, Zenon
  <1>3. New \in Record /\ rec \in Record /\ rec.artifact \in Artifacts /\ rec.artifact \in Nat
    BY NewRecord, ConstantTypes, RecordParts, Zenon DEF Core, Shape, Within
  <1>4. Idle \in CallType /\ Idle.pc = "idle" /\ Idle.event = "none" /\ Idle.read = New /\ Idle.new = New /\ Idle.att = 0
    <2>1. Idle \in CallType
      BY <1>3, Zenon DEF Idle, CallType, Ops, Pcs, Contexts, Events
    <2> QED
      BY <2>1, Zenon DEF Idle
  <1>5. CASE \E ctx \in Contexts : Certify(c, ctx)
    <2>1. PICK ctx \in Contexts :
             call' = [call EXCEPT ![c] = [Idle EXCEPT !.op = "certify", !.pc = "bench", !.ctx = ctx, !.ran = rec.artifact]]
      BY <1>5, Zenon DEF Certify
    <2> DEFINE v == [Idle EXCEPT !.op = "certify", !.pc = "bench", !.ctx = ctx, !.ran = rec.artifact]
    <2>2. v \in CallType /\ v.pc = "bench" /\ v.event = "none" /\ v.read = New /\ v.new = New /\ v.att = 0
          /\ v.ran = rec.artifact
      BY <1>3, <1>4, Zenon DEF CallType, Ops, Pcs
    <2> HIDE DEF v
    <2>3. Settled(c, v)
      BY <1>2, <1>3, <2>2 DEF Settled
    <2> QED
      BY <2>1, <2>3, Zenon DEF v
  <1>6. CASE Quarantine(c) \/ Reinstate(c) \/ Recertify(c)
    <2>1. PICK op \in Ops, pc \in {"force", "begin"}, ctx \in Contexts, item \in Nat : Call(c, op, pc, ctx, item)
      <3>1. {"quarantine", "reinstate", "recertify"} \subseteq Ops /\ {"staging", "production"} \subseteq Contexts
        BY Zenon DEF Ops, Contexts
      <3>2. \A i \in Active : i \in Nat
        BY SMTT(20) DEF Active, Books
      <3>3. CASE Quarantine(c)
        BY <3>1, <3>3, Zenon DEF Quarantine
      <3>4. CASE Reinstate(c)
        BY <3>1, <3>2, <3>4, Zenon DEF Reinstate
      <3>5. CASE Recertify(c)
        BY <3>1, <3>5, Zenon DEF Recertify
      <3> QED
        BY <1>6, <3>3, <3>4, <3>5, Zenon
    <2> DEFINE v == [Idle EXCEPT !.op = op, !.pc = pc, !.ctx = ctx, !.item = item]
    <2>2. call' = [call EXCEPT ![c] = v]
      BY <2>1, Zenon DEF Call
    <2>3. pc \in Pcs \ {"apply", "save", "bench"} /\ 0 \in 0..Len(attestations')
      BY <1>2, SMTT(20) DEF Pcs
    <2>4. Rests(v, Len(attestations'))
      BY <1>2, <2>3, RestShape, Zenon
    <2> HIDE DEF v
    <2> QED
      BY <2>2, <2>4, Zenon DEF Rests, Settled
  <1>7. CASE RequestPromotion(c) \/ Gate(c)
    <2> DEFINE v == [Idle EXCEPT !.op = "promotion", !.pc = "match", !.read = rec]
    <2>1. call' = [call EXCEPT ![c] = v]
      BY <1>7, Zenon DEF RequestPromotion, Gate
    <2>2. v \in CallType /\ v.pc = "match" /\ v.event = "none" /\ v.read = rec /\ v.new = New /\ v.att = 0
      BY <1>3, <1>4, Zenon DEF CallType, Ops, Pcs
    <2> HIDE DEF v
    <2>3. Settled(c, v)
      BY <1>2, <2>2 DEF Settled
    <2> QED
      BY <2>1, <2>3, Zenon
  <1>8. CASE Bench(c)
    <2> DEFINE k == call[c]
               v == [k EXCEPT !.pc = "bench", !.ran = rec.artifact]
    <2>1. call[c].pc = "begin" /\ call' = [call EXCEPT ![c] = v]
      BY <1>8, Zenon DEF Bench
    <2>2. k \in CallType /\ k.att <= Len(attestations) /\ k.event = "none"
      BY <2>1, Zenon DEF Core, Shape, Fits
    <2> HIDE DEF k
    <2>3. v \in CallType /\ v.pc = "bench" /\ v.event = "none" /\ v.read = k.read /\ v.new = k.new /\ v.att = k.att
          /\ v.ran = rec.artifact
      BY <1>3, <2>2, Zenon DEF CallType, Pcs
    <2> HIDE DEF v
    <2>4. Settled(c, v)
      BY <1>2, <1>3, <2>2, <2>3, Zenon DEF Settled, k
    <2> QED
      BY <2>1, <2>4, Zenon
  <1> QED
    BY <1>5, <1>6, <1>7, <1>8, Zenon DEF Opens

---------------------------------------------------------------------------
\* The steps of a call that copies the record

\* A copy of the record as it is, made for an operation other than the benchmark's.
LEMMA CopyKeeps ==
    ASSUME Books, Books', Core, NEW c \in Callers, NEW op \in Ops, NEW new, Copy(c, op, new), call[c].event = "none",
           UNCHANGED <<rec, held>>, Grown,
           Within(new, Len(versions'), Len(attestations'), runs' - running'),
           new.status \in Open => new.status = rec.status /\ new.att = rec.att /\ new.artifact = rec.artifact,
           rec.status = "quarantined" => new.status = "quarantined" \/ op = "update",
           new.att \in {rec.att, 0},
           ~torn' /\ rec.att # 0 => new.survived <= earned'
    PROVE  Core'
  <1> DEFINE k == call[c]
             v == [k EXCEPT !.op = op, !.pc = "save", !.read = rec, !.new = new]
  <1>1. call' = [call EXCEPT ![c] = v]
    BY Zenon DEF Copy
  <1>2. k \in CallType /\ k.att <= Len(attestations) /\ k.event = "none" /\ k.att \in Nat
    BY CallParts, Zenon
  <1>3. new \in Record /\ rec \in Record
    BY Zenon DEF Within, Core, Shape
  <1>4. v \in CallType /\ v.op = op /\ v.pc = "save" /\ v.read = rec /\ v.new = new /\ v.event = "none" /\ v.att = k.att
    <2> HIDE DEF k
    <2> QED
      BY <1>2, <1>3, Zenon DEF CallType, Pcs
  <1> HIDE DEF v
  <1>5. Within(rec, Len(versions'), Len(attestations'), runs' - running')
    BY WithinGrows, Zenon DEF Core, Shape
  <1>6. v.att <= Len(attestations')
    <2>1. Len(attestations) \in Nat /\ Len(attestations') \in Nat
      BY LenTypes, Zenon
    <2> QED
      BY <1>2, <1>4, <2>1 DEF Grown
  <1>7. Fits(v, Len(versions'), Len(attestations'), runs' - running')
    BY <1>4, <1>5, <1>6, Zenon DEF Fits
  <1>8. ~Applies(v)
    BY <1>4, Zenon DEF Applies
  <1>9. Fitting(c, v)
    BY <1>4, <1>7, <1>8, Zenon DEF Fitting
  <1>10. Plain(v)
    BY <1>4, Zenon DEF Plain
  <1>11. Moves(c, v)
    BY <1>1, <1>4, <1>8, <1>9, <1>10, SMTT(20) DEF Moves, Informed, Faithful
  <1> QED
    BY <1>11, MovesKeep, Zenon

\* A call that makes its copy of the record in the step in which it is called or forced
Copies(c) ==
    \/ Flag(c) \/ (\E v \in 1..MaxVersions : Promote(c, v))
    \/ ForceByReconciler(c) \/ ForceQuarantine(c)

\* The copies of those who change a field keep the invariant.
LEMMA CopiesKeep ==
    ASSUME Books, Books', Core, NEW c \in Callers, Copies(c)
    PROVE  Core'
  <1>1. Kept
    BY Zenon DEF Copies, Flag, Promote, ForceByReconciler, ForceQuarantine, Kept, history
  <1>2. Grown /\ Len(attestations') = Len(attestations) /\ UNCHANGED <<rec, held>>
    BY <1>1, KeptGrows, Zenon
  <1>3. Within(rec, Len(versions), Len(attestations), runs - running) /\ rec \in Record
    BY Zenon DEF Core, Shape, Within
  <1>4. call[c].event = "none"
    <2>1. CASE call[c] = Idle
      BY <2>1 DEF Idle
    <2>2. CASE call[c].pc = "force"
      BY <2>2, Zenon DEF Core, Shape, Fits
    <2> QED
      BY <2>1, <2>2, Zenon DEF Copies, Flag, Promote, ForceByReconciler, ForceQuarantine, Begin
  <1>5. call[c].op \in Ops /\ {"flag", "promote", "force"} \subseteq Ops
    BY CallParts, SMTT(20) DEF CallType, Ops
  <1>6. PICK op, new :
           /\ op \in Ops /\ Copy(c, op, new)
           /\ \/ new = [rec EXCEPT !.flag = TRUE]
              \/ \E v \in DOMAIN versions : new = [rec EXCEPT !.flag = FALSE, !.version = v]
              \/ new = [rec EXCEPT !.status = "quarantined"]
    <2>1. CASE Flag(c)
      BY <1>5, <2>1, Zenon DEF Flag, Begin
    <2>2. CASE \E v \in 1..MaxVersions : Promote(c, v)
      BY <1>5, <2>2, Zenon DEF Promote, Begin
    <2>3. CASE ForceByReconciler(c)
      BY <1>5, <2>3, Zenon DEF ForceByReconciler, Begin
    <2>4. CASE ForceQuarantine(c)
      BY <1>5, <2>4, Zenon DEF ForceQuarantine
    <2> QED
      BY <2>1, <2>2, <2>3, <2>4, Zenon DEF Copies
  <1>7. /\ new \in Record /\ new.att = rec.att /\ new.artifact = rec.artifact /\ new.survived = rec.survived
        /\ new.status \in {rec.status, "quarantined"}
        /\ new.version = rec.version \/ new.version \in DOMAIN versions
    <2>1. DOMAIN versions \subseteq 1..MaxVersions
      BY ConstantTypes, SMTT(20) DEF Books
    <2> QED
      BY <1>3, <1>6, <2>1, Zenon DEF Record, Statuses
  <1>8. Within(new, Len(versions), Len(attestations), runs - running)
    BY <1>3, <1>7, SMTT(20) DEF Within, Books
  <1>9. Within(new, Len(versions'), Len(attestations'), runs' - running')
    BY <1>2, <1>8, WithinGrows, Zenon
  <1>10. ~torn' /\ rec.att # 0 => new.survived <= earned'
    BY <1>1, <1>7, Zenon DEF Kept, Core, Survival
  <1>11. new.status \in Open => new.status = rec.status
    BY <1>7, Zenon DEF Open
  <1>12. rec.status = "quarantined" => new.status = "quarantined"
    BY <1>7, Zenon
  <1> QED
    BY <1>2, <1>4, <1>6, <1>7, <1>9, <1>10, <1>11, <1>12, CopyKeeps, Zenon

\* So does that of a run that completed.
LEMMA CountKeeps ==
    ASSUME Books, Books', Core, NEW c \in Callers, Count(c)
    PROVE  Core'
  <1> DEFINE new == [rec EXCEPT !.survived = @ + 1]
  <1>1. /\ running > 0 /\ running' = running - 1 /\ call[c] = Idle /\ Copy(c, "count", new) /\ earned' = earned + 1
        /\ rec' = rec /\ held' = held /\ torn' = torn /\ versions' = versions /\ attestations' = attestations /\ runs' = runs
    BY Zenon DEF Count, Begin
  <1>2. runs \in Nat /\ runs <= MaxRuns /\ running \in Nat /\ running <= runs /\ earned \in Nat
    BY ConstantTypes DEF Books
  <1>3. Within(rec, Len(versions), Len(attestations), runs - running) /\ rec \in Record
    BY Zenon DEF Core, Shape, Within
  <1>4. rec.survived \in Nat /\ rec.survived <= MinRuns + (runs - running)
    BY <1>3, RecordParts, Zenon DEF Within
  <1>5. rec.survived + 1 \in 0..(MinRuns + MaxRuns) /\ rec.survived + 1 <= MinRuns + (runs - (running - 1))
    BY <1>1, <1>2, <1>4, ConstantTypes
  <1>6. /\ new \in Record /\ new.survived = rec.survived + 1 /\ new.att = rec.att /\ new.artifact = rec.artifact
        /\ new.status = rec.status /\ new.version = rec.version
    BY <1>3, <1>5, Zenon DEF Record
  <1> HIDE DEF new
  <1>7. Within(new, Len(versions'), Len(attestations'), runs' - running')
    BY <1>1, <1>3, <1>5, <1>6, Zenon DEF Within
  <1>8. Grown
    BY <1>1, <1>2, LenTypes DEF Grown
  <1>9. ~torn' /\ rec.att # 0 => new.survived <= earned'
    BY <1>1, <1>2, <1>4, <1>6 DEF Core, Survival
  <1>10. "count" \in Ops /\ call[c].event = "none"
    BY <1>1, SMTT(20) DEF Ops, Idle
  <1> QED
    BY <1>1, <1>6, <1>7, <1>8, <1>9, <1>10, CopyKeeps, Zenon

\* And that of a new manifest, which closes the workload unless the artifact is the same.
LEMMA UpdateKeeps ==
    ASSUME Books, Books', Core, NEW c \in Callers,
           NEW artifact \in Artifacts, NEW edited \in BOOLEAN, NEW recert \in BOOLEAN, Update(c, artifact, edited, recert)
    PROVE  Core'
  <1> DEFINE v == rec.version + 1
             built == [New EXCEPT !.version = v, !.artifact = artifact, !.flag = recert,
                                  !.status = IF edited THEN rec.status ELSE "uncertified",
                                  !.att = IF edited THEN rec.att ELSE 0]
             new == Invalidate(built, artifact # rec.artifact)
  <1>1. /\ v <= MaxVersions /\ call[c] = Idle /\ Copy(c, "update", new)
        /\ rec' = rec /\ held' = held /\ torn' = torn /\ earned' = earned
        /\ attestations' = attestations /\ runs' = runs /\ running' = running
    BY Zenon DEF Update, Begin, history
  <1>2. versions' = [i \in 1..(IF v > Len(versions) THEN v ELSE Len(versions)) |->
                       IF i = v THEN [artifact |-> artifact, recert |-> recert] ELSE versions[i]]
    BY Zenon DEF Update
  <1>3. /\ Within(rec, Len(versions), Len(attestations), runs - running) /\ rec \in Record
        /\ rec.version \in Nat /\ rec.version <= Len(versions) /\ rec.version >= 1
        /\ rec.status \in Statuses /\ rec.att \in 0..MaxAttestations /\ rec.att <= Len(attestations)
    BY ConstantTypes DEF Core, Shape, Within, Record
  <1>4. Len(versions) <= Len(versions') /\ v <= Len(versions')
    <2>1. Len(versions) \in Nat
      BY DEF Books
    <2>2. PICK n \in Nat : n = (IF v > Len(versions) THEN v ELSE Len(versions))
      BY <1>3, <2>1
    <2>3. DOMAIN versions' = 1..n
      BY <1>2, <2>2, Zenon
    <2>4. Len(versions') = n
      BY <2>2, <2>3, LenTypes
    <2> QED
      BY <1>3, <2>1, <2>2, <2>4
  <1>5. New \in Record /\ New.survived = 0
    BY NewRecord, Zenon DEF New
  <1>6. /\ built \in Record /\ built.version = v /\ built.artifact = artifact /\ built.survived = 0
        /\ built.status = (IF edited THEN rec.status ELSE "uncertified")
        /\ built.att = (IF edited THEN rec.att ELSE 0)
    <2>1. /\ (IF edited THEN rec.status ELSE "uncertified") \in Statuses
          /\ (IF edited THEN rec.att ELSE 0) \in 0..MaxAttestations /\ v \in 1..MaxVersions
      BY <1>1, <1>3, ConstantTypes, SMTT(20) DEF Statuses
    <2> HIDE DEF New
    <2> QED
      BY <1>5, <2>1, Zenon DEF Record
  <1> HIDE DEF built
  <1>7. /\ new \in Record /\ new.version = v /\ new.artifact = artifact /\ new.survived = 0 /\ new.att = built.att
        /\ \/ new = built /\ (artifact = rec.artifact \/ built.status \notin Open)
           \/ new.status = "uncertified" /\ built.status \in Open
    BY <1>6, Zenon DEF Invalidate, Record, Statuses, Open
  <1> HIDE DEF new
  <1>8. Grown
    BY <1>1, <1>4, LenTypes DEF Grown
  <1>9. Within(new, Len(versions'), Len(attestations'), runs' - running')
    <2>1. runs - running \in Nat /\ Len(attestations) \in Nat
      BY ConstantTypes, Difference DEF Books
    <2>2. new.att <= Len(attestations)
      BY <1>3, <1>6, <1>7, <2>1
    <2> QED
      BY <1>1, <1>4, <1>7, <2>1, <2>2, ConstantTypes DEF Within
  <1>10. new.status \in Open => new.status = rec.status /\ new.att = rec.att /\ new.artifact = rec.artifact
    BY <1>6, <1>7, Zenon DEF Open
  <1>11. new.att \in {rec.att, 0}
    BY <1>6, <1>7, Zenon
  <1>12. new.survived <= earned'
    BY <1>1, <1>7, SMTT(20) DEF Books
  <1>13. "update" \in Ops /\ call[c].event = "none"
    BY <1>1 DEF Ops, Idle
  <1> QED
    BY <1>1, <1>8, <1>9, <1>10, <1>11, <1>12, <1>13, CopyKeeps, Zenon

---------------------------------------------------------------------------
\* The benchmark

\* The arrows of _TRANSITIONS
LEMMA Arrows ==
    /\ DOMAIN Transitions["uncertified"] = {"staging_pass"} /\ Transitions["uncertified"]["staging_pass"] = "provisional"
    /\ DOMAIN Transitions["quarantined"] = {"recover"} /\ Transitions["quarantined"]["recover"] = "provisional"
    /\ DOMAIN Transitions["provisional"] = {"production_pass", "recert_fail"}
    /\ Transitions["provisional"]["production_pass"] = "certified"
    /\ Transitions["provisional"]["recert_fail"] = "quarantined"
    /\ DOMAIN Transitions["certified"] = {"production_pass", "recert_fail", "drift"}
    /\ Transitions["certified"]["production_pass"] = "certified"
    /\ Transitions["certified"]["recert_fail"] = "quarantined"
  BY Zenon DEF Transitions

\* A benchmark that failed leaves no workload open, and only a production benchmark that
\* passed after enough runs certifies one.
LEMMA ResolveFacts ==
    ASSUME NEW status \in Statuses, NEW ctx \in Contexts, NEW survived \in Nat, NEW passed \in BOOLEAN,
           NEW r, r = Resolve(status, ctx, survived, passed), NEW e, e = EventFor(status, r)
    PROVE  /\ r \in Statuses
           /\ ~passed => r \notin Open
           /\ r # status =>
                 /\ e \in Events \ {"none", "defer"}
                 /\ e # "recert_fail" => passed
                 /\ e = "production_pass" => ctx = "production" /\ survived >= MinRuns
  <1>1. /\ Try("uncertified", "recert_fail") = "uncertified" /\ Try("quarantined", "recert_fail") = "quarantined"
        /\ Try("provisional", "recert_fail") = "quarantined" /\ Try("certified", "recert_fail") = "quarantined"
    BY Arrows, Zenon DEF Try
  <1>2. /\ Try("quarantined", "recover") = "provisional"
        /\ Try("uncertified", "staging_pass") = "provisional" /\ Try("provisional", "staging_pass") = "provisional"
        /\ Try("certified", "staging_pass") = "certified"
    BY Arrows, Zenon DEF Try
  <1>3. /\ Try("uncertified", "production_pass") = "uncertified"
        /\ Try("provisional", "production_pass") = "certified" /\ Try("certified", "production_pass") = "certified"
    BY Arrows, Zenon DEF Try
  <1>4. status \in {"uncertified", "provisional", "certified", "quarantined"} /\ ctx \in {"staging", "production"}
    BY Zenon DEF Statuses, Contexts
  <1>5. CASE ~passed
    <2>1. r = Try(status, "recert_fail")
      BY <1>5, Zenon DEF Resolve
    <2> QED
      BY <1>1, <1>4, <1>5, <2>1, Zenon DEF Statuses, Open, EventFor, Events
  <1>6. CASE passed /\ status = "quarantined"
    <2>1. r = Try(status, "recover")
      BY <1>6, Zenon DEF Resolve
    <2> QED
      BY <1>2, <1>4, <1>6, <2>1, Zenon DEF Statuses, Open, EventFor, Events
  <1>7. CASE passed /\ status # "quarantined" /\ ctx = "staging"
    <2>1. r = Try(status, "staging_pass")
      BY <1>7, Zenon DEF Resolve
    <2> QED
      BY <1>2, <1>4, <1>7, <2>1, Zenon DEF Statuses, Open, EventFor, Events
  <1>8. CASE passed /\ status # "quarantined" /\ ctx = "production"
    <2>1. r = IF survived < MinRuns THEN status ELSE Try(status, "production_pass")
      BY <1>8, Zenon DEF Resolve
    <2>2. CASE survived < MinRuns
      BY <1>8, <2>1, <2>2, Zenon DEF Statuses
    <2>3. CASE ~(survived < MinRuns)
      <3>1. survived >= MinRuns
        BY <2>3, ConstantTypes
      <3>2. r = Try(status, "production_pass")
        BY <2>1, <2>3, Zenon
      <3> QED
        BY <1>3, <1>4, <1>8, <3>1, <3>2, Zenon DEF Statuses, Open, EventFor, Events
    <2> QED
      BY <2>2, <2>3, Zenon
  <1> QED
    BY <1>4, <1>5, <1>6, <1>7, <1>8, Zenon

\* The benchmark's verdict keeps the invariant.
LEMMA EvaluateKeeps ==
    ASSUME Books, Books', Core, NEW c \in Callers, NEW passed \in BOOLEAN, Evaluate(c, passed)
    PROVE  Core'
  <1> DEFINE k == call[c]
             status == Resolve(rec.status, k.ctx, rec.survived, passed)
             id == Len(attestations) + 1
             ev == IF status # rec.status THEN EventFor(rec.status, status) ELSE "defer"
             a == [status |-> status, ctx |-> k.ctx, ran |-> k.ran, artifact |-> rec.artifact, passed |-> passed]
             applied == [k EXCEPT !.pc = "apply", !.read = rec, !.att = id, !.event = ev]
             gone == [After(c) EXCEPT !.att = IF k.op = "reinstate" /\ k.ctx = "production" THEN id ELSE 0]
             applies == status # rec.status \/ (k.ctx = "production" /\ status = "provisional")
  <1>1. /\ k.pc = "bench" /\ attestations' = Append(attestations, a)
        /\ call' = [call EXCEPT ![c] = IF applies THEN applied ELSE gone]
        /\ rec' = rec /\ versions' = versions /\ running' = running /\ runs' = runs
        /\ held' = held /\ earned' = earned /\ torn' = torn
    BY Zenon DEF Evaluate, history
  <1>2. rec \in Record /\ rec.status \in Statuses /\ rec.survived \in Nat /\ rec.att \in Nat /\ rec.att <= Len(attestations)
    BY RecordParts, Zenon DEF Core, Shape, Within
  <1>3. k \in CallType /\ k.ctx \in Contexts
    BY CallParts, Zenon DEF CallType
  <1>4. /\ ~passed => status \notin Open
        /\ status # rec.status =>
              /\ ev \in Events \ {"none", "defer"}
              /\ ev # "recert_fail" => passed
              /\ ev = "production_pass" => k.ctx = "production" /\ rec.survived >= MinRuns
        /\ status = rec.status => ev = "defer"
    BY <1>2, <1>3, ResolveFacts
  <1>5. /\ Len(attestations) \in Nat /\ Len(attestations') = id /\ attestations'[id] = a
        /\ \A i \in DOMAIN attestations : i \in DOMAIN attestations' /\ attestations'[i] = attestations[i]
        /\ id \in DOMAIN attestations'
    <2>1. attestations \in Seq(Attestation)
      BY Zenon DEF Books
    <2> HIDE DEF a
    <2> QED
      BY <1>1, <2>1
  <1>6. a.artifact = rec.artifact /\ a.passed = passed /\ a.ctx = k.ctx
    BY Zenon
  <1> HIDE DEF a, status, ev
  <1>7. Grown
    BY <1>1, <1>5, LenTypes DEF Grown
  <1>8. CASE applies
    <2>1. call' = [call EXCEPT ![c] = applied]
      BY <1>1, <1>8, Zenon
    <2>2. ev \in Events \ {"none"}
      BY <1>4, Zenon DEF Events
    <2>3. /\ applied \in CallType /\ applied.pc = "apply" /\ applied.read = rec /\ applied.att = id /\ applied.event = ev
          /\ applied.new = k.new
      <3>1. id \in Nat
        BY <1>5
      <3> HIDE DEF k, id
      <3> QED
        BY <1>2, <1>3, <2>2, <3>1, Zenon DEF CallType, Pcs
    <2> HIDE DEF applied
    <2>4. /\ Within(rec, Len(versions'), Len(attestations'), runs' - running')
          /\ Within(k.new, Len(versions'), Len(attestations'), runs' - running')
      BY <1>7, WithinGrows, Zenon DEF Core, Shape, Fits
    <2>5. Fits(applied, Len(versions'), Len(attestations'), runs' - running')
      BY <1>5, <2>3, <2>4 DEF Fits
    <2>6. Fitting(c, applied)
      BY <1>2, <1>5, <2>3, <2>5 DEF Fitting
    <2>7. Informed(applied)
      <3>1. ev # "recert_fail" => passed
        BY <1>4, <1>8, Zenon DEF Open
      <3>2. ev = "defer" => rec.status = "provisional"
        BY <1>4, <1>8, Zenon
      <3>3. ev = "production_pass" => k.ctx = "production"
        BY <1>4, Zenon
      <3> QED
        BY <1>5, <1>6, <2>2, <2>3, <3>1, <3>2, <3>3, Zenon DEF Informed
    <2>8. ASSUME ~torn' PROVE Faithful(applied)
      <3>1. rec.att # 0 => rec.survived <= earned
        BY <1>1, <2>8, Zenon DEF Core, Survival
      <3>2. ASSUME rec.att # 0, ev = "production_pass" PROVE earned' >= MinRuns
        <4>1. status # rec.status
          BY <1>4, <3>2, Zenon
        <4>2. rec.survived >= MinRuns /\ rec.survived <= earned /\ earned \in Nat
          BY <1>4, <3>1, <3>2, <4>1, Zenon DEF Books
        <4> QED
          BY <1>1, <1>2, <4>2, ConstantTypes
      <3> QED
        BY <2>3, <3>2, Zenon DEF Faithful
    <2>9. Moves(c, applied)
      BY <1>1, <1>7, <2>1, <2>6, <2>7, <2>8, Zenon DEF Moves
    <2> QED
      BY <2>9, MovesKeep, Zenon
  <1>9. CASE ~applies
    <2>1. call' = [call EXCEPT ![c] = gone]
      BY <1>1, <1>9, Zenon
    <2>2. Rests(After(c), Len(attestations))
      BY AfterShape, Zenon
    <2>3. PICK n \in 0..id : gone = [After(c) EXCEPT !.att = n]
      <3>1. (IF k.op = "reinstate" /\ k.ctx = "production" THEN id ELSE 0) \in 0..id
        BY <1>5
      <3> QED
        BY <3>1, Zenon
    <2> HIDE DEF gone, k
    <2>4. /\ gone \in CallType /\ gone.pc = After(c).pc /\ gone.event = "none" /\ gone.read = New /\ gone.new = New
          /\ gone.att = n /\ gone.ran = After(c).ran
      BY <2>2, <2>3 DEF Rests, CallType
    <2>5. Settled(c, gone)
      BY <1>5, <2>2, <2>4 DEF Settled, Rests
    <2> QED
      BY <1>1, <1>7, <2>1, <2>5, SettledKeeps, Zenon
  <1> QED
    BY <1>8, <1>9, Zenon

\* Where an event leads from the status the record has now
LEMMA TargetFacts ==
    ASSUME rec.status \in Statuses, NEW k, k.event \in Events, NEW status \in Target(k)
    PROVE  /\ status \in Statuses \ {"uncertified"}
           /\ status = "certified" => k.event = "production_pass"
           /\ status \in Open => k.event # "recert_fail"
           /\ k.event # "defer" => rec.status \in Open \/ status = "provisional"
           /\ k.event = "defer" => status = "provisional"
           /\ rec.status = "quarantined" => k.event \in {"recover", "defer"}
  <1>1. CASE k.event = "defer"
    BY <1>1, Zenon DEF Target, Statuses, Open
  <1>2. CASE k.event # "defer"
    <2>1. k.event \in DOMAIN Transitions[rec.status] /\ status = Transitions[rec.status][k.event]
      BY <1>2, Zenon DEF Target
    <2>2. k.event # "drift"
      BY Zenon DEF Events
    <2>3. rec.status \in {"uncertified", "provisional", "certified", "quarantined"}
      BY Zenon DEF Statuses
    <2> QED
      BY <1>2, <2>1, <2>2, <2>3, Arrows, Zenon DEF Statuses, Open
  <1> QED
    BY <1>1, <1>2, Zenon

\* The copy of apply_attestation keeps the invariant.
LEMMA ApplyKeeps ==
    ASSUME Books, Books', Core, NEW c \in Callers, Apply(c)
    PROVE  Core'
  <1> DEFINE k == call[c]
             new(status) == [rec EXCEPT !.status = status, !.att = k.att, !.survived = Survived(status),
                                        !.flag = @ /\ status \notin {"provisional", "certified"}]
  <1>1. /\ k.pc = "apply"
        /\ rec' = rec /\ versions' = versions /\ attestations' = attestations /\ running' = running /\ runs' = runs
        /\ held' = held /\ earned' = earned
        /\ torn' = (torn \/ (k.event = "defer" /\ rec.status # k.read.status)
                         \/ \E f \in {"version", "artifact", "att"} : rec[f] # k.read[f])
    BY Zenon DEF Apply
  <1>2. PICK status \in Target(k) : Copy(c, k.op, new(status))
    BY Zenon DEF Apply
  <1> DEFINE n == new(status)
             v == [k EXCEPT !.op = k.op, !.pc = "save", !.read = rec, !.new = n]
  <1>3. call' = [call EXCEPT ![c] = v]
    BY <1>2, Zenon DEF Copy
  <1>4. /\ rec \in Record /\ rec.status \in Statuses /\ rec.flag \in BOOLEAN /\ rec.survived \in Nat
        /\ rec.survived <= MinRuns + MaxRuns
        /\ Within(rec, Len(versions), Len(attestations), runs - running)
    BY RecordParts, Zenon DEF Core, Shape, Within
  <1>5. k \in CallType /\ k.event \in Events /\ k.op \in Ops
    BY CallParts, Zenon DEF CallType
  <1>6. /\ status \in Statuses \ {"uncertified"}
        /\ status = "certified" => k.event = "production_pass"
        /\ status \in Open => k.event # "recert_fail"
        /\ k.event # "defer" => rec.status \in Open \/ status = "provisional"
        /\ k.event = "defer" => status = "provisional"
        /\ rec.status = "quarantined" => k.event \in {"recover", "defer"}
    BY <1>4, <1>5, TargetFacts, SMTT(20)
  <1>7. /\ k.event # "none" /\ Applies(k) /\ k.att \in DOMAIN attestations /\ rec.att # k.att
        /\ attestations[k.att].artifact = k.read.artifact
        /\ k.event # "recert_fail" => attestations[k.att].passed
        /\ k.event = "production_pass" => attestations[k.att].ctx = "production"
        /\ k.event = "defer" => k.read.status = "provisional"
    BY <1>1, SMTT(20) DEF Core, Applying, Fresh, Applies
  <1>8. k.att \in 0..MaxAttestations /\ k.att <= Len(attestations)
    BY <1>7, ConstantTypes, SMTT(20) DEF Books
  <1>9. /\ Survived(status) \in Nat /\ Survived(status) <= rec.survived
        /\ status = "provisional" /\ rec.status # "provisional" => Survived(status) = 0
    BY <1>4 DEF Survived
  <1>10. /\ n \in Record /\ n.status = status /\ n.att = k.att /\ n.survived = Survived(status)
         /\ n.artifact = rec.artifact /\ n.version = rec.version
    <2>1. Survived(status) \in 0..(MinRuns + MaxRuns)
      BY <1>4, <1>9, ConstantTypes
    <2>2. (rec.flag /\ status \notin {"provisional", "certified"}) \in BOOLEAN
      BY Zenon
    <2>3. n = [rec EXCEPT !.status = status, !.att = k.att, !.survived = Survived(status),
                          !.flag = rec.flag /\ status \notin {"provisional", "certified"}]
      BY <1>4, Zenon DEF Record
    <2> HIDE DEF n
    <2> QED
      BY <1>4, <1>6, <1>8, <2>1, <2>2, <2>3, Zenon DEF Record
  <1> HIDE DEF n
  <1>11. v \in CallType /\ v.pc = "save" /\ v.read = rec /\ v.new = n /\ v.event = k.event /\ v.att = k.att
    <2> HIDE DEF k
    <2> QED
      BY <1>4, <1>5, <1>10, Zenon DEF CallType, Pcs
  <1> HIDE DEF v
  <1>12. Grown
    <2>1. torn => torn'
      BY <1>1, Zenon
    <2>2. Len(versions) <= Len(versions') /\ Len(attestations) <= Len(attestations') /\ earned <= earned'
          /\ runs - running <= runs' - running'
      BY <1>1, LenTypes
    <2> QED
      BY <1>1, <2>1, <2>2, Zenon DEF Grown
  <1>13. Within(n, Len(versions), Len(attestations), runs - running)
    <2>1. runs - running \in Nat
      BY LenTypes, SMTT(20)
    <2> QED
      BY <1>4, <1>8, <1>9, <1>10, <2>1, ConstantTypes DEF Within
  <1>14. Fits(v, Len(versions'), Len(attestations'), runs' - running')
    <2>1. /\ Within(rec, Len(versions'), Len(attestations'), runs' - running')
          /\ Within(n, Len(versions'), Len(attestations'), runs' - running')
      BY <1>4, <1>12, <1>13, WithinGrows, SMTT(20)
    <2> QED
      BY <1>1, <1>8, <1>11, <2>1, Zenon DEF Fits
  <1>15. Fitting(c, v)
    BY <1>7, <1>10, <1>11, <1>14, SMTT(20) DEF Fitting
  <1>16. ASSUME ~torn' PROVE Faithful(v)
    <2>1. /\ ~torn /\ (k.event = "defer" => rec.status = k.read.status)
          /\ rec["artifact"] = k.read["artifact"] /\ rec["att"] = k.read["att"]
      BY <1>1, <1>16, Zenon
    <2>2. rec.artifact = k.read.artifact /\ rec.att = k.read.att /\ Survival
      BY <2>1, SMTT(20) DEF Core
    <2>3. Advanced(v, attestations[k.att])
      BY <1>6, <1>7, <1>9, <1>10, <1>11, <2>1, <2>2, SMTT(20) DEF Advanced, Open, Statuses
    <2>4. ASSUME rec.att # 0
          PROVE  n.survived <= earned /\ (k.event = "production_pass" => earned >= MinRuns)
      <3>1. rec.survived <= earned /\ (k.event = "production_pass" => earned >= MinRuns)
        BY <1>7, <2>2, <2>4, Zenon DEF Survival
      <3> QED
        BY <1>4, <1>9, <1>10, <3>1, SMTT(20) DEF Books
    <2> QED
      BY <1>1, <1>7, <1>11, <2>3, <2>4, Zenon DEF Faithful
  <1>17. Moves(c, v)
    BY <1>1, <1>3, <1>11, <1>12, <1>15, <1>16, Zenon DEF Moves, Informed
  <1> QED
    BY <1>17, MovesKeep, Zenon

---------------------------------------------------------------------------
\* The steps

\* The initial states satisfy the invariant.
LEMMA InitIInv == Init => IInv
  <1> SUFFICES ASSUME Init PROVE IInv
    BY Zenon
  <1>1. PICK status \in {"uncertified", "provisional", "certified"} :
          /\ rec = IF status = "uncertified" THEN New
                   ELSE [New EXCEPT !.status = status, !.att = 1,
                                    !.survived = IF status = "certified" THEN MinRuns ELSE 0]
          /\ attestations = IF status = "uncertified" THEN <<>> ELSE <<Passed(status)>>
          /\ earned = IF status = "certified" THEN MinRuns ELSE 0
    BY Zenon DEF Init
  <1>2. /\ versions = <<[artifact |-> 1, recert |-> FALSE]>>
        /\ lapsed = {} /\ quarantines = <<>> /\ promotions = {} /\ running = 0
        /\ call = [c \in Callers |-> Idle] /\ calls = 0 /\ runs = 0
        /\ held = FALSE /\ torn = FALSE
    BY Zenon DEF Init
  <1>3. /\ versions \in Seq(Version) /\ Len(versions) = 1 /\ 1 \in 1..MaxVersions /\ 1 \in 1..MaxAttestations
    <2>1. MaxVersions \in Nat \ {0} /\ MaxAttestations \in Nat \ {0}
      BY CertificationAssumption, Zenon
    <2> QED
      BY <1>2, <2>1, ConstantTypes DEF Version
  <1>4. /\ attestations \in Seq(Attestation) /\ Len(attestations) = (IF status = "uncertified" THEN 0 ELSE 1)
        /\ status # "uncertified" => attestations[1] = Passed(status)
        /\ DOMAIN attestations = (IF status = "uncertified" THEN {} ELSE {1})
    <2>1. Passed(status) \in Attestation
      BY ConstantTypes, Zenon DEF Passed, Attestation, Statuses, Contexts
    <2> HIDE DEF Passed
    <2>2. CASE status = "uncertified"
      BY <1>1, <2>2
    <2>3. CASE status # "uncertified"
      BY <1>1, <2>1, <2>3
    <2> QED
      BY <2>2, <2>3, Zenon
  <1>5. earned \in Nat /\ (status = "certified" => earned = MinRuns)
    BY <1>1, ConstantTypes, Zenon
  <1>6. Books
    <2>1. quarantines \in Seq({"active", "reinstated"})
      BY <1>2
    <2>2. Len(attestations) <= MaxAttestations
      BY <1>3, <1>4, ConstantTypes
    <2>3. calls \in 0..MaxCalls /\ runs \in 0..MaxRuns /\ running \in 0..runs
      BY <1>2, ConstantTypes
    <2> QED
      BY <1>2, <1>3, <1>4, <1>5, <2>1, <2>2, <2>3, Zenon DEF Books
  <1>7. New \in Record /\ New.att = 0 /\ New.version = 1 /\ New.survived = 0 /\ New.artifact = 1 /\ New.status = "uncertified"
    BY <1>6, NewRecord, Zenon DEF New
  <1>8. /\ rec \in Record /\ rec.version = 1 /\ rec.artifact = 1 /\ rec.status = status
        /\ rec.att = (IF status = "uncertified" THEN 0 ELSE 1)
        /\ rec.survived = (IF status = "certified" THEN MinRuns ELSE 0)
    <2> HIDE DEF New
    <2>1. CASE status = "uncertified"
      BY <1>1, <1>7, <2>1, Zenon
    <2>2. CASE status # "uncertified"
      <3>1. PICK sv \in 0..(MinRuns + MaxRuns) : sv = (IF status = "certified" THEN MinRuns ELSE 0)
        BY ConstantTypes
      <3>2. rec = [New EXCEPT !.status = status, !.att = 1, !.survived = sv]
        BY <1>1, <2>2, <3>1, Zenon
      <3>3. status \in Statuses /\ 1 \in 0..MaxAttestations
        BY <1>3 DEF Statuses
      <3> QED
        BY <1>7, <2>2, <3>1, <3>2, <3>3, Zenon DEF Record
    <2> QED
      BY <2>1, <2>2, Zenon
  <1>9. Attested
    BY <1>2, <1>4 DEF Attested, Passed
  <1>10. \A c \in Callers : call[c] = Idle
    BY <1>2, Zenon
  <1>11. Idle.pc = "idle" /\ Idle.event = "none" /\ ~Applies(Idle) /\ Idle.read = New
    BY Zenon DEF Idle, Applies
  <1>12. Shape
    <2>1. Within(rec, Len(versions), Len(attestations), runs - running)
      BY <1>2, <1>3, <1>4, <1>8, ConstantTypes, SMTT(20) DEF Within
    <2>2. Rests(Idle, Len(attestations))
      <3>1. /\ "idle" \in Ops /\ "idle" \in Pcs \ {"apply", "save", "bench"} /\ "staging" \in Contexts
            /\ 0 \in Nat /\ 0 \in 0..Len(attestations) /\ Len(attestations) \in Nat
        BY <1>4 DEF Ops, Pcs, Contexts
      <3> QED
        BY <1>6, <3>1, RestShape, Zenon
    <2>3. Fits(Idle, Len(versions), Len(attestations), runs - running)
      BY <1>6, <2>2, NewRecord, Zenon DEF Rests, Fits
    <2> QED
      BY <1>2, <2>1, <2>3, Zenon DEF Shape
  <1>13. Fresh /\ Applying
    BY <1>10, <1>11, Zenon DEF Fresh, Applying
  <1>14. Saving
    BY <1>10, <1>11, Zenon DEF Saving
  <1>15. Bargain
    BY <1>2, <1>4, <1>5, <1>8, ConstantTypes DEF Bargain, Open, Passed
  <1>16. Survival
    BY <1>5, <1>7, <1>8, <1>10, <1>11, ConstantTypes DEF Survival
  <1> QED
    BY <1>6, <1>9, <1>12, <1>13, <1>14, <1>15, <1>16, Zenon DEF IInv, Core

\* The steps of one caller
CallerStep(c) ==
    \/ Ends(c) \/ Opens(c) \/ Copies(c) \/ Save(c) \/ Count(c)
    \/ \E a \in Artifacts, edited, recert \in BOOLEAN : Update(c, a, edited, recert)
    \/ (\E passed \in BOOLEAN : Evaluate(c, passed)) \/ Apply(c)

\* Every step is one of those, or of the workload's runs and of time.
LEMMA Steps ==
    ASSUME Next
    PROVE  AdmitRun \/ Lapse \/ \E c \in Callers : CallerStep(c)
  BY Zenon DEF Next, CallerStep, Ends, Opens, Copies

\* The stores stay well formed.
LEMMA BooksKept ==
    ASSUME IInv, Next
    PROVE  Books'
  <1>a. /\ Books /\ rec \in Record /\ rec.att \in 0..Len(attestations) /\ rec.version \in Nat /\ rec.version >= 1
        /\ rec.version <= Len(versions) /\ rec.artifact \in Artifacts /\ rec.status \in Statuses /\ rec.survived \in Nat
    BY RecordParts DEF IInv, Core, Shape, Within, Books
  <1>1. CASE AdmitRun
    <2>1. /\ UNCHANGED <<versions, attestations, lapsed, quarantines, calls, earned, held, torn>>
          /\ runs < MaxRuns /\ running' = running + 1 /\ runs' = runs + 1
      BY <1>1, Zenon DEF AdmitRun, history
    <2> QED
      BY <1>a, <2>1, ConstantTypes DEF Books
  <1>2. CASE Lapse
    <2>1. /\ UNCHANGED <<versions, attestations, quarantines, calls, runs, running, earned, held, torn>>
          /\ rec.att # 0 /\ lapsed' = lapsed \cup {rec.att}
      BY <1>2, Zenon DEF Lapse, history
    <2>2. lapsed' \subseteq DOMAIN attestations
      BY <1>a, <2>1 DEF Books
    <2> QED
      BY <1>a, <2>1, <2>2, Zenon DEF Books
  <1>3. ASSUME NEW c \in Callers, CallerStep(c)
        PROVE  Books'
    <2>0. calls' = calls \/ (calls < MaxCalls /\ calls' = calls + 1)
      BY <1>3, Zenon DEF CallerStep, Ends, Opens, Copies, Crash, ApplyRaises, Note, Decide, RegressionBlocks, Match,
           Certify, Quarantine, Reinstate, Recertify, RequestPromotion, Gate, Bench, Flag, Promote, ForceByReconciler,
           ForceQuarantine, Save, Count, Update, Evaluate, Apply, Call, Begin
    <2>1. calls' \in 0..MaxCalls
      BY <1>a, <2>0, ConstantTypes, SMTT(20) DEF Books
    <2>2. CASE Ends(c) \/ Opens(c) \/ Copies(c)
      <3>1. UNCHANGED <<versions, attestations, lapsed, runs, running, earned, held, torn>>
        BY <2>2, Zenon DEF Ends, Opens, Copies, Crash, ApplyRaises, Note, Decide, RegressionBlocks, Match,
             Certify, Quarantine, Reinstate, Recertify, RequestPromotion, Gate, Bench, Flag, Promote, ForceByReconciler,
             ForceQuarantine, history
      <3>2. \/ quarantines' = quarantines \/ quarantines' = Append(quarantines, "active")
            \/ \E i : quarantines' = [quarantines EXCEPT ![i] = "reinstated"]
        BY <2>2, Zenon DEF Ends, Opens, Copies, Crash, ApplyRaises, Note, Decide, RegressionBlocks, Match,
             Certify, Quarantine, Reinstate, Recertify, RequestPromotion, Gate, Bench, Flag, Promote, ForceByReconciler,
             ForceQuarantine
      <3>3. quarantines' \in Seq({"active", "reinstated"})
        <4>1. quarantines \in Seq({"active", "reinstated"})
          BY <1>a, Zenon DEF Books
        <4>2. CASE quarantines' = Append(quarantines, "active")
          BY <4>1, <4>2
        <4>3. ASSUME NEW i, quarantines' = [quarantines EXCEPT ![i] = "reinstated"]
              PROVE  quarantines' \in Seq({"active", "reinstated"})
          <5> DEFINE n == Len(quarantines)
          <5>1. n \in Nat /\ quarantines \in [1..n -> {"active", "reinstated"}]
            BY <4>1
          <5> HIDE DEF n
          <5>2. quarantines' \in [1..n -> {"active", "reinstated"}]
            BY <4>3, <5>1, Zenon
          <5> QED
            BY <5>1, <5>2
        <4> QED
          BY <3>2, <4>1, <4>2, <4>3, Zenon
      <3> QED
        BY <1>a, <2>1, <3>1, <3>3, Zenon DEF Books
    <2>3. CASE Save(c)
      <3>1. /\ UNCHANGED <<versions, attestations, lapsed, quarantines, runs, running>>
            /\ earned' \in {0, earned}
            /\ torn' = (torn \/ Stale(call[c]))
            /\ held' = (call[c].new.status = "quarantined" \/ (held /\ call[c].event # "recover" /\ call[c].op # "update"))
        BY <2>3, Zenon DEF Save
      <3>2. torn' \in BOOLEAN /\ held' \in BOOLEAN
        BY <3>1, Zenon
      <3> QED
        BY <1>a, <2>1, <3>1, <3>2 DEF Books
    <2>4. CASE Count(c)
      <3>1. /\ UNCHANGED <<versions, attestations, lapsed, quarantines, runs, held, torn>>
            /\ running > 0 /\ running' = running - 1 /\ earned' = earned + 1
        BY <2>4, Zenon DEF Count
      <3> QED
        BY <1>a, <2>1, <3>1, ConstantTypes DEF Books
    <2>5. ASSUME NEW a \in Artifacts, NEW edited \in BOOLEAN, NEW recert \in BOOLEAN, Update(c, a, edited, recert)
          PROVE  Books'
      <3> DEFINE v == rec.version + 1
                 n == IF v > Len(versions) THEN v ELSE Len(versions)
                 row == [artifact |-> a, recert |-> recert]
      <3>1. /\ UNCHANGED <<attestations, lapsed, quarantines, runs, running, earned, held, torn>> /\ v <= MaxVersions
            /\ versions' = [i \in 1..n |-> IF i = v THEN row ELSE versions[i]]
        BY <2>5, Zenon DEF Update, history
      <3>2. row \in Version /\ versions \in Seq(Version) /\ Len(versions) \in 1..MaxVersions /\ n \in 1..MaxVersions
            /\ n \in Nat
        BY <1>a, <3>1, ConstantTypes, SMTT(20) DEF Books, Version
      <3> HIDE DEF row
      <3>3. \A i \in 1..n : (IF i = v THEN row ELSE versions[i]) \in Version
        BY <1>a, <3>2
      <3> HIDE DEF n, v
      <3>4. versions' \in [1..n -> Version]
        BY <3>1, <3>3, Zenon
      <3>5. versions' \in Seq(Version) /\ Len(versions') = n
        BY <3>2, <3>4
      <3> QED
        BY <1>a, <2>1, <3>1, <3>2, <3>5, Zenon DEF Books
    <2>6. ASSUME NEW passed \in BOOLEAN, Evaluate(c, passed)
          PROVE  Books'
      <3> DEFINE k == call[c]
                 status == Resolve(rec.status, k.ctx, rec.survived, passed)
                 a == [status |-> status, ctx |-> k.ctx, ran |-> k.ran, artifact |-> rec.artifact, passed |-> passed]
      <3>1. /\ UNCHANGED <<versions, lapsed, quarantines, runs, running, earned, held, torn>>
            /\ k.pc = "bench" /\ Len(attestations) + 1 <= MaxAttestations /\ attestations' = Append(attestations, a)
        BY <2>6, Zenon DEF Evaluate, history
      <3>2. k.ctx \in Contexts
        BY CallParts, Zenon DEF CallType, IInv
      <3>3. k.ran \in Artifacts
        BY <3>1, Zenon DEF IInv, Core, Shape, Fits
      <3>4. status \in Statuses
        BY <1>a, <3>2, ResolveFacts
      <3> HIDE DEF status
      <3>5. a \in Attestation
        BY <1>a, <3>2, <3>3, <3>4, Zenon DEF Attestation
      <3> HIDE DEF a
      <3>6. /\ attestations' \in Seq(Attestation) /\ Len(attestations') = Len(attestations) + 1
            /\ DOMAIN attestations \subseteq DOMAIN attestations' /\ Len(attestations) \in Nat
        BY <1>a, <3>1, <3>5, SMTT(20) DEF Books
      <3> QED
        BY <1>a, <2>1, <3>1, <3>6, Zenon DEF Books
    <2>7. CASE Apply(c)
      <3>1. /\ UNCHANGED <<versions, attestations, lapsed, quarantines, runs, running, earned, held>>
            /\ torn' \in BOOLEAN
        BY <2>7, Zenon DEF Apply
      <3> QED
        BY <1>a, <2>1, <3>1, Zenon DEF Books
    <2> QED
      BY <1>3, <2>2, <2>3, <2>4, <2>5, <2>6, <2>7, Zenon DEF CallerStep
  <1> QED
    BY <1>1, <1>2, <1>3, Steps, Zenon

\* A promotion names a passed production attestation of its artifact.
LEMMA AttestedKept ==
    ASSUME IInv, Next, Books'
    PROVE  Attested'
  <1>a. Books /\ Attested /\ rec.status \in Statuses /\ rec.survived \in Nat
    BY RecordParts, Zenon DEF IInv, Core, Shape, Within
  <1>1. ASSUME UNCHANGED <<attestations, promotions>> PROVE Attested'
    BY <1>a, <1>1, Zenon DEF Attested
  <1>2. ASSUME NEW c \in Callers, NEW passed \in BOOLEAN, Evaluate(c, passed) PROVE Attested'
    <2> DEFINE k == call[c]
               status == Resolve(rec.status, k.ctx, rec.survived, passed)
               a == [status |-> status, ctx |-> k.ctx, ran |-> k.ran, artifact |-> rec.artifact, passed |-> passed]
    <2>1. attestations' = Append(attestations, a) /\ promotions' = promotions
      BY <1>2, Zenon DEF Evaluate
    <2>2. k.ctx \in Contexts
      BY CallParts, Zenon DEF CallType, IInv
    <2>3. a.status = "certified" => a.passed
      <3>1. ~passed => status \notin Open
        BY <1>a, <2>2, ResolveFacts
      <3> QED
        BY <3>1, Zenon DEF Open
    <2> HIDE DEF a
    <2>4. attestations \in Seq(Attestation)
      BY <1>a, Zenon DEF Books
    <2>5. /\ \A i \in DOMAIN attestations : i \in DOMAIN attestations' /\ attestations'[i] = attestations[i]
          /\ \A i \in DOMAIN attestations' : i \in DOMAIN attestations \/ attestations'[i] = a
      BY <2>1, <2>4
    <2> QED
      BY <1>a, <2>1, <2>3, <2>5 DEF Attested
  <1>3. ASSUME NEW c \in Callers, Match(c) PROVE Attested'
    <2> DEFINE artifact == versions[call[c].read.version].artifact
    <2>1. /\ attestations' = attestations
          /\ \A p \in promotions' : p \in promotions \/ p \in [artifact : {artifact}, att : Matches(artifact)]
      BY <1>3, Zenon DEF Match
    <2>2. artifact \in Artifacts
      <3>1. call[c].read.version \in 1..Len(versions) /\ versions \in Seq(Version)
        <4>1. Within(call[c].read, Len(versions), Len(attestations), runs - running)
          BY Zenon DEF IInv, Core, Shape, Fits
        <4>2. call[c].read.version \in 1..MaxVersions /\ call[c].read.version <= Len(versions)
          BY <4>1, RecordParts, Zenon DEF Within
        <4>3. versions \in Seq(Version) /\ MaxVersions \in Nat
          BY <1>a, ConstantTypes, Zenon DEF Books
        <4> QED
          BY <4>2, <4>3, SMTT(20)
      <3>2. versions[call[c].read.version] \in Version
        BY <3>1
      <3> QED
        BY <3>2, Zenon DEF Version
    <2> HIDE DEF artifact
    <2>3. ASSUME NEW p \in [artifact : {artifact}, att : Matches(artifact)]
          PROVE  /\ p.artifact \in Artifacts /\ p.att \in DOMAIN attestations
                 /\ attestations[p.att].artifact = p.artifact
                 /\ attestations[p.att].ctx = "production" /\ attestations[p.att].passed
      <3>1. p.artifact = artifact /\ p.att \in Matches(artifact)
        BY Zenon
      <3> QED
        BY <1>a, <2>2, <3>1, Zenon DEF Matches, Attested
    <2> QED
      BY <1>a, <2>1, <2>3, SMTT(20) DEF Attested
  <1>4. \/ UNCHANGED <<attestations, promotions>>
        \/ \E c \in Callers : Match(c) \/ \E passed \in BOOLEAN : Evaluate(c, passed)
    <2> DEFINE same == UNCHANGED <<attestations, promotions>>
    <2>1. AdmitRun \/ Lapse => same
      BY Zenon DEF AdmitRun, Lapse
    <2>2. ASSUME NEW c \in Callers
          PROVE  /\ Save(c) \/ Crash(c) \/ Count(c) \/ Flag(c) => same
                 /\ \A v \in 1..MaxVersions : Promote(c, v) => same
                 /\ \A a \in Artifacts, edited, recert \in BOOLEAN : Update(c, a, edited, recert) => same
                 /\ \A ctx \in Contexts : Certify(c, ctx) => same
      BY Zenon DEF Save, Crash, Count, Flag, Promote, Update, Certify
    <2>3. ASSUME NEW c \in Callers
          PROVE  /\ Bench(c) \/ Apply(c) \/ ApplyRaises(c) => same
                 /\ Quarantine(c) \/ ForceByReconciler(c) \/ ForceQuarantine(c) \/ Note(c) => same
                 /\ Reinstate(c) \/ Decide(c) \/ Recertify(c) \/ RequestPromotion(c) => same
                 /\ RegressionBlocks(c) \/ Gate(c) => same
      BY Zenon DEF Bench, Apply, ApplyRaises, Quarantine, ForceByReconciler, ForceQuarantine, Note, Reinstate,
           Decide, Recertify, RequestPromotion, RegressionBlocks, Gate
    <2> QED
      BY <2>1, <2>2, <2>3, Zenon DEF Next
  <1> QED
    BY <1>1, <1>2, <1>3, <1>4, Zenon

\* Every step keeps the invariant.
LEMMA StepIInv == IInv /\ [Next]_vars => IInv'
  <1> SUFFICES ASSUME IInv, [Next]_vars PROVE IInv'
    BY Zenon
  <1>1. CASE UNCHANGED vars
    BY <1>1, ZenonT(40) DEF vars, IInv, Books, Attested, Core, Shape, Fresh, Applying, Saving, Bargain, Survival
  <1>2. CASE Next
    <2>0. Books /\ Core /\ Books' /\ Attested'
      BY <1>2, BooksKept, AttestedKept, Zenon DEF IInv
    <2>1. CASE Lapse
      <3>1. UNCHANGED <<rec, versions, attestations, running, runs, call, earned, held, torn>>
        BY <2>1, Zenon DEF Lapse, history
      <3>2. Core'
        BY <2>0, <3>1, ZenonT(40) DEF Core, Shape, Fresh, Applying, Saving, Bargain, Survival
      <3> QED
        BY <2>0, <3>2, Zenon DEF IInv
    <2>2. CASE AdmitRun
      <3>1. /\ UNCHANGED <<rec, versions, attestations, call, earned, held, torn>>
            /\ running' = running + 1 /\ runs' = runs + 1
        BY <2>2, Zenon DEF AdmitRun, history
      <3>2. runs' - running' = runs - running
        BY <2>0, <3>1, ConstantTypes DEF Books
      <3>3. Shape'
        BY <2>0, <3>1, <3>2, Zenon DEF Core, Shape
      <3>4. Fresh' /\ Applying' /\ (~torn' => Saving' /\ Bargain' /\ Survival')
        BY <2>0, <3>1, Zenon DEF Core, Fresh, Applying, Saving, Bargain, Survival
      <3> QED
        BY <2>0, <3>3, <3>4, Zenon DEF IInv, Core
    <2>3. ASSUME NEW c \in Callers, CallerStep(c) PROVE IInv'
      BY <2>0, <2>3, EndsKeep, OpensKeep, CopiesKeep, SaveKeeps, CountKeeps, UpdateKeeps, EvaluateKeeps, ApplyKeeps, Zenon
      DEF CallerStep, IInv
    <2> QED
      BY <1>2, <2>1, <2>2, <2>3, Steps, Zenon
  <1> QED
    BY <1>1, <1>2, Zenon

\* The invariant of the registry's copies holds always: what the operations on a workload read,
\* change and save stays within the bounds above, however they overtake each other.
THEOREM Inductive == Spec => []IInv
  BY InitIInv, StepIInv, PTL DEF Spec

\* The record, the versions and the rows that refer to each other are well formed, for any number
\* of callers: promote, update and apply_attestation name versions and attestations that exist.
THEOREM TypeCorrect == Spec => []TypeOK
  <1>1. IInv => TypeOK
    <2> SUFFICES ASSUME IInv PROVE TypeOK
      BY Zenon
    <2>1. Books /\ Attested /\ Core
      BY Zenon DEF IInv
    <2>2. rec \in Record /\ rec.att <= Len(attestations) /\ rec.version <= Len(versions) /\ rec.version \in 1..MaxVersions
      BY <2>1, RecordParts, Zenon DEF Core, Shape, Within
    <2>3. rec.version \in DOMAIN versions
      BY <2>1, <2>2, ConstantTypes DEF Books
    <2>4. versions \in Seq([artifact : Artifacts, recert : BOOLEAN]) /\ Len(versions) <= MaxVersions
      BY <2>1 DEF Books, Version
    <2>5. /\ attestations \in Seq(Attestation) /\ lapsed \subseteq DOMAIN attestations
          /\ quarantines \in Seq({"active", "reinstated"})
          /\ running \in 0..runs /\ runs <= MaxRuns /\ calls <= MaxCalls
      BY <2>1 DEF Books
    <2>6. \A p \in promotions : p.artifact \in Artifacts /\ p.att \in DOMAIN attestations
      BY <2>1, Zenon DEF Attested
    <2>7. \A c \in Callers : call[c].new \in Record /\ call[c].read \in Record /\ call[c].att <= Len(attestations)
      BY <2>1, CallParts, Zenon
    <2> QED
      BY <2>2, <2>3, <2>4, <2>5, <2>6, <2>7, Zenon DEF TypeOK
  <1> QED
    BY <1>1, Inductive, PTL

\* From the save of a quarantine on the workload is admitted nowhere until a benchmark recovers it
\* or its manifest is replaced, whatever calls and runs are under way (RegistryService.quarantine,
\* check_admission), unless a save put back what another call had replaced.
THEOREM QuarantineKept == Spec => []QuarantineHolds
  <1>1. IInv => QuarantineHolds
    BY Zenon DEF IInv, Core, Bargain, QuarantineHolds, Admits
  <1> QED
    BY <1>1, Inductive, PTL

\* Production is open only to an artifact that passed a production benchmark, a certified workload
\* has completed min_production_runs_survived runs since it became provisional, and a promotion
\* names an attestation of what it promotes (check_admission, PromotionGate), with the exceptions
\* ProductionEarned names.
THEOREM EarnedProduction == Spec => []ProductionEarned
  <1>1. IInv => ProductionEarned
    <2> SUFFICES ASSUME IInv, ~Swapped PROVE ProductionEarned
      BY Zenon DEF ProductionEarned
    <2>1. Books /\ Attested /\ Core
      BY Zenon DEF IInv
    <2>2. \A i \in DOMAIN attestations : attestations[i].ran = attestations[i].artifact
      BY Zenon DEF Swapped
    <2>3. \A p \in promotions :
             attestations[p.att].ran = p.artifact /\ attestations[p.att].passed /\ attestations[p.att].ctx = "production"
      BY <2>1, <2>2, Zenon DEF Attested
    <2>4. ASSUME ~torn, Admits("production")
          PROVE  LET a == attestations[rec.att] IN
                 /\ a.ran = rec.artifact /\ a.passed /\ a.ctx = "production"
                 /\ rec.status = "certified" => earned >= MinRuns
      <3>1. Bargain
        BY <2>1, <2>4, Zenon DEF Core
      <3>2. \/ rec.status = "certified"
            \/ rec.status = "provisional" /\ attestations[rec.att].ctx \in {"production"}
        BY <2>4, Zenon DEF Admits, ValidAttestation
      <3>3. rec.att # 0 /\ attestations[rec.att].artifact = rec.artifact /\ attestations[rec.att].passed
        BY <3>1, <3>2, Zenon DEF Bargain, Open
      <3>4. rec.att \in DOMAIN attestations
        <4>1. rec.att \in Nat /\ rec.att <= Len(attestations)
          BY <2>1, RecordParts, Zenon DEF Core, Shape, Within
        <4> QED
          BY <2>1, <3>3, <4>1 DEF Books
      <3> QED
        BY <2>2, <3>1, <3>2, <3>3, <3>4, Zenon DEF Bargain
    <2> QED
      BY <2>3, <2>4, Zenon DEF ProductionEarned
  <1> QED
    BY <1>1, Inductive, PTL
===========================================================================
