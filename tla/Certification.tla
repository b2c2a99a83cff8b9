--------------------------- MODULE Certification ---------------------------
(***************************************************************************)
(* The certification of one workload: the record every operation of the    *)
(* registry reads, changes in a copy and saves whole                       *)
(* (registry/service.py), the benchmark and its attestation                *)
(* (certification/), quarantine and reinstatement (drift/), the promotion  *)
(* gate, and the production runs that count towards the survival gate.     *)
(*                                                                         *)
(* Nothing locks the record between get and save_workload, and a benchmark *)
(* lasts as long as its corpus, so a call is a few steps: each reads or    *)
(* writes a store once.  The workload has a certification block, so the    *)
(* status in its manifest is that of the record.  A benchmark passes or    *)
(* fails, an attestation lapses when its time has come; signatures hold.   *)
(***************************************************************************)
EXTENDS Integers, Sequences

CONSTANTS
    Callers,          \* request threads, the drift monitor, the reconciler, finishing runs
    MinRuns,          \* production.min_production_runs_survived
    Artifacts,        \* artifact hashes
    MaxCalls, MaxVersions, MaxRuns, MaxAttestations, MaxQuarantines, MaxCrashes

ASSUME CertificationAssumption ==
    /\ 1 \in Artifacts /\ Artifacts \subseteq Nat \ {0}
    /\ {MinRuns, MaxCalls, MaxRuns, MaxQuarantines, MaxCrashes} \subseteq Nat
    /\ {MaxVersions, MaxAttestations} \subseteq Nat \ {0}

VARIABLES
    rec,              \* the WorkloadRecord
    versions,         \* WorkloadVersion rows: artifact, re_certification_required
    attestations,     \* append-only
    lapsed,           \* attestations past their expires_at
    quarantines,      \* QuarantineRecords, by status
    promotions,       \* PromotionRecords that admit
    running,          \* production runs in flight
    call,             \* by caller: where it is
    calls, runs, crashes, \* so far
    held,             \* history: a quarantine was saved, no recovery or manifest since
    earned,           \* history: production runs completed since the workload became provisional
    torn              \* history: a save put back what another call had replaced

vars == <<rec, versions, attestations, lapsed, quarantines, promotions, running, call, calls, runs, crashes,
          held, earned, torn>>
history == <<held, earned, torn>>

Statuses == {"uncertified", "provisional", "certified", "quarantined"}
Contexts == {"staging", "production"}
Record == [status : Statuses, flag : BOOLEAN, survived : 0..(MinRuns + MaxRuns), version : 1..MaxVersions,
           artifact : Artifacts, att : 0..MaxAttestations]
Attestation == [status : Statuses, ctx : Contexts, ran : Artifacts, artifact : Artifacts, passed : BOOLEAN]

New == [status |-> "uncertified", flag |-> FALSE, survived |-> 0, version |-> 1, artifact |-> 1, att |-> 0]
Idle == [op |-> "idle", pc |-> "idle", ctx |-> "staging", read |-> New, new |-> New, ran |-> 0,
         event |-> "none", att |-> 0, item |-> 0]

Passed(status) == [status |-> status, ctx |-> "production", ran |-> 1, artifact |-> 1, passed |-> TRUE]

\* The workload has just been registered, or has come as far as production.
Init ==
    /\ \E status \in {"uncertified", "provisional", "certified"} :
          /\ rec = IF status = "uncertified" THEN New
                   ELSE [New EXCEPT !.status = status, !.att = 1,
                                    !.survived = IF status = "certified" THEN MinRuns ELSE 0]
          /\ attestations = IF status = "uncertified" THEN <<>> ELSE <<Passed(status)>>
          /\ earned = IF status = "certified" THEN MinRuns ELSE 0
    /\ versions = <<[artifact |-> 1, recert |-> FALSE]>>
    /\ lapsed = {} /\ quarantines = <<>> /\ promotions = {} /\ running = 0
    /\ call = [c \in Callers |-> Idle] /\ calls = 0 /\ runs = 0 /\ crashes = 0
    /\ held = FALSE /\ torn = FALSE

---------------------------------------------------------------------------
\* check_admission

\* _has_valid_attestation
ValidAttestation(ctxs) == rec.att # 0 /\ rec.att \notin lapsed /\ attestations[rec.att].ctx \in ctxs

Admits(ctx) ==
    IF ctx = "staging" THEN rec.status \in {"provisional", "certified"}
    ELSE /\ ~rec.flag
         /\ \/ rec.status = "certified" /\ ValidAttestation(Contexts)
            \/ rec.status = "provisional" /\ ValidAttestation({"production"})

---------------------------------------------------------------------------
\* The record: a copy is made from what is read, and saved whole.

\* A call begins.
Call(c, op, pc, ctx, item) ==
    /\ call[c] = Idle /\ calls < MaxCalls /\ calls' = calls + 1
    /\ call' = [call EXCEPT ![c] = [Idle EXCEPT !.op = op, !.pc = pc, !.ctx = ctx, !.item = item]]

\* get and model_copy
Copy(c, op, new) == call' = [call EXCEPT ![c] = [@ EXCEPT !.op = op, !.pc = "save", !.read = rec, !.new = new]]

Begin(c, op, new) == call[c] = Idle /\ calls < MaxCalls /\ calls' = calls + 1 /\ Copy(c, op, new)

\* Where a call goes on once its part is done.
After(c) ==
    LET k == call[c]
        at(pc, ctx) == [Idle EXCEPT !.op = k.op, !.pc = pc, !.ctx = ctx, !.item = k.item,
                                    !.att = IF pc = "decide" THEN k.att ELSE 0]
    IN  CASE k.op = "quarantine" -> at("note", k.ctx)
          [] k.op \in {"reinstate", "recertify"} /\ k.ctx = "staging" -> at("begin", "production")
          [] k.op = "reinstate" /\ k.ctx = "production" -> at("decide", k.ctx)
          [] k.op = "recertify" /\ k.ctx = "production" -> at("gate", k.ctx)
          [] OTHER -> Idle

Stale(k) == [rec EXCEPT !.survived = 0] # [k.read EXCEPT !.survived = 0]

\* save_workload
Save(c) ==
    LET k == call[c] IN
    /\ k.pc = "save"
    /\ rec' = k.new
    /\ call' = [call EXCEPT ![c] = After(c)]
    /\ torn' = (torn \/ Stale(k))
    /\ held' = (k.new.status = "quarantined" \/ (held /\ k.event # "recover" /\ k.op # "update"))
    /\ earned' = IF k.new.status = "provisional" /\ rec.status # "provisional" THEN 0 ELSE earned
    /\ UNCHANGED <<versions, attestations, lapsed, quarantines, promotions, running, calls, runs, crashes>>

\* The process dies, or the client's thread does.
Crash(c) ==
    /\ call[c] # Idle /\ crashes < MaxCrashes /\ crashes' = crashes + 1
    /\ call' = [call EXCEPT ![c] = Idle]
    /\ UNCHANGED <<rec, versions, attestations, lapsed, quarantines, promotions, running, calls, runs, history>>

\* A production run is admitted; quarantine does not cancel it, the service has no canceller.
AdmitRun ==
    /\ Admits("production") /\ runs < MaxRuns
    /\ running' = running + 1 /\ runs' = runs + 1
    /\ UNCHANGED <<rec, versions, attestations, lapsed, quarantines, promotions, call, calls, crashes, history>>

\* It completes: increment_production_runs.
Count(c) ==
    /\ running > 0 /\ running' = running - 1
    /\ Begin(c, "count", [rec EXCEPT !.survived = @ + 1])
    /\ earned' = earned + 1
    /\ UNCHANGED <<rec, versions, attestations, lapsed, quarantines, promotions, runs, crashes, held, torn>>

\* request_re_certification
Flag(c) ==
    /\ Begin(c, "flag", [rec EXCEPT !.flag = TRUE])
    /\ UNCHANGED <<rec, versions, attestations, lapsed, quarantines, promotions, running, runs, crashes, history>>

\* Mutation of Promote: the version is not looked up.
PromoteUnknown(c, v) ==
    /\ v \in DOMAIN versions => ~(versions[v].recert /\ rec.flag)
    /\ Begin(c, "promote", [rec EXCEPT !.flag = FALSE, !.version = v])
    /\ UNCHANGED <<rec, versions, attestations, lapsed, quarantines, promotions, running, runs, crashes, history>>

\* promote: only the number of the version changes, the manifest stays.
Promote(c, v) ==
    /\ v \in DOMAIN versions /\ ~(versions[v].recert /\ rec.flag)
    /\ Begin(c, "promote", [rec EXCEPT !.flag = FALSE, !.version = v])
    /\ UNCHANGED <<rec, versions, attestations, lapsed, quarantines, promotions, running, runs, crashes, history>>

\* Mutation of Invalidate: a changed artifact keeps its status.
InvalidateNever(new, changed) == new

\* _artifact_changed, _invalidate_for_production
Invalidate(new, changed) ==
    IF changed /\ new.status \in {"certified", "provisional"}
    THEN [new EXCEPT !.status = "uncertified", !.flag = TRUE] ELSE new

\* update: the manifest is written anew, or is the registered one edited; a version of that
\* number is replaced.
Update(c, artifact, edited, recert) ==
    LET v == rec.version + 1
        built == [New EXCEPT !.version = v, !.artifact = artifact, !.flag = recert,
                             !.status = IF edited THEN rec.status ELSE "uncertified",
                             !.att = IF edited THEN rec.att ELSE 0]
    IN  /\ v <= MaxVersions
        /\ Begin(c, "update", Invalidate(built, artifact # rec.artifact))
        /\ versions' = [i \in 1..(IF v > Len(versions) THEN v ELSE Len(versions)) |->
                          IF i = v THEN [artifact |-> artifact, recert |-> recert] ELSE versions[i]]
        /\ UNCHANGED <<rec, attestations, lapsed, quarantines, promotions, running, runs, crashes, history>>

---------------------------------------------------------------------------
\* The benchmark and its attestation

\* _TRANSITIONS
Transitions ==
    [uncertified |-> [staging_pass |-> "provisional"],
     provisional |-> [production_pass |-> "certified", recert_fail |-> "quarantined"],
     certified   |-> [production_pass |-> "certified", recert_fail |-> "quarantined", drift |-> "quarantined"],
     quarantined |-> [recover |-> "provisional"]]

\* _try_transition
Try(status, event) == IF event \in DOMAIN Transitions[status] THEN Transitions[status][event] ELSE status

\* _resolve_status
Resolve(status, ctx, survived, passed) ==
    CASE ~passed                                                    -> Try(status, "recert_fail")
      [] passed /\ status = "quarantined"                           -> Try(status, "recover")
      [] passed /\ status # "quarantined" /\ ctx = "staging"        -> Try(status, "staging_pass")
      [] passed /\ status # "quarantined" /\ ctx = "production"     ->
            IF survived < MinRuns THEN status ELSE Try(status, "production_pass")

\* _event_for
EventFor(status, resolved) ==
    CASE resolved = "provisional" -> IF status = "quarantined" THEN "recover" ELSE "staging_pass"
      [] resolved = "certified"   -> "production_pass"
      [] resolved = "quarantined" -> "recert_fail"

\* CertificationCoordinator.certify, from a request: the benchmark runs the manifest of the
\* record as it is now.
Certify(c, ctx) ==
    /\ call[c] = Idle /\ calls < MaxCalls /\ calls' = calls + 1
    /\ call' = [call EXCEPT ![c] = [Idle EXCEPT !.op = "certify", !.pc = "bench", !.ctx = ctx, !.ran = rec.artifact]]
    /\ UNCHANGED <<rec, versions, attestations, lapsed, quarantines, promotions, running, runs, crashes, history>>

\* certify again, from reinstate or recertify_and_promote
Bench(c) ==
    /\ call[c].pc = "begin"
    /\ call' = [call EXCEPT ![c].pc = "bench", ![c].ran = rec.artifact]
    /\ UNCHANGED <<rec, versions, attestations, lapsed, quarantines, promotions, running, calls, runs, crashes, history>>

\* certify_with_result: the record is read again, the attestation names its artifact, and is
\* applied when the status changes or the survival gate defers.
Evaluate(c, passed) ==
    LET k == call[c]
        status == Resolve(rec.status, k.ctx, rec.survived, passed)
        id == Len(attestations) + 1
        applied == [k EXCEPT !.pc = "apply", !.read = rec, !.att = id,
                             !.event = IF status # rec.status THEN EventFor(rec.status, status) ELSE "defer"]
    IN  /\ k.pc = "bench" /\ id <= MaxAttestations
        /\ attestations' = Append(attestations, [status |-> status, ctx |-> k.ctx, ran |-> k.ran,
                                                 artifact |-> rec.artifact, passed |-> passed])
        /\ call' = [call EXCEPT ![c] =
              IF status # rec.status \/ (k.ctx = "production" /\ status = "provisional")
              THEN applied
              ELSE [After(c) EXCEPT !.att = IF k.op = "reinstate" /\ k.ctx = "production" THEN id ELSE 0]]
        /\ UNCHANGED <<rec, versions, lapsed, quarantines, promotions, running, calls, runs, crashes, history>>

\* Mutation of Target: the status resolved before is taken.
TargetResolved(k) == {attestations[k.att].status}

\* The status to apply: that of the event from where the record is now, which raises when
\* there is none, or the deferred one.
Target(k) ==
    IF k.event = "defer" THEN {"provisional"}
    ELSE {Transitions[rec.status][e] : e \in {k.event} \cap DOMAIN Transitions[rec.status]}

\* _survival_after_transition
Survived(status) ==
    IF status # rec.status /\ status \in {"provisional", "quarantined"} THEN 0 ELSE rec.survived

\* apply_attestation up to its save
Apply(c) ==
    LET k == call[c] IN
    /\ k.pc = "apply"
    /\ \E status \in Target(k) :
          Copy(c, k.op, [rec EXCEPT !.status = status, !.att = k.att, !.survived = Survived(status),
                                    !.flag = @ /\ status \notin {"provisional", "certified"}])
    /\ torn' = (torn \/ (k.event = "defer" /\ rec.status # k.read.status)
                     \/ \E f \in {"version", "artifact", "att"} : rec[f] # k.read[f])
    /\ UNCHANGED <<rec, versions, attestations, lapsed, quarantines, promotions, running, calls, runs, crashes, held, earned>>

\* advance_status raises out of the whole call.
ApplyRaises(c) ==
    /\ call[c].pc = "apply" /\ Target(call[c]) = {}
    /\ call' = [call EXCEPT ![c] = Idle]
    /\ UNCHANGED <<rec, versions, attestations, lapsed, quarantines, promotions, running, calls, runs, crashes, history>>

\* expires_at passes.
Lapse ==
    /\ rec.att # 0 /\ rec.att \notin lapsed
    /\ lapsed' = lapsed \cup {rec.att}
    /\ UNCHANGED <<rec, versions, attestations, quarantines, promotions, running, call, calls, runs, crashes, history>>

---------------------------------------------------------------------------
\* Quarantine, reinstatement, promotion

Active == {i \in DOMAIN quarantines : quarantines[i] = "active"}

\* QuarantineService.quarantine, by drift, health, defence or an operator; the reconciler
\* forces the status without a record.
Quarantine(c) ==
    /\ ~(rec.status = "quarantined" /\ Active # {})
    /\ Call(c, "quarantine", "force", "staging", 0)
    /\ UNCHANGED <<rec, versions, attestations, lapsed, quarantines, promotions, running, runs, crashes, history>>

ForceByReconciler(c) ==
    /\ Begin(c, "force", [rec EXCEPT !.status = "quarantined"])
    /\ UNCHANGED <<rec, versions, attestations, lapsed, quarantines, promotions, running, runs, crashes, history>>

\* RegistryService.quarantine
ForceQuarantine(c) ==
    /\ call[c].pc = "force"
    /\ Copy(c, call[c].op, [rec EXCEPT !.status = "quarantined"])
    /\ UNCHANGED <<rec, versions, attestations, lapsed, quarantines, promotions, running, calls, runs, crashes, history>>

\* add_quarantine
Note(c) ==
    /\ call[c].pc = "note" /\ Len(quarantines) < MaxQuarantines
    /\ quarantines' = Append(quarantines, "active")
    /\ call' = [call EXCEPT ![c] = Idle]
    /\ UNCHANGED <<rec, versions, attestations, lapsed, promotions, running, calls, runs, crashes, history>>

\* reinstate takes the last active quarantine, and certifies twice.
Reinstate(c) ==
    /\ \E i \in Active : (\A j \in Active : j <= i) /\ Call(c, "reinstate", "begin", "staging", i)
    /\ UNCHANGED <<rec, versions, attestations, lapsed, quarantines, promotions, running, runs, crashes, history>>

\* The quarantine is lifted when the fresh certification and admission agree.
Decide(c) ==
    LET lifts == attestations[call[c].att].status \in {"certified", "provisional"} /\ Admits("production") IN
    /\ call[c].pc = "decide"
    /\ quarantines' = IF lifts THEN [quarantines EXCEPT ![call[c].item] = "reinstated"] ELSE quarantines
    /\ call' = [call EXCEPT ![c] = Idle]
    /\ UNCHANGED <<rec, versions, attestations, lapsed, promotions, running, calls, runs, crashes, history>>

\* recertify_and_promote: an uncertified workload is certified for staging first.
Recertify(c) ==
    /\ Call(c, "recertify", "begin", IF rec.status = "uncertified" THEN "staging" ELSE "production", 0)
    /\ UNCHANGED <<rec, versions, attestations, lapsed, quarantines, promotions, running, runs, crashes, history>>

\* The report of the regressions since the baseline blocks the promotion.
RegressionBlocks(c) ==
    /\ call[c].pc = "gate" /\ call[c].op = "recertify"
    /\ call' = [call EXCEPT ![c] = Idle]
    /\ UNCHANGED <<rec, versions, attestations, lapsed, quarantines, promotions, running, calls, runs, crashes, history>>

\* PromotionGate.promote reads the record and the version...
RequestPromotion(c) ==
    /\ call[c] = Idle /\ calls < MaxCalls /\ calls' = calls + 1
    /\ call' = [call EXCEPT ![c] = [Idle EXCEPT !.op = "promotion", !.pc = "match", !.read = rec]]
    /\ UNCHANGED <<rec, versions, attestations, lapsed, quarantines, promotions, running, runs, crashes, history>>

Gate(c) ==
    /\ call[c].pc = "gate"
    /\ call' = [call EXCEPT ![c] = [Idle EXCEPT !.op = "promotion", !.pc = "match", !.read = rec]]
    /\ UNCHANGED <<rec, versions, attestations, lapsed, quarantines, promotions, running, calls, runs, crashes, history>>

Matches(artifact) ==
    {i \in DOMAIN attestations :
       /\ attestations[i].status = "certified" /\ attestations[i].ctx = "production"
       /\ attestations[i].artifact = artifact}

\* ... and _find_valid_attestation decides.
Match(c) ==
    LET read == call[c].read
        found == Matches(versions[read.version].artifact)
        admitted == /\ read.version = rec.version /\ read.status = "certified"
                    /\ ~rec.flag /\ Admits("production") /\ found # {}
    IN  /\ call[c].pc = "match"
        /\ promotions' = promotions \cup
              {p \in [artifact : {versions[read.version].artifact}, att : found] :
                 admitted /\ \A j \in found : j <= p.att}
        /\ call' = [call EXCEPT ![c] = Idle]
        /\ UNCHANGED <<rec, versions, attestations, lapsed, quarantines, running, calls, runs, crashes, history>>

Next ==
    \/ AdmitRun \/ Lapse
    \/ \E c \in Callers :
          \/ Save(c) \/ Crash(c) \/ Count(c) \/ Flag(c)
          \/ \E v \in 1..MaxVersions : Promote(c, v)
          \/ \E a \in Artifacts, edited, recert \in BOOLEAN : Update(c, a, edited, recert)
          \/ \E ctx \in Contexts : Certify(c, ctx)
          \/ Bench(c) \/ (\E passed \in BOOLEAN : Evaluate(c, passed)) \/ Apply(c) \/ ApplyRaises(c)
          \/ Quarantine(c) \/ ForceByReconciler(c) \/ ForceQuarantine(c) \/ Note(c)
          \/ Reinstate(c) \/ Decide(c) \/ Recertify(c) \/ RequestPromotion(c)
          \/ RegressionBlocks(c) \/ Gate(c) \/ Match(c)

Spec == Init /\ [][Next]_vars

---------------------------------------------------------------------------
\* The record, the versions and the rows that refer to each other are well formed.
TypeOK ==
    /\ rec \in Record /\ rec.att <= Len(attestations) /\ rec.version \in DOMAIN versions
    /\ versions \in Seq([artifact : Artifacts, recert : BOOLEAN]) /\ Len(versions) <= MaxVersions
    /\ attestations \in Seq(Attestation) /\ lapsed \subseteq DOMAIN attestations
    /\ quarantines \in Seq({"active", "reinstated"})
    /\ \A p \in promotions : p.artifact \in Artifacts /\ p.att \in DOMAIN attestations
    /\ running \in 0..runs /\ runs <= MaxRuns /\ calls <= MaxCalls
    /\ \A c \in Callers : call[c].new \in Record /\ call[c].read \in Record /\ call[c].att <= Len(attestations)

\* RegistryService.quarantine "block[s] staging/production admission": from the save of a
\* quarantine on, whatever benchmarks, runs and requests were under way, the workload is
\* admitted nowhere until a benchmark recovers it or its manifest is replaced.  Except
\* after a call saved a record it had read before another one's save, or applied a deferred
\* status to a workload that had left it.
QuarantineHolds == held /\ ~torn => ~Admits("staging") /\ ~Admits("production")

\* A manifest was replaced while its benchmark ran.
Swapped == \E i \in DOMAIN attestations : attestations[i].ran # attestations[i].artifact

\* check_admission and PromotionGate: production is open only to an artifact that itself
\* passed a production benchmark, and a certified workload completed as many production
\* runs as the survival gate asks since it became provisional.  A promotion names an
\* attestation of the artifact it promotes.  Except when a manifest was replaced during its
\* benchmark, or, for the record, calls overtook each other as above.
ProductionEarned ==
    ~Swapped =>
      /\ \A p \in promotions :
            attestations[p.att].ran = p.artifact /\ attestations[p.att].passed
            /\ attestations[p.att].ctx = "production"
      /\ ~torn /\ Admits("production") =>
            LET a == attestations[rec.att] IN
            /\ a.ran = rec.artifact /\ a.passed /\ a.ctx = "production"
            /\ rec.status = "certified" => earned >= MinRuns
===========================================================================
