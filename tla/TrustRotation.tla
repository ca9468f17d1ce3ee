---------------------------- MODULE TrustRotation ----------------------------
(***************************************************************************)
(* The LinkerdTrustRotation reconciler (internal/controller), the rollout  *)
(* engine it drives (internal/rollout: control plane, data plane, cursor   *)
(* and retries) and the diff-gated status writer (internal/status).        *)
(*                                                                         *)
(* One reconcile runs at a time.  It is a sequence of API calls; every    *)
(* call is one step, so that the cluster may change, the process may       *)
(* crash and a call may fail between any two of them.  What survives a     *)
(* reconcile is the persisted status `st` and the cluster.                 *)
(*                                                                         *)
(* The cluster is the environment: cert-manager issues a new anchor into   *)
(* the current anchor secret, trust-manager rebuilds the trust-roots       *)
(* bundle from the current and previous anchor secrets, cert-manager       *)
(* reissues the identity issuer, users add or remove selected workloads    *)
(* and flip spec.dryRun.                                                   *)
(***************************************************************************)
EXTENDS Integers, Sequences, FiniteSets

CONSTANTS
  NItems,          \* candidate data-plane workloads, named 1..NItems in name order
  MaxGen,          \* bound on the trust anchors cert-manager issues
  MaxFailures,     \* spec.safety.maxFailures
  OnConfigMapChange,         \* spec.trigger.onConfigMapChange
  RequireSecretsDivergence,  \* spec.trigger.requireSecretsDivergence
  BootstrapPrevious,         \* spec.bootstrapPrevious
  RetriggerRollout,          \* spec.safety.retriggerRollout
  None             \* nil: no cursor, no work ref, no progress, no trust info

ASSUME NItemsAssumption == NItems \in Nat
ASSUME MaxGenAssumption == MaxGen \in Nat \ {0}
ASSUME MaxFailuresAssumption == MaxFailures \in Nat
ASSUME TriggerAssumption ==
  {OnConfigMapChange, RequireSecretsDivergence, BootstrapPrevious, RetriggerRollout} \subseteq BOOLEAN

Items == 1..NItems
Gens == 1..MaxGen

ASSUME NoneAssumption == None \notin Items \cup Gens \cup Seq(Items)

VARIABLES
  \* ---- cluster ----
  cur,        \* anchor held by the current trust-anchor secret
  prev,       \* anchor held by the previous trust-anchor secret, 0 = absent
  bundle,     \* anchors in the trust-roots ConfigMap (ca-bundle.crt)
  issuer,     \* anchor the identity issuer is signed by, 0 = deleted
  workloads,  \* the selected workloads, as the List calls return them
  trusted,    \* trusted[w]: the bundle the proxies of workload w loaded
  cpTrusted,  \* the bundle the control-plane proxies loaded
  dryRun,     \* spec.dryRun
  \* ---- persisted status subresource ----
  st,
  \* ---- the running reconcile (lost on return or crash) ----
  pc,         \* the next API call
  obs,        \* trust info computed by the trigger switch
  queue,      \* result.Queue of the current RestartLinkerdDataPlane
  i,          \* loop index into queue (0-based, as in the code)
  pass,       \* 1: first data-plane rollout, 2: the retrigger rollout
  queued,     \* an event queued the resource again while this reconcile ran
  \* ---- history, not program state ----
  doneUnder   \* doneUnder[w]: the trust record of the rotation whose rollout of w
              \* completed since the cursor was last written with next = 0, else None

clusterVars == <<cur, prev, bundle, issuer, workloads, trusted, cpTrusted, dryRun>>
localVars == <<pc, obs, queue, i, pass, queued>>
vars == <<cur, prev, bundle, issuer, workloads, trusted, cpTrusted, dryRun,
          st, pc, obs, queue, i, pass, queued, doneUnder>>

(***************************************************************************)
(* The List calls return workloads in name order without duplicates.      *)
(***************************************************************************)
Listings == {s \in UNION {[1..n -> Items] : n \in 0..NItems} :
               \A j, k \in DOMAIN s : j < k => s[j] < s[k]}

ItemsOf(s) == {s[k] : k \in DOMAIN s}

NotDone == [w \in Items |-> None]

Phases == {"Idle", "Detecting", "DryRun", "RollingCP", "RollingDP", "Succeeded", "Failed"}
Reasons == {"", "SecretsDiverged", "ReasonMaxRetriesExceeded", "ControlPlaneRestarting",
            "ControlPlaneReady", "DataPlaneBatchRestarting", "DataPlaneThresholdReached",
            "DryRunCompleted", "Completed", "RotationFailed"}
TrustInfo == [state : {"single", "overlap"}, cfp : Gens, pfp : Gens]

ASSUME NoneTrustAssumption == None \notin TrustInfo
Progress == [cp : BOOLEAN, pct : 0..100]

Status == [phase : Phases \cup {None}, reason : Reasons \cup {None},
           progress : Progress \cup {None}, trust : TrustInfo \cup {None},
           retries : Nat, lastFailed : Items \cup {None},
           planHash : Seq(Items) \cup {None}, next : Nat, lastDone : Items \cup {None},
           dryRunOut : Seq(Items) \cup {None}]

EmptyStatus == [phase |-> None, reason |-> None, progress |-> None, trust |-> None,
                retries |-> 0, lastFailed |-> None, planHash |-> None, next |-> 0,
                lastDone |-> None, dryRunOut |-> None]

Pcs == {"Idle", "Parked", "ResetProgress", "DetectTrust", "SetTrustInfo", "DryRun", "MaxRetries",
        "MarkDetecting", "DeleteIssuer", "CPStart", "CPProgressFalse", "CPRestart",
        "CPProgressTrue", "CPReady", "DPStart", "DPInitCursor", "DPStartProgress",
        "DPBump", "DPWait", "DPAdvanceCursor", "DPAdvanceProgress", "DPRecordFailure",
        "DPPhaseDone", "DPClearRetries", "DPResetCursor", "MarkFailed",
        "DeletePrevious", "RetriggerEnsure", "MarkSucceeded"}

\* The loop body steps of RestartLinkerdDataPlane, where queue[i+1] is the item.
ItemPcs == {"DPBump", "DPWait", "DPAdvanceCursor", "DPAdvanceProgress", "DPRecordFailure"}

(***************************************************************************)
(* calcPercent: round(100 * current / total) clamped to [0, 100], 0 when  *)
(* total <= 0.  math.Round on the float quotient is exact here: for       *)
(* non-negative integers it equals floor(x + 1/2).                        *)
(***************************************************************************)
CalcPercent(current, total) ==
  IF total <= 0 THEN 0
  ELSE LET c == IF current < 0 THEN 0 ELSE IF current > total THEN total ELSE current
           p == (200 * c + total) \div (2 * total)
       IN  IF p < 0 THEN 0 ELSE IF p > 100 THEN 100 ELSE p

(***************************************************************************)
(* Status mutators (status.ManageStatus).  Each returns the status after   *)
(* its mutate function; Patch writes it only when it differs.             *)
(***************************************************************************)
SetPhase(s, p, r) == [s EXCEPT !.phase = p, !.reason = r]
SetProgress(s, cp, pct) == [s EXCEPT !.progress = [cp |-> cp, pct |-> pct]]
SetTrustInfo(s, t) == [s EXCEPT !.trust = t]
SetPlanHash(s, ref, nxt, hash) == [s EXCEPT !.planHash = hash, !.next = nxt, !.lastDone = ref]
SetRetry(s, ref, count) == [s EXCEPT !.retries = count, !.lastFailed = ref]
SetDryRunOutput(s, out) ==
  [s EXCEPT !.phase = "DryRun", !.reason = "DryRunCompleted", !.dryRunOut = out, !.progress = None]
MarkFailedStatus(s) == SetPhase(s, "Failed", "RotationFailed")
MarkSucceededStatus(s) == SetPhase(s, "Succeeded", "Completed")

(***************************************************************************)
(* A status write inside the rollout engine.  On success the reconcile    *)
(* goes on at `to`.  The patch is sent only when the status changes, and  *)
(* then it may fail: the error leads to `onError`.  The error may also be *)
(* ambiguous: the client times out after the API server applied the       *)
(* merge patch, so the write lands and the error path runs all the same.  *)
(***************************************************************************)
PatchOr(new, to, onError) ==
  \/ /\ st' = new
     /\ pc' = to
  \/ /\ new # st
     /\ st' \in {st, new}
     /\ pc' = onError

Goto(p) == pc' = p

-----------------------------------------------------------------------------
(***************************************************************************)
(* Reconcile, controller lines 81-100: Get the resource, SetPhase(Idle),  *)
(* then SetProgress(true, nil, nil).                                       *)
(***************************************************************************)
Reconcile ==
  /\ pc = "Idle"
  /\ st' = SetPhase(st, "Idle", "")
  /\ Goto("ResetProgress")
  /\ queued' = FALSE
  /\ UNCHANGED <<clusterVars, obs, queue, i, pass, doneUnder>>

ResetProgress ==
  /\ pc = "ResetProgress"
  /\ st' = SetProgress(st, TRUE, CalcPercent(0, 0))
  /\ Goto("DetectTrust")
  /\ UNCHANGED <<clusterVars, obs, queue, i, pass, doneUnder, queued>>

(***************************************************************************)
(* EnsureTrustSecrets: the previous secret is created as a copy of the    *)
(* current one when it is absent and bootstrap is on; absent without      *)
(* bootstrap is an error (the step is disabled, the reconcile returns).   *)
(***************************************************************************)
EnsuredPrevious == IF prev = 0 THEN cur ELSE prev

CanEnsureTrustSecrets == prev # 0 \/ BootstrapPrevious

(***************************************************************************)
(* The trigger switch, controller lines 102-165.  Fingerprints stand for  *)
(* the anchors.  The ConfigMap case reports the larger of the two sorted   *)
(* SHA-256 fingerprints as current: an order unrelated to which anchor is *)
(* newer, so the model lets either anchor be Fps[1].  More than two       *)
(* anchors is an error (the step is disabled).                            *)
(***************************************************************************)
DetectTrust ==
  /\ pc = "DetectTrust"
  /\ \/ /\ RequireSecretsDivergence /\ ~OnConfigMapChange
        /\ CanEnsureTrustSecrets
        /\ prev' = EnsuredPrevious
        /\ obs' = [state |-> IF cur # prev' THEN "overlap" ELSE "single",
                   cfp |-> cur, pfp |-> prev']
     \/ /\ OnConfigMapChange /\ ~RequireSecretsDivergence
        /\ \E fp1, fp0 \in bundle :
             /\ bundle = {fp0, fp1}
             /\ obs' = [state |-> IF fp0 # fp1 THEN "overlap" ELSE "single",
                        cfp |-> fp1, pfp |-> fp0]
        /\ UNCHANGED prev
     \/ /\ RequireSecretsDivergence /\ OnConfigMapChange
        /\ CanEnsureTrustSecrets
        /\ bundle # {}
        /\ prev' = EnsuredPrevious
        /\ obs' = [state |-> IF cur # prev' /\ Cardinality(bundle) >= 2 THEN "overlap" ELSE "single",
                   cfp |-> cur, pfp |-> prev']
  /\ Goto("SetTrustInfo")
  /\ UNCHANGED <<cur, bundle, issuer, workloads, trusted, cpTrusted, dryRun, st, queue, i, pass, doneUnder, queued>>

\* Seeded fault: the guard admits one failure too many.
RetriesExceededLate == st.retries > MaxFailures + 1

\* The max-retries guard, controller line 192.
RetriesExceeded == st.retries > MaxFailures

(***************************************************************************)
(* SetTrustInfo, then the branch on the bundle state, controller lines    *)
(* 114-208: dry run, the max-retries stop, or the rotation.               *)
(***************************************************************************)
RecordTrust ==
  /\ pc = "SetTrustInfo"
  /\ st' = SetTrustInfo(st, obs)
  /\ Goto(IF obs.state # "overlap" THEN "Idle"
          ELSE IF dryRun THEN "DryRun"
          ELSE IF RetriesExceeded THEN "MaxRetries"
          ELSE "MarkDetecting")
  /\ UNCHANGED <<clusterVars, obs, queue, i, pass, doneUnder, queued>>

(***************************************************************************)
(* Dry run: SelectLinkerdDataPlane, then SetDryRunOutput, and return      *)
(* ctrl.Result{} with no error: nothing is requeued.  The controller is   *)
(* Parked until a new event: status updates are filtered out by           *)
(* GenerationChangedPredicate, so only a spec edit or an operator restart *)
(* counts.  When such an event arrived while the reconcile ran, the       *)
(* request is already queued again and the controller is Idle.            *)
(***************************************************************************)
DryRunPlan ==
  /\ pc = "DryRun"
  /\ st' = SetDryRunOutput(st, workloads)
  /\ Goto(IF queued THEN "Idle" ELSE "Parked")
  /\ UNCHANGED <<clusterVars, obs, queue, i, pass, doneUnder, queued>>

StopMaxRetries ==
  /\ pc = "MaxRetries"
  /\ st' = SetPhase(st, "Failed", "ReasonMaxRetriesExceeded")
  /\ Goto("Idle")
  /\ UNCHANGED <<clusterVars, obs, queue, i, pass, doneUnder, queued>>

MarkDetecting ==
  /\ pc = "MarkDetecting"
  /\ st' = SetPhase(st, "Detecting", "SecretsDiverged")
  /\ Goto("DeleteIssuer")
  /\ UNCHANGED <<clusterVars, obs, queue, i, pass, doneUnder, queued>>

\* After the before-rollout delay: DeleteSecrets(linkerd-identity-issuer).
DeleteIssuer ==
  /\ pc = "DeleteIssuer"
  /\ issuer' = 0
  /\ Goto("CPStart")
  /\ UNCHANGED <<cur, prev, bundle, workloads, trusted, cpTrusted, dryRun, st, obs, queue, i, pass, doneUnder, queued>>

-----------------------------------------------------------------------------
(***************************************************************************)
(* RestartLinkerdControlPlane.  Any error returns to the controller,      *)
(* which marks the resource Failed.                                        *)
(***************************************************************************)
CPStart ==
  /\ pc = "CPStart"
  /\ \/ PatchOr(SetPhase(st, "RollingCP", "ControlPlaneRestarting"), "CPProgressFalse", "MarkFailed")
     \/ /\ Goto("MarkFailed")      \* the List of control-plane deployments fails
        /\ UNCHANGED st
  /\ UNCHANGED <<clusterVars, obs, queue, i, pass, doneUnder, queued>>

CPProgressFalse ==
  /\ pc = "CPProgressFalse"
  /\ PatchOr(SetProgress(st, FALSE, CalcPercent(0, 0)), "CPRestart", "MarkFailed")
  /\ UNCHANGED <<clusterVars, obs, queue, i, pass, doneUnder, queued>>

(***************************************************************************)
(* Bump and wait for every control-plane deployment in turn.  When one    *)
(* fails, those before it have already rolled.                            *)
(***************************************************************************)
CPRestart ==
  /\ pc = "CPRestart"
  /\ \/ /\ cpTrusted' = bundle
        /\ Goto("CPProgressTrue")
     \/ /\ cpTrusted' \in {cpTrusted, bundle}
        /\ Goto("MarkFailed")
  /\ UNCHANGED <<cur, prev, bundle, issuer, workloads, trusted, dryRun, st, obs, queue, i, pass, doneUnder, queued>>

CPProgressTrue ==
  /\ pc = "CPProgressTrue"
  /\ PatchOr(SetProgress(st, TRUE, CalcPercent(0, 0)), "CPReady", "MarkFailed")
  /\ UNCHANGED <<clusterVars, obs, queue, i, pass, doneUnder, queued>>

CPReady ==
  /\ pc = "CPReady"
  /\ PatchOr(SetPhase(st, "RollingCP", "ControlPlaneReady"), "DPStart", "MarkFailed")
  /\ pass' = 1
  /\ UNCHANGED <<clusterVars, obs, queue, i, doneUnder, queued>>

-----------------------------------------------------------------------------
(***************************************************************************)
(* RestartLinkerdDataPlane.                                                *)
(***************************************************************************)
\* Seeded fault: the resume test forgets to compare the plan hash.
CanResumeAnyPlan(q) == 0 < st'.next /\ st'.next <= Len(q)

\* The resume test, rollout line 311; the plan hash is the plan itself.
CanResume(q) == st'.planHash = q /\ 0 < st'.next /\ st'.next <= Len(q)

(***************************************************************************)
(* SelectLinkerdDataPlane, SetPhase(RollingDP), then resume at the cursor *)
(* or initialise it.                                                       *)
(***************************************************************************)
DPStart ==
  /\ pc = "DPStart"
  /\ queue' = workloads
  /\ \/ /\ st' = SetPhase(st, "RollingDP", "DataPlaneBatchRestarting")
        /\ IF CanResume(queue')
             THEN i' = st'.next /\ Goto("DPStartProgress")
             ELSE i' = 0 /\ Goto("DPInitCursor")
     \/ /\ st' \in {st, SetPhase(st, "RollingDP", "DataPlaneBatchRestarting")}
        /\ i' = 0                     \* the List or the (ambiguous) patch fails
        /\ Goto("MarkFailed")
  /\ UNCHANGED <<clusterVars, obs, pass, doneUnder, queued>>

DPInitCursor ==
  /\ pc = "DPInitCursor"
  /\ PatchOr(SetPlanHash(st, None, 0, queue), "DPStartProgress", "MarkFailed")
  /\ doneUnder' = IF st'.next = 0 THEN NotDone ELSE doneUnder
  /\ UNCHANGED <<clusterVars, obs, queue, i, pass, queued>>

\* Seeded fault: the loop stops one item early.
LoopAtShort(k) == IF k < Len(queue) - 1 THEN "DPBump" ELSE "DPPhaseDone"

\* The step after the cursor moved to index k: the next item or the end.
LoopAt(k) == IF k < Len(queue) THEN "DPBump" ELSE "DPPhaseDone"

DPStartProgress ==
  /\ pc = "DPStartProgress"
  /\ PatchOr(SetProgress(st, TRUE, CalcPercent(i, Len(queue))), LoopAt(i), "MarkFailed")
  /\ UNCHANGED <<clusterVars, obs, queue, i, pass, doneUnder, queued>>

\* Seeded fault: the cursor moves on without waiting for the rollout.
DPBumpNoWait ==
  /\ pc = "DPBump"
  /\ \/ /\ trusted' = [trusted EXCEPT ![queue[i + 1]] = bundle]
        /\ Goto("DPAdvanceCursor")
     \/ /\ UNCHANGED trusted
        /\ Goto("DPRecordFailure")
  /\ UNCHANGED <<cur, prev, bundle, issuer, workloads, cpTrusted, dryRun, st, obs, queue, i, pass, doneUnder, queued>>

\* bumpRestartAnnotation / bumpAnnotationGeneric: the pods roll and load the bundle.
DPBump ==
  /\ pc = "DPBump"
  /\ \/ /\ trusted' = [trusted EXCEPT ![queue[i + 1]] = bundle]
        /\ Goto("DPWait")
     \/ /\ UNCHANGED trusted
        /\ Goto("DPRecordFailure")
  /\ UNCHANGED <<cur, prev, bundle, issuer, workloads, cpTrusted, dryRun, st, obs, queue, i, pass, doneUnder, queued>>

\* wait*RolledOut for the kind, then runProxyCheckIfEnabled.
DPWait ==
  /\ pc = "DPWait"
  /\ \/ /\ doneUnder' = [doneUnder EXCEPT ![queue[i + 1]] = st.trust]
        /\ Goto("DPAdvanceCursor")
     \/ /\ UNCHANGED doneUnder
        /\ Goto("DPRecordFailure")
  /\ UNCHANGED <<clusterVars, st, obs, queue, i, pass, queued>>

\* Seeded fault: the cursor is advanced by two.
DPAdvanceCursorSkip ==
  /\ pc = "DPAdvanceCursor"
  /\ PatchOr(SetPlanHash(st, queue[i + 1], i + 2, queue), "DPAdvanceProgress", "DPRecordFailure")
  /\ UNCHANGED <<clusterVars, obs, queue, i, pass, doneUnder, queued>>

\* bumpProgress, first half: SetPlanHash(last, processed, total, hash).
DPAdvanceCursor ==
  /\ pc = "DPAdvanceCursor"
  /\ PatchOr(SetPlanHash(st, queue[i + 1], i + 1, queue), "DPAdvanceProgress", "DPRecordFailure")
  /\ UNCHANGED <<clusterVars, obs, queue, i, pass, doneUnder, queued>>

\* bumpProgress, second half: SetProgress(true, processed, total).
DPAdvanceProgress ==
  /\ pc = "DPAdvanceProgress"
  /\ \/ /\ st' = SetProgress(st, TRUE, CalcPercent(i + 1, Len(queue)))
        /\ i' = i + 1
        /\ Goto(LoopAt(i + 1))
     \/ /\ SetProgress(st, TRUE, CalcPercent(i + 1, Len(queue))) # st
        /\ st' \in {st, SetProgress(st, TRUE, CalcPercent(i + 1, Len(queue)))}
        /\ UNCHANGED i
        /\ Goto("DPRecordFailure")
  /\ UNCHANGED <<clusterVars, obs, queue, pass, doneUnder, queued>>

(***************************************************************************)
(* recordFailure: SetRetry(item, count + 1) from the status in hand; the  *)
(* cause (or the patch error) goes back to the controller, which marks    *)
(* the resource Failed.                                                    *)
(***************************************************************************)
DPRecordFailure ==
  /\ pc = "DPRecordFailure"
  /\ \/ st' = SetRetry(st, queue[i + 1], st.retries + 1)
     \/ UNCHANGED st
  /\ Goto("MarkFailed")
  /\ UNCHANGED <<clusterVars, obs, queue, i, pass, doneUnder, queued>>

DPPhaseDone ==
  /\ pc = "DPPhaseDone"
  /\ PatchOr(SetPhase(st, "RollingDP", "DataPlaneThresholdReached"), "DPClearRetries", "MarkFailed")
  /\ UNCHANGED <<clusterVars, obs, queue, i, pass, doneUnder, queued>>

DPClearRetries ==
  /\ pc = "DPClearRetries"
  /\ PatchOr(SetRetry(st, None, 0), "DPResetCursor", "MarkFailed")
  /\ UNCHANGED <<clusterVars, obs, queue, i, pass, doneUnder, queued>>

DPResetCursor ==
  /\ pc = "DPResetCursor"
  /\ PatchOr(SetPlanHash(st, None, 0, queue),
             IF pass = 1 THEN "DeletePrevious" ELSE "MarkSucceeded", "MarkFailed")
  /\ doneUnder' = IF st'.next = 0 THEN NotDone ELSE doneUnder
  /\ UNCHANGED <<clusterVars, obs, queue, i, pass, queued>>

-----------------------------------------------------------------------------
\* MarkFailed(RotationFailed) after a control- or data-plane error.
MarkFailed ==
  /\ pc = "MarkFailed"
  /\ st' = MarkFailedStatus(st)
  /\ Goto("Idle")
  /\ UNCHANGED <<clusterVars, obs, queue, i, pass, doneUnder, queued>>

\* DeleteSecrets(previous trust anchor secret), controller line 244.
DeletePrevious ==
  /\ pc = "DeletePrevious"
  /\ prev' = 0
  /\ Goto(IF RetriggerRollout THEN "RetriggerEnsure" ELSE "MarkSucceeded")
  /\ UNCHANGED <<cur, bundle, issuer, workloads, trusted, cpTrusted, dryRun, st, obs, queue, i, pass, doneUnder, queued>>

\* Seeded fault: the retrigger rollout is not told it is the second one.
RetriggerEnsureSamePass ==
  /\ pc = "RetriggerEnsure"
  /\ CanEnsureTrustSecrets
  /\ prev' = EnsuredPrevious
  /\ Goto("DPStart")
  /\ UNCHANGED <<cur, bundle, issuer, workloads, trusted, cpTrusted, dryRun, st, obs, queue, i, pass, doneUnder, queued>>

\* After the hold: EnsureTrustSecrets, then the second data-plane rollout.
RetriggerEnsure ==
  /\ pc = "RetriggerEnsure"
  /\ CanEnsureTrustSecrets
  /\ prev' = EnsuredPrevious
  /\ pass' = 2
  /\ Goto("DPStart")
  /\ UNCHANGED <<cur, bundle, issuer, workloads, trusted, cpTrusted, dryRun, st, obs, queue, i, doneUnder, queued>>

MarkSucceeded ==
  /\ pc = "MarkSucceeded"
  /\ st' = MarkSucceededStatus(st)
  /\ Goto("Idle")
  /\ UNCHANGED <<clusterVars, obs, queue, i, pass, doneUnder, queued>>

(***************************************************************************)
(* The reconcile ends early: the process crashes or its context is        *)
(* cancelled, or a call whose error is returned as is fails.  Nothing     *)
(* more is written.                                                        *)
(***************************************************************************)
ReconcileAbort ==
  /\ pc \notin {"Idle", "Parked"}
  /\ Goto("Idle")
  /\ UNCHANGED <<clusterVars, st, obs, queue, i, pass, doneUnder, queued>>

-----------------------------------------------------------------------------
(***************************************************************************)
(* The environment.                                                        *)
(***************************************************************************)
\* cert-manager issues a new trust anchor into the current secret.
CertManagerRotate ==
  /\ cur < MaxGen
  /\ cur' = cur + 1
  /\ UNCHANGED <<prev, bundle, issuer, workloads, trusted, cpTrusted, dryRun, st, localVars, doneUnder>>

\* trust-manager rebuilds the bundle from the current and previous secrets.
TrustManagerSync ==
  /\ bundle' = {cur} \cup (IF prev = 0 THEN {} ELSE {prev})
  /\ bundle' # bundle
  /\ UNCHANGED <<cur, prev, issuer, workloads, trusted, cpTrusted, dryRun, st, localVars, doneUnder>>

\* cert-manager recreates the deleted identity issuer from the current anchor.
IssuerReissue ==
  /\ issuer = 0
  /\ issuer' = cur
  /\ UNCHANGED <<cur, prev, bundle, workloads, trusted, cpTrusted, dryRun, st, localVars, doneUnder>>

\* Users create, delete or (un)annotate workloads; new pods load the bundle.
WorkloadsChange ==
  /\ \E s \in Listings \ {workloads} :
       /\ workloads' = s
       /\ trusted' = [w \in Items |->
                        IF w \in ItemsOf(s) \ ItemsOf(workloads) THEN bundle ELSE trusted[w]]
  /\ UNCHANGED <<cur, prev, bundle, issuer, cpTrusted, dryRun, st, localVars, doneUnder>>

\* A user flips spec.dryRun; the generation changes and a reconcile is queued.
EditDryRun ==
  /\ dryRun' = ~dryRun
  /\ pc' = IF pc = "Parked" THEN "Idle" ELSE pc
  /\ queued' = TRUE
  /\ UNCHANGED <<cur, prev, bundle, issuer, workloads, trusted, cpTrusted, st, obs, queue, i, pass, doneUnder>>

\* The operator restarts: the manager's initial List queues every resource.
OperatorRestart ==
  /\ pc = "Parked"
  /\ Goto("Idle")
  /\ UNCHANGED <<clusterVars, st, obs, queue, i, pass, doneUnder, queued>>

-----------------------------------------------------------------------------
Init ==
  /\ cur = 1
  /\ prev \in {0, 1}
  /\ bundle = {1}
  /\ issuer = 1
  /\ workloads \in Listings
  /\ trusted = [w \in Items |-> {1}]
  /\ cpTrusted = {1}
  /\ dryRun = FALSE
  /\ st = EmptyStatus
  /\ pc = "Idle"
  /\ obs = None
  /\ queue = << >>
  /\ i = 0
  /\ pass = 1
  /\ queued = FALSE
  /\ doneUnder = NotDone

Controller ==
  \/ Reconcile \/ ResetProgress \/ DetectTrust \/ RecordTrust \/ DryRunPlan
  \/ StopMaxRetries \/ MarkDetecting \/ DeleteIssuer
  \/ CPStart \/ CPProgressFalse \/ CPRestart \/ CPProgressTrue \/ CPReady
  \/ DPStart \/ DPInitCursor \/ DPStartProgress \/ DPBump \/ DPWait
  \/ DPAdvanceCursor \/ DPAdvanceProgress \/ DPRecordFailure
  \/ DPPhaseDone \/ DPClearRetries \/ DPResetCursor
  \/ MarkFailed \/ DeletePrevious \/ RetriggerEnsure \/ MarkSucceeded
  \/ ReconcileAbort

Environment ==
  \/ CertManagerRotate \/ TrustManagerSync \/ IssuerReissue \/ WorkloadsChange \/ EditDryRun
  \/ OperatorRestart

Next == Controller \/ Environment

Spec == Init /\ [][Next]_vars

(***************************************************************************)
(* Fairness.  Every call of a running reconcile returns, with a result or *)
(* an error (each wait has a deadline, and a crash ends the reconcile),   *)
(* and a reconcile that returned with RequeueAfter or an error is run     *)
(* again by the work queue: the controller is never stuck while one of    *)
(* its steps is enabled.  The environment gets no fairness.               *)
(***************************************************************************)
FairSpec == Spec /\ WF_vars(Controller)

-----------------------------------------------------------------------------
(***************************************************************************)
(* Type invariant.  It includes the cursor bound of the status type,      *)
(* 0 <= cursor.next <= cursor.total, and that the loop body only runs on  *)
(* an index inside the plan.                                               *)
(***************************************************************************)
TypeOK ==
  /\ cur \in Gens
  /\ prev \in 0..MaxGen
  /\ bundle \in SUBSET Gens
  /\ issuer \in 0..MaxGen
  /\ workloads \in Listings
  /\ trusted \in [Items -> SUBSET Gens]
  /\ cpTrusted \in SUBSET Gens
  /\ dryRun \in BOOLEAN
  /\ st \in Status
  /\ st.next \in 0..(IF st.planHash = None THEN 0 ELSE Len(st.planHash))
  /\ pc \in Pcs
  /\ obs \in TrustInfo \cup {None}
  /\ queue \in Seq(Items)
  /\ i \in 0..Len(queue)
  /\ pc \in ItemPcs => i < Len(queue)
  /\ pass \in {1, 2}
  /\ queued \in BOOLEAN
  /\ doneUnder \in [Items -> TrustInfo \cup {None}]

(***************************************************************************)
(* Resume soundness (the cursor of RestartLinkerdDataPlane): every item   *)
(* the persisted cursor counts as done, planHash[1..next], has had its    *)
(* rollout complete since the cursor was last reset to 0.  It can break   *)
(* if a resume trusts a cursor of another plan, if the cursor moves       *)
(* before the wait, or if a partly failed status write leaks a cursor.    *)
(***************************************************************************)
CursorSound ==
  st.planHash # None => \A k \in 1..st.next : doneUnder[st.planHash[k]] # None

(***************************************************************************)
(* Resume stays within one rotation: when RestartLinkerdDataPlane resumes *)
(* at the persisted cursor, every workload it skips was rolled out by the *)
(* rotation now in progress (the same trust record), not by an earlier,   *)
(* abandoned one.  The cursor is keyed by the plan hash only.             *)
(***************************************************************************)
ResumeWithinRotation ==
  [][pc = "DPStart" /\ pc' = "DPStartProgress" =>
       \A k \in 1..st'.next : doneUnder[queue'[k]] = st.trust]_vars

(***************************************************************************)
(* Failure budget: the persisted retry count never exceeds                 *)
(* maxFailures + 1.  The controller refuses to roll out once the count is *)
(* above maxFailures, and recordFailure adds one and returns, so one      *)
(* reconcile adds at most one failure.                                     *)
(***************************************************************************)
RetryBound == st.retries <= MaxFailures + 1

(***************************************************************************)
(* Cleanup only after a full rollout: when the controller deletes the     *)
(* previous anchor secret (after which trust-manager drops the old anchor *)
(* and the reissued identity issuer is signed by the current one), the    *)
(* control plane and every workload of the data-plane plan have loaded a  *)
(* bundle that holds the current anchor.                                   *)
(***************************************************************************)
MeshTrustsCurrentAnchor ==
  /\ cur \in cpTrusted
  /\ \A k \in DOMAIN queue : cur \in trusted[queue[k]]

CleanupAfterFullRollout ==
  [][pc = "DeletePrevious" /\ prev' # prev => MeshTrustsCurrentAnchor]_vars

(***************************************************************************)
(* Every reconcile returns: once Reconcile has started, the controller    *)
(* reaches Idle or Parked again, whatever the cluster does meanwhile.     *)
(* It fails if a loop of the reconcile (the data-plane queue, the         *)
(* retrigger rollout) can run forever.                                    *)
(***************************************************************************)
ReconcileEnds == pc \notin {"Idle", "Parked"} ~> pc \in {"Idle", "Parked"}

(***************************************************************************)
(* The operator keeps inspecting the trust anchors ("continuously         *)
(* inspects the Linkerd trust bundles", README): a reconcile is always    *)
(* queued again, so the controller is never left Parked for good and a    *)
(* later anchor rotation is always looked at.  Failing calls do not break *)
(* this: an error is requeued.                                             *)
(***************************************************************************)
KeepsInspecting == []<>(pc # "Parked")


(***************************************************************************)
(* The rollout engine implements the cursor promise of ResumeCursor: the  *)
(* persisted planHash and next are its plan and index, and its done set  *)
(* is the set of workloads whose rollout completed since the cursor was   *)
(* last reset to 0.  Every write of the cursor (the fresh cursor, the     *)
(* advance in bumpProgress, the reset after the loop, and writes whose    *)
(* error hides that the server applied them) is a Start, an Advance or    *)
(* nothing; every wait that returns is a Complete.  It breaks if the      *)
(* cursor can move over an item whose wait has not returned, move by more *)
(* than one, or move on a plan other than the one it was written for.    *)
(***************************************************************************)
Cursor == INSTANCE ResumeCursor
            WITH plan <- st.planHash, next <- st.next,
                 done <- {w \in Items : doneUnder[w] # None}

CursorRefinement == Cursor!CSpec

(***************************************************************************)
(* The controller keeps the promise of AnchorRotation to the mesh: its    *)
(* only effects on the cluster are restarts that load the published       *)
(* bundle, the bootstrap of the previous secret, the deletion of the      *)
(* issuer once the bundle holds the current anchor, and the deletion of   *)
(* the previous secret once the control plane and every workload now      *)
(* selected, including those created during the rollout, trust the       *)
(* current anchor.  It breaks if DeletePrevious can run before the loop   *)
(* of RestartLinkerdDataPlane covered the selection, if the rotation      *)
(* starts on a bundle that lacks the current anchor, or if a resume skips *)
(* a workload that never loaded it.                                        *)
(***************************************************************************)
Anchor == INSTANCE AnchorRotation WITH members <- ItemsOf(workloads)

AnchorRefinement == Anchor!Spec

=============================================================================
