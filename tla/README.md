# TLA+ models of the Linkerd trust-anchor rotator

This directory holds a TLA+ model of the operator in `src/`. It has these parts:

- the TLC runs that model-check the model on small instances;
- two abstract specifications, each with a refinement mapping that shows
  the controller implements it:
  - the persisted rollout cursor;
  - what a trust-anchor rotation promises the mesh;
- the TLAPS proofs, valid for every size of the system, of:
  - the type invariant;
  - the retry bound;
  - both refinements;
  - the cursor's soundness;
  - the cleanup guard;
  - the shape of the plan builder's List calls;
- `PROJECT.json`, which lists the components, runs, mutants, the mapping
  from definitions to source lines, findings, hazards and theorems.

## The system

A `LinkerdTrustRotation` resource is reconciled by one controller. One
reconcile runs at a time, and it is requeued every 10 s, or after 1 min when the
retry budget is spent. A reconcile is a straight sequence of API calls
(`internal/controller/linkerdtrustrotation_controller.go`, `Reconcile`):

1. Get the resource. `SetPhase(Idle)` and `SetProgress(true)` (lines 81-100).
2. The trigger switch (102-165). The trigger can be:
   - **secrets divergence**: `EnsureTrustSecrets` compares the current and
     previous trust-anchor secrets. It bootstraps an absent previous secret as
     a copy of the current one.
   - **ConfigMap**: `LoadAndInspectCMBundle` counts the anchors of the
     trust-roots bundle and sorts their SHA-256 fingerprints.
   - **both**: overlap requires both conditions.

   The trigger ends with `SetTrustInfo`.
3. If the trust state is overlap, one of three things happens:
   - a dry run writes the plan and returns;
   - if `retries.count > maxFailures`, the controller sets Failed and stops;
   - otherwise the rotation runs: Detecting, a delay, deletion of the
     identity-issuer secret, `RestartLinkerdControlPlane`,
     `RestartLinkerdDataPlane`, deletion of the previous anchor secret,
     optionally a hold, `EnsureTrustSecrets` and a second data-plane rollout,
     and finally `MarkSucceeded`. A control- or data-plane error leads to
     `MarkFailed`.

The data-plane rollout (`src/unnamed/part_001`, `RestartLinkerdDataPlane`)
works like this:
- It builds the plan (`SelectLinkerdDataPlane`) and hashes it.
- It resumes at the persisted cursor when the hash matches and
  `0 < next <= total` (line 311). Otherwise it writes a fresh cursor.
- It then restarts, waits for and checks one workload at a time:
  - after each success, `bumpProgress` writes the cursor, then the progress;
  - on any failure, `recordFailure` writes `retries.count + 1`;
  - at the end, it writes the phase, clears the retries and resets the cursor.

Every status write goes through `ManageStatus.Patch` (`src/unnamed/part_003`).
It diffs the mutated status against the current one, ignoring `LastUpdated`,
and sends a merge patch only when something changed.

The environment changes the cluster between any two calls:
- cert-manager issues a new anchor and reissues the deleted identity issuer;
- trust-manager rebuilds the bundle from the two anchor secrets;
- users change the set of selected workloads and flip `dryRun`.

## The modules

| Module | What it is |
|---|---|
| `TrustRotation.tla` | The controller, the status recorder, the control- and data-plane rollout and the environment. |
| `MC_TrustRotation.tla` | The constants the `.cfg` files give to TLC. |
| `TrustRotationProofs.tla` | The TLAPS proofs `TypeCorrect` and `RetryBounded`, and the lemmas they rest on. |
| `ResumeCursor.tla` | The abstract cursor: what a persisted `(planHash, next)` promises, and the proof `CursorSafe` of that promise. |
| `CursorProofs.tla` | The TLAPS proofs `CursorRefined` (`TrustRotation` implements `ResumeCursor`) and `CursorSoundProved`. |
| `CleanupProofs.tla` | The TLAPS proofs `CleanupInvariantHolds` and `CleanupSafe`: with the ConfigMap trigger and one rotation in flight, the previous secret is deleted only after the whole mesh trusts the current anchor. |
| `AnchorRotation.tla` | The abstract rotation: anchors, bundle, issuer, the selected workloads and what each part of the mesh trusts, with the few steps a rotation controller may take. |
| `AnchorProofs.tla` | The TLAPS proof `AnchorRefined`: under the same hypotheses as `CleanupSafe`, `TrustRotation` implements `AnchorRotation`. |
| `PlanBuilder.tla` | `SelectLinkerdDataPlane` and `planHash`: the selector scan, one List call per step, with the cluster changing in between. |
| `MC_PlanBuilder.tla` | A small cluster and selector for the plan-builder runs. |
| `PlanBuilderProofs.tla` | The TLAPS proof `ScanTypeCorrect`: the scan's indices and every List call stay within the selector. |

### State

| Variable | Code |
|---|---|
| `cur`, `prev` | The generation of the anchor in the current and previous trust-anchor secrets. `prev = 0` means the previous secret is absent. |
| `bundle` | The anchors in the trust-roots ConfigMap. |
| `issuer` | The identity issuer. 0 means it has been deleted. |
| `workloads` | What the List calls of `SelectLinkerdDataPlane` return. |
| `trusted[w]`, `cpTrusted` | The bundle the proxies of a workload, or of the control plane, loaded at their last restart. |
| `dryRun` | `spec.dryRun`. |
| `st` | The persisted status subresource: phase, reason, progress, trust info, retries, cursor (`planHash`, `next`, `lastDone`) and the dry-run output. |
| `pc`, `obs`, `queue`, `i`, `pass` | The locals of the running reconcile: the next call, the computed trust info, `result.Queue`, the loop index, and the first or the retrigger rollout. |
| `doneUnder` | A history variable, not program state. It records the trust record of the rotation under which each workload's rollout completed, since the cursor was last reset to 0. |

### Actions

Each API call is one action, so a failure, a crash or a cluster change can
fall between any two calls:
- `Reconcile`, `ResetProgress`, `DetectTrust`, `RecordTrust`, `DryRunPlan`,
  `StopMaxRetries`, `MarkDetecting` and `DeleteIssuer`;
- `CPStart` … `CPReady`, and `DPStart` … `DPResetCursor`;
- `MarkFailed`, `DeletePrevious`, `RetriggerEnsure` and `MarkSucceeded`.

`PatchOr` models `Patch`:
- when the new status equals the old one, nothing is sent and nothing can
  fail;
- otherwise the write either succeeds or fails, and a failure takes the
  reconcile to its error path.

A failed write may still have reached the server (a timeout after the
server applied the patch). `PatchOr` therefore lets a failed write leave
either the old or the new status. The in-memory copy that `Patch` has already
mutated (`part_003`, line 73) cannot be observed after a failure. Only
`recordFailure` and `MarkFailed` follow a failure, and they write other
fields.

`ReconcileAbort` models an error returned as is, a cancelled context or a
crash: the reconcile ends and only `st` and the cluster survive.

The end of a reconcile leads to one of two states:
- `Idle`: the controller is requeued.
- `Parked`: after a dry run the reconcile returns `ctrl.Result{}`, and the
  status-only update is dropped by `GenerationChangedPredicate`.

Two environment actions leave `Parked`:
- `EditDryRun`: a spec edit is a generation change, and it enqueues the
  resource. `queued` records that the edit arrived during a reconcile.
- `OperatorRestart`: the operator is restarted.

Abstractions:
- An anchor is its generation number. Fingerprints, PEM parsing and messages
  are left out.
- In `TrustRotation`, a plan is a name-ordered sequence of distinct
  workloads, and the plan hash is the plan itself: the 48-bit truncated SHA-1
  is taken to be injective. `PlanBuilder` models how the plan and the hash
  input are really built.
- The four workload kinds are one kind of item: a restart step, then a wait
  step, and either may fail.
- In the ConfigMap trigger, the sorted fingerprints put the two anchors in an
  order unrelated to their age, so the model lets either anchor be reported
  as current.

### The plan builder

`PlanBuilder.tla` models `SelectLinkerdDataPlane` (`src/unnamed/part_001`,
lines 68-237) and `planHash` (`src/internal/rollout/helpers.go`).

The actions:
- `BuildStart` reads the selector.
- `ScopeStart` enters a target scope, or skips it when its namespace list is
  empty.
- `ListNamespace` is one List call. It lists one kind in one namespace,
  filters it with that kind's matching rule and appends the work items in
  the order the List returned. Only StatefulSets are sorted by name.
- `BuildDone` returns the queue.

Between any two calls, the environment can do three things:
- `Annotate` changes a workload's pod-template annotation;
- `Touch` bumps a workload's `resourceVersion` (a volatile change);
- `EditSelector` edits the selector.

The constant `ListsSorted` chooses the List order:
- `TRUE`: List returns objects sorted by name;
- `FALSE`: List returns any order, which is what the manager's cache
  guarantees.

`HashToken` is the tuple that `planHash` writes for an item, and the hash is
the sequence of tokens.

The properties compare the queue with `SpecPlan`, the spec's own
deterministic scan (spec section 4.4), written independently of the code's
loop.

Where each definition comes from is listed, with line ranges, under `map` in
`PROJECT.json`.

## Properties

| Name | Kind | What it says |
|---|---|---|
| `TypeOK` | invariant | Types. The persisted cursor satisfies `0 <= next <= len(plan)`, and the loop body only runs on an index inside the plan. |
| `CursorSound` | invariant | Every workload that the persisted cursor counts as done has completed a rollout since the cursor was last reset. |
| `RetryBound` | invariant | `retries.count <= maxFailures + 1`. |
| `CleanupAfterFullRollout` | action property | When the previous anchor secret is deleted, the control plane and every workload of the plan have loaded a bundle holding the current anchor. |
| `ResumeWithinRotation` | action property | A resume skips only workloads that were rolled out by the rotation now in progress. |
| `CursorRefinement` | refinement | `ResumeCursor!CSpec` under the mapping `plan <- st.planHash`, `next <- st.next`, `done <- {w : doneUnder[w] # None}`. The cursor is only reset to a fresh plan, or moved over an item whose wait returned. |
| `ReconcileEnds` | liveness | Under weak fairness of the controller, every reconcile that starts returns. |
| `KeepsInspecting` | liveness | The controller is never parked for good, so a later rotation is always looked at. |
| `PlanFaithful` | action property (`PlanBuilder`) | When nothing that identifies a workload changed during the build, the returned queue is the spec's plan for the selector that was read. |
| `HashStable` | action property (`PlanBuilder`) | When no identity change happened between two builds, the hash is unchanged. Only the `list_order` run checks it: with sorted Lists the build is deterministic, so the property would only say that the hash leaves out the `resourceVersion`. |
| `HashDetectsChange` | action property (`PlanBuilder`) | Two consecutive plans that differ in some item's kind, namespace, name, strategy or bump, or in their order, have different hashes. |

## Runs

| Run | Configuration | Result |
|---|---|---|
| `rotation` | Both triggers, bootstrap, retrigger, 2 workloads, 2 anchors, `maxFailures = 1`. | Passes: about 1.87M distinct states in about 30 s. |
| `cm_trigger` | ConfigMap trigger only, 1 workload. | Passes: about 1.24M distinct states. |
| `cursor_refinement` | The constants of `rotation`; checks `CursorRefinement`. | Passes: about 1.87M distinct states. |
| `anchor_refinement` | The constants of `rotation`; checks `AnchorRefinement`. | Passes: about 1.87M distinct states in about 36 s. |
| `liveness` | `FairSpec`, 1 workload; checks `ReconcileEnds`. | Passes: about 73K distinct states. |
| `dry_run_parks` | `FairSpec`; checks `KeepsInspecting`. | Violates it. After a dry run, `Reconcile` returns `ctrl.Result{}` with no requeue (controller line 189). Its own status write is filtered out by `GenerationChangedPredicate`. The counterexample is a loop in which the controller stays parked for good: nothing reconciles the resource again until someone edits the spec or restarts the operator. The project README says the operator inspects the bundles continuously. |
| `plan_builder` | Sorted List results; 4 workloads of 3 kinds in 2 namespaces, 5 selectors, one volatile update and one identity change; checks `TypeOK` and `PlanFaithful`. | Passes: about 1.98M distinct states. |
| `list_order` | List in any order; checks `HashStable`. | Violates it. Only StatefulSets are sorted (line 203). A List that returns two Deployments in another order gives another hash for the same workloads, so the next reconcile discards the cursor and restarts the rollout. The spec says the scan is sorted by name. |
| `strategy_hash` | Checks `HashDetectsChange`. | Violates it. `planHash` writes no strategy for Deployments and DaemonSets (`helpers.go`, line 109). A strategy edit therefore keeps the hash, although the spec says the hash covers the strategy. Both kinds ignore the strategy when they restart, so the divergence costs nothing at run time. |
| `secrets_trigger` | Secrets trigger only. | Violates `CleanupAfterFullRollout`. The rotation is detected from the secrets before trust-manager has put the new anchor into the bundle. The mesh is restarted with the old bundle, and the previous secret is then deleted. The spec says the controller decides on the bundle entering overlap. |
| `second_rotation` | Both triggers, bootstrap, retrigger, 1 workload, 3 anchors. | Violates `CleanupAfterFullRollout`. See below. |
| `stale_cursor` | Both triggers, 3 anchors. | Violates `ResumeWithinRotation`. See below. |

The `stale_cursor` counterexample has three steps:
1. A rotation fails mid-rollout and leaves `next > 0`.
2. A newer anchor appears, and a new rotation starts with the same set of
   workloads.
3. The new rotation resumes at the old cursor. It skips workloads whose
   proxies were restarted under the older bundle, because the cursor is keyed
   by the plan hash alone.

The `second_rotation` counterexample:
1. Anchor 2 is issued, and trust-manager builds the bundle {1, 2}.
2. Anchor 3 is issued before the reconcile inspects the bundle.
3. The secrets differ (3 and 1) and the ConfigMap holds two anchors, so the
   both-triggers branch (controller line 155) reports overlap. Nothing checks that the bundle holds the current secret.
4. The control plane and the workload restart with {1, 2}, and the previous
   secret is deleted (line 244). No part of the mesh trusts anchor 3.

The spec says the controller runs until the cluster converges on the new
anchor, but it says nothing of an anchor that changes again during a rotation.
With two anchors this cannot happen, and `CleanupSafe` proves it (below).

The bounds are chosen as follows:
- Two workloads make a resume in the middle of a plan possible. One workload
  is enough for the ConfigMap trigger's questions and keeps that run small.
- Two anchors give one rotation. Three give a rotation that supersedes an
  abandoned one.
- `maxFailures = 1` reaches both the guard and the stop.
- For the plan builder:
  - two Deployments in one namespace are the fewest that make the List order
    matter;
  - one StatefulSet and one custom resource cover the other matching rules;
  - the five selectors cover:
    - a valid plan;
    - the same plan with another strategy;
    - a presence-only match with a vendor bump;
    - a custom-resource scope without group, version and kind, which fails;
    - a scope without namespaces, which fails;
  - one volatile update and one identity change suffice, because the hash
    properties of the violation runs compare two consecutive builds.

Every action and every branch of every action is taken in the passing runs.

Every property of a passing run is also checked against a mutant of the code
(`mutants` in `PROJECT.json`), and TLC finds each one violated:
- a cursor that advances by two;
- a cursor that advances before the wait;
- a retry guard that is one too lax;
- a loop that stops one item early;
- a plan builder that ignores an empty namespace list;
- annotation matching that accepts any value;
- a retrigger that reuses the cursor of the first pass.

### Fairness

The safety runs use `Spec` and assume no fairness. The liveness runs use
`FairSpec == Spec /\ WF_vars(Controller)`. Weak fairness of the controller
matches how controller-runtime behaves:
- a reconcile that has started runs on; every API call returns or fails, and
  the model has a disjunct for each outcome;
- a requeued request is taken again once its delay has passed.

The environment gets no fairness: anchors, bundles and users may act or not.

`ReconcileEnds` needs the bounds that exist in the code. They are the
finite queue and the single retrigger pass.

`KeepsInspecting` fails for the parked state alone. There, no controller
step is enabled, so fairness does not apply.

## Proofs

`TrustRotationProofs.tla`, `ResumeCursor.tla`, `CursorProofs.tla`,
`CleanupProofs.tla`, `AnchorProofs.tla` and `PlanBuilderProofs.tla` prove nine
theorems. The first five hold for every value of the constants, and so does
`ScanTypeCorrect`. `CleanupInvariantHolds`, `CleanupSafe` and `AnchorRefined`
hold for one rotation under the ConfigMap trigger. The only assumptions are the ones `TrustRotation.tla` states:
`NItems`, `MaxFailures` ∈ Nat, `MaxGen` ∈ Nat \ {0}, the triggers are Boolean,
`None` is not an item, an anchor or a sequence, and it is not a trust
record (`NoneTrustAssumption`).

- **`TypeCorrect`: `Spec => []TypeOK`.**
  - `TypeOK` is inductive. The proof splits it into:
    - the cluster part;
    - `StatusOK(st)`: the status is well typed and its cursor lies within its
      plan;
    - the locals.
  - One lemma per status mutator shows that it preserves `StatusOK`.
  - Each action then shows that `st'` is either `st` or the mutator's result,
    so the status record type is never expanded in the action steps.
- **`RetryBounded`: `Spec => []RetryBound`.**
  - `RetryBound` alone is not inductive. A failure recorded when the count is
    already `maxFailures + 1` would break it.
  - The strengthening `RetryCheck` adds that, past the max-retries guard, the
    count is at most `maxFailures`. It was checked with TLC before it was
    proved.
  - The proof shows that `RetryCheck` is preserved by every action, using
    `TypeOK` (from `TypeCorrect`) and the lemma that every setter except
    `SetRetry` keeps the count.

- **`CursorSafe` (`ResumeCursor`): `CSpec => []CursorCovered`.**
  - The abstract cursor has three actions:
    - `Start`: a new plan with `next = 0` and nothing done;
    - `Complete(w)`: the rollout of `w` completes;
    - `Advance`: move over the item at `next`, once it is done.
  - The inductive invariant `CursorInv` adds that `next` stays in
    `0..Len(plan)`.
- **`CursorRefined` (`CursorProofs`): `Spec => CursorRefinement`.**
  - Every step of `TrustRotation` maps to one step of `ResumeCursor`, or to a
    stutter:
    - `DPInitCursor` and `DPResetCursor` are `Start`. A failed write that
      still reset `next` to 0 is also a `Start`.
    - The success of `DPWait` is `Complete`.
    - `DPAdvanceCursor` (the cursor write in `bumpProgress`) is `Advance`.
    - Every other step keeps `planHash`, `next` and `doneUnder`.
  - This needs the invariant `CursorInvariant`. It was checked with TLC on
    `rotation.cfg` before it was proved. It says:
    - in the loop, the persisted cursor equals `(queue, i)`;
    - in `DPAdvanceProgress`, it equals `(queue, i + 1)`;
    - before the cursor write, the item has completed;
    - with no plan, nothing is done;
    - once trust info is recorded, it is never `None`, so a completed wait
      counts as done.
  - One lemma for each status setter shows that the setter keeps the cursor
    fields.
- **`CursorSoundProved`: `Spec => []CursorSound`.**
  - It follows from `CursorRefined` and `CursorSafe` by temporal logic, with
    `TypeOK` to bound `next` by the plan's length.
  - It is the property that the `rotation` run checks on one instance.
- **`CleanupSafe` (`CleanupProofs`): `Spec => CleanupAfterFullRollout`,
  assuming `OnConfigMapChange = TRUE` and `MaxGen = 2`.**
  - The theorem holds for every number of workloads and every `maxFailures`,
    with or without the secrets trigger, bootstrap and the retrigger.
  - Both hypotheses are needed, and a run shows each one failing:
    - without the ConfigMap trigger, `secrets_trigger` violates the property;
    - with a third anchor, `second_rotation` violates it.
    They are the configurations of `rotation` and `cm_trigger`.
  - The action property follows from the invariant `CleanupInvariant`, which
    TLC checked on the constants of both passing runs, with and without
    bootstrap and the retrigger. It says:
    - the bundle and the previous generation never exceed `cur`;
    - whenever the controller has recorded overlap, or is past detection,
      `cur` is the last generation, and it is in the bundle;
    - every workload whose wait completed since the cursor was last reset
      trusts `cur`, and `cur` is then the last generation;
    - from `CPProgressTrue` on, the control plane trusts `cur`;
    - in the data-plane loop, the items before `i` trust `cur` (and before
      `i + 1` once the wait returned);
    - after the loop, every item of the queue trusts `cur`.
  - Detection is the one step that needs arithmetic: a bundle of at least two
    generations out of `1..2` is `{1, 2}` and contains `cur = 2`. The lemma
    `TwoAnchors` proves this with cardinality facts.
  - A resumed loop starts at the persisted cursor and not at 0. Its items
    trust `cur` because `CursorSound` (proved above) says they completed, and
    `DoneTrusted` says that a completed item loaded the current bundle.
  - The invariant itself is the theorem `CleanupInvariantHolds`
    (`Spec => []CleanupInvariant`), proved from the lemmas `CleanupInit` and
    `CleanupStep`. `AnchorRefined` reuses it.
- **`AnchorRefined` (`AnchorProofs`): `Spec => AnchorRefinement`, under the
  same two hypotheses as `CleanupSafe`.**
  - `AnchorRotation` says what a rotation may do to the mesh. The controller
    may only reload a bundle into one part of the mesh, bootstrap an absent
    previous secret, delete the issuer once the bundle holds `cur`, and
    retire the previous anchor once every part of the mesh trusts `cur`.
  - The mapping keeps the cluster variables and maps the selected workloads
    to `ItemsOf(workloads)`. The steps map as follows:
    - `DetectTrust` and `RetriggerEnsure` are `Bootstrap`, or a stutter;
    - `DeleteIssuer` is `RevokeIssuer`;
    - `CPRestart` is `LoadControlPlane`, or a stutter when the restart failed;
    - `DPBump` is `Load` of the workload at the cursor, or a stutter;
    - `DeletePrevious` is `Retire`, or a stutter when there is no previous
      secret;
    - cert-manager, trust-manager and the workload changes are `Issue`,
      `Reissue`, `Publish` and `Join`;
    - every other step leaves the cluster unchanged (`KeptStutters`).
  - `Retire` requires that every *currently selected* workload trusts `cur`,
    which includes workloads created during the rollout. `CleanupInvariant`
    only speaks of the queue. The extra invariant `MembersTrusted` says that
    once the data-plane rollout has started, every selected workload is in
    the queue or trusts `cur`: a workload created later joins with the
    published bundle, which holds `cur`. TLC checked it with
    `CleanupInvariant` on the `rotation` constants and on a ConfigMap-only
    configuration before it was proved (`MembersInit`, `MembersStep`).
  - The `anchor_refinement` run checks the same property on one instance.
    With the secrets trigger alone it fails, as `CleanupSafe` does.
- **`ScanTypeCorrect` (`PlanBuilderProofs`): `Spec => []ScanTypeOK`.**
  - `ScanTypeOK` is `PlanBuilder`'s type invariant without the type of the
    queue built so far. It says that the scan index stays within the targets,
    and that every List call is for an allowed namespace of an existing scope.
    A scope with no namespaces ends the scan with an error before any List.
    It holds for every selector the API types allow and every bound.
  - The lemma `SelectorShape` unpacks the selector's record type. Its
    validation enums are needed to read a namespace list out of a scope.

The following stay with TLC only:
- `CleanupAfterFullRollout` beyond two generations is violated (see
  `second_rotation`), so there is nothing to prove.
- `ResumeWithinRotation` is violated (`stale_cursor`).
- `PlanBuilder`'s properties. `PlanFaithful` and `HashStable` compare the
  code's loop with a reference scan, and the last conjunct of `TypeOK` types
  the queue the scan builds. They use `SelectSeq`, `SortSeq` and recursive
  functions. The provers cannot unfold any of these, and a proof for every
  input would be induction over data.
- Liveness, and anything about `ENABLED`, which are beyond the prover.

## Not modelled

- Pod-level restart mechanics: annotation bumps, the StatefulSet
  delete-and-wait, and the readiness polls with their deadlines.
- The proxy-check job. It is one of the ways a wait step can fail.
- The 3 s poll after bootstrapping the previous secret.
- Events and log messages.
- The generated code and the manager setup, except for the event filter
  (`GenerationChangedPredicate`).
- The contents of workload objects other than their identity, their
  pod-template annotations and a volatile `resourceVersion`.
- Liveness concerns that `PROJECT.json` lists as hazards without a property.
  A bundle with three or more anchors blocks the ConfigMap trigger forever,
  but showing this needs the environment to keep the bundle still.

## Plan

Done:
- the controller, the status recorder, and the control- and data-plane
  rollout;
- the plan builder and `planHash`;
- ambiguous writes;
- the requeue and the parked state;
- an abstract cursor with a proved refinement;
- proofs of `TypeOK`, `RetryBound` and `CursorSound`;
- a proof of `CleanupAfterFullRollout` for one rotation under the ConfigMap
  trigger;
- an abstract rotation specification (`AnchorRotation`), with a refinement
  proved under the same hypotheses;
- a proof of the List-call shape of the plan builder.

Next:
1. Compose `PlanBuilder` with `TrustRotation`, so that the data-plane rollout
   gets its queue from the builder and not from the set of listed workloads.
2. Model the per-kind restart and wait mechanics, with deadlines.
