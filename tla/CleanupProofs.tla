------------------------------ MODULE CleanupProofs ------------------------------
(***************************************************************************)
(* The previous anchor secret is deleted only after the whole mesh trusts  *)
(* the current anchor (CleanupAfterFullRollout), for every number of       *)
(* workloads and allowed failures, every crash, failed or ambiguous        *)
(* status write and every change of the selected workloads, provided that  *)
(* the ConfigMap trigger is on and that one anchor rotation happens:       *)
(* cert-manager issues a single new anchor (MaxGen = 2).  The run          *)
(* second_rotation shows that a further anchor issued during the rotation *)
(* breaks the property, and secrets_trigger that the secrets trigger alone *)
(* does.                                                                    *)
(***************************************************************************)
EXTENDS CursorProofs, FiniteSetTheorems

\* The steps after the control-plane restart has loaded the bundle.
AfterCP == {"CPProgressTrue", "CPReady", "DPStart", "DPInitCursor", "DPStartProgress",
            "DPBump", "DPWait", "DPAdvanceCursor", "DPAdvanceProgress", "DPRecordFailure",
            "DPPhaseDone", "DPClearRetries", "DPResetCursor", "DeletePrevious",
            "RetriggerEnsure"}

\* The steps after the data-plane loop has gone over the whole queue.
AfterDP == {"DPPhaseDone", "DPClearRetries", "DPResetCursor", "DeletePrevious"}

\* Items 1..n of the queue have loaded a bundle holding the current anchor.
QueueTrusted(n) == \A k \in 1..n : cur \in trusted[queue[k]]

(***************************************************************************)
(* The inductive invariant.                                                *)
(*  - No secret and no bundle holds an anchor newer than the current one.  *)
(*  - An overlap was only observed once the last anchor was issued and is  *)
(*    in the bundle; from then on the bundle keeps it (trust-manager       *)
(*    always copies the current secret).  Past SetTrustInfo a reconcile    *)
(*    only goes on after an overlap.                                       *)
(*  - A workload whose wait returned since the cursor was reset has        *)
(*    loaded that anchor (it rolled during a rotation; a re-created        *)
(*    workload starts with the bundle, which holds it).                    *)
(*  - After CPRestart the control plane trusts the current anchor; in the  *)
(*    loop the items before i (and the item at i + 1 once bumped) trust   *)
(*    it; after the loop the whole queue does; a fresh cursor is written  *)
(*    with i = 0.                                                          *)
(***************************************************************************)
AnchorsBelowCur == bundle \subseteq 1..cur /\ prev <= cur
LastAnchor == cur = MaxGen /\ cur \in bundle
ObservedOverlap == pc = "SetTrustInfo" /\ obs.state = "overlap" => LastAnchor
Rotating == pc \notin EarlyPcs => LastAnchor
DoneTrusted == \A w \in Items : doneUnder[w] # None => LastAnchor /\ cur \in trusted[w]
CPTrusted == pc \in AfterCP => cur \in cpTrusted
LoopTrusted == pc \in {"DPStartProgress", "DPBump"} => QueueTrusted(i)
BumpedTrusted == pc \in {"DPWait", "DPAdvanceCursor", "DPAdvanceProgress"} => QueueTrusted(i + 1)
QueueDone == pc \in AfterDP => QueueTrusted(Len(queue))

CleanupInvariant ==
  /\ AnchorsBelowCur /\ ObservedOverlap /\ Rotating /\ DoneTrusted
  /\ CPTrusted /\ LoopTrusted /\ BumpedTrusted /\ QueueDone /\ FreshInit


(***************************************************************************)
(* Two different anchors of a bundle that holds no anchor newer than the  *)
(* current one, when at most two anchors exist, are anchors 1 and 2, so   *)
(* the current anchor is the last one and the bundle holds it.            *)
(***************************************************************************)
LEMMA TwoAnchors ==
  ASSUME NEW S, NEW c \in 1..2, S \subseteq 1..c, IsFiniteSet(S), Cardinality(S) >= 2
  PROVE  c = 2 /\ 2 \in S
<1>1. SUFFICES ASSUME ~(c = 2 /\ 2 \in S) PROVE FALSE
  OBVIOUS
<1>2. S \subseteq {1}
  BY <1>1
<1>3. IsFiniteSet({1}) /\ Cardinality({1}) = 1
  BY FS_Singleton
<1>4. Cardinality(S) <= 1 /\ Cardinality(S) \in Nat
  BY <1>2, <1>3, FS_Subset, FS_CardinalityType
<1> QED BY <1>4

(***************************************************************************)
(* The invariant holds initially and is kept by every step, given the     *)
(* type invariant and resume soundness proved before.                     *)
(***************************************************************************)
LEMMA CleanupInit == Init => CleanupInvariant
  BY DEF Init, NotDone, CleanupInvariant, AnchorsBelowCur, LastAnchor, ObservedOverlap, Rotating, DoneTrusted, CPTrusted, LoopTrusted, BumpedTrusted, QueueDone, FreshInit, QueueTrusted, EarlyPcs, AfterCP, AfterDP

LEMMA CleanupStep ==
  ASSUME OnConfigMapChange = TRUE, MaxGen = 2
  PROVE  TypeOK /\ TypeOK' /\ CursorSound /\ CleanupInvariant /\ [Next]_vars => CleanupInvariant'
  <1> SUFFICES ASSUME TypeOK, TypeOK', CursorSound, CleanupInvariant, [Next]_vars
               PROVE  CleanupInvariant'
    OBVIOUS
  <1> USE DEF Goto, clusterVars, localVars
  <1>0. /\ TypeCluster /\ TypeLocal /\ StatusOK(st)
        /\ TypeCluster' /\ TypeLocal'
        /\ MaxGen = 2 /\ OnConfigMapChange = TRUE
    BY TypeOKParts DEF TypeOK, TypeCluster, TypeLocal
  <1>1. CASE Reconcile
    BY <1>1, <1>0 DEF Reconcile, TypeCluster, TypeLocal, Gens, ItemPcs, PatchOr, LoopAt, NotDone, CleanupInvariant, AnchorsBelowCur, LastAnchor, ObservedOverlap, Rotating, DoneTrusted, CPTrusted, LoopTrusted, BumpedTrusted, QueueDone, FreshInit, QueueTrusted, EarlyPcs, AfterCP, AfterDP
  <1>2. CASE ResetProgress
    BY <1>2, <1>0 DEF ResetProgress, TypeCluster, TypeLocal, Gens, ItemPcs, PatchOr, LoopAt, NotDone, CleanupInvariant, AnchorsBelowCur, LastAnchor, ObservedOverlap, Rotating, DoneTrusted, CPTrusted, LoopTrusted, BumpedTrusted, QueueDone, FreshInit, QueueTrusted, EarlyPcs, AfterCP, AfterDP
  <1>3. CASE RecordTrust
    BY <1>3, <1>0 DEF RecordTrust, TypeCluster, TypeLocal, Gens, ItemPcs, PatchOr, LoopAt, NotDone, CleanupInvariant, AnchorsBelowCur, LastAnchor, ObservedOverlap, Rotating, DoneTrusted, CPTrusted, LoopTrusted, BumpedTrusted, QueueDone, FreshInit, QueueTrusted, EarlyPcs, AfterCP, AfterDP
  <1>4. CASE DryRunPlan
    BY <1>4, <1>0 DEF DryRunPlan, TypeCluster, TypeLocal, Gens, ItemPcs, PatchOr, LoopAt, NotDone, CleanupInvariant, AnchorsBelowCur, LastAnchor, ObservedOverlap, Rotating, DoneTrusted, CPTrusted, LoopTrusted, BumpedTrusted, QueueDone, FreshInit, QueueTrusted, EarlyPcs, AfterCP, AfterDP
  <1>5. CASE StopMaxRetries
    BY <1>5, <1>0 DEF StopMaxRetries, TypeCluster, TypeLocal, Gens, ItemPcs, PatchOr, LoopAt, NotDone, CleanupInvariant, AnchorsBelowCur, LastAnchor, ObservedOverlap, Rotating, DoneTrusted, CPTrusted, LoopTrusted, BumpedTrusted, QueueDone, FreshInit, QueueTrusted, EarlyPcs, AfterCP, AfterDP
  <1>6. CASE MarkDetecting
    BY <1>6, <1>0 DEF MarkDetecting, TypeCluster, TypeLocal, Gens, ItemPcs, PatchOr, LoopAt, NotDone, CleanupInvariant, AnchorsBelowCur, LastAnchor, ObservedOverlap, Rotating, DoneTrusted, CPTrusted, LoopTrusted, BumpedTrusted, QueueDone, FreshInit, QueueTrusted, EarlyPcs, AfterCP, AfterDP
  <1>7. CASE DeleteIssuer
    BY <1>7, <1>0 DEF DeleteIssuer, TypeCluster, TypeLocal, Gens, ItemPcs, PatchOr, LoopAt, NotDone, CleanupInvariant, AnchorsBelowCur, LastAnchor, ObservedOverlap, Rotating, DoneTrusted, CPTrusted, LoopTrusted, BumpedTrusted, QueueDone, FreshInit, QueueTrusted, EarlyPcs, AfterCP, AfterDP
  <1>8. CASE CPStart
    BY <1>8, <1>0 DEF CPStart, TypeCluster, TypeLocal, Gens, ItemPcs, PatchOr, LoopAt, NotDone, CleanupInvariant, AnchorsBelowCur, LastAnchor, ObservedOverlap, Rotating, DoneTrusted, CPTrusted, LoopTrusted, BumpedTrusted, QueueDone, FreshInit, QueueTrusted, EarlyPcs, AfterCP, AfterDP
  <1>9. CASE CPProgressFalse
    BY <1>9, <1>0 DEF CPProgressFalse, TypeCluster, TypeLocal, Gens, ItemPcs, PatchOr, LoopAt, NotDone, CleanupInvariant, AnchorsBelowCur, LastAnchor, ObservedOverlap, Rotating, DoneTrusted, CPTrusted, LoopTrusted, BumpedTrusted, QueueDone, FreshInit, QueueTrusted, EarlyPcs, AfterCP, AfterDP
  <1>10. CASE CPRestart
    BY <1>10, <1>0 DEF CPRestart, TypeCluster, TypeLocal, Gens, ItemPcs, PatchOr, LoopAt, NotDone, CleanupInvariant, AnchorsBelowCur, LastAnchor, ObservedOverlap, Rotating, DoneTrusted, CPTrusted, LoopTrusted, BumpedTrusted, QueueDone, FreshInit, QueueTrusted, EarlyPcs, AfterCP, AfterDP
  <1>11. CASE CPProgressTrue
    BY <1>11, <1>0 DEF CPProgressTrue, TypeCluster, TypeLocal, Gens, ItemPcs, PatchOr, LoopAt, NotDone, CleanupInvariant, AnchorsBelowCur, LastAnchor, ObservedOverlap, Rotating, DoneTrusted, CPTrusted, LoopTrusted, BumpedTrusted, QueueDone, FreshInit, QueueTrusted, EarlyPcs, AfterCP, AfterDP
  <1>12. CASE CPReady
    BY <1>12, <1>0 DEF CPReady, TypeCluster, TypeLocal, Gens, ItemPcs, PatchOr, LoopAt, NotDone, CleanupInvariant, AnchorsBelowCur, LastAnchor, ObservedOverlap, Rotating, DoneTrusted, CPTrusted, LoopTrusted, BumpedTrusted, QueueDone, FreshInit, QueueTrusted, EarlyPcs, AfterCP, AfterDP
  <1>13. CASE DPStart
    <2>1. CASE pc' = "DPStartProgress"
      <3>1. /\ st' = SetPhase(st, "RollingDP", "DataPlaneBatchRestarting")
            /\ st'.planHash = queue' /\ i' = st'.next /\ queue' = workloads
        BY <1>13, <2>1 DEF DPStart, CanResume
      <3>2. st'.planHash = st.planHash /\ st'.next = st.next
        BY <3>1, <1>0 DEF SetPhase, StatusOK, Status
      <3>3. queue' \in Seq(Items) /\ i' \in 0..Len(queue') /\ queue' # None
        BY <3>1, <1>0, ListingsAreSeqs, NoneAssumption DEF TypeCluster, TypeLocal
      <3>4. \A k \in 1..i' : doneUnder[queue'[k]] # None
        BY <3>1, <3>2, <3>3 DEF CursorSound
      <3>5. QueueTrusted(i)'
        BY <1>13, <3>3, <3>4 DEF DPStart, CleanupInvariant, DoneTrusted, QueueTrusted
      <3> QED BY <1>13, <2>1, <3>5 DEF DPStart, CleanupInvariant, AnchorsBelowCur, LastAnchor, ObservedOverlap, Rotating, DoneTrusted, CPTrusted, LoopTrusted, BumpedTrusted, QueueDone, FreshInit, QueueTrusted, EarlyPcs, AfterCP, AfterDP
    <2>2. CASE pc' # "DPStartProgress"
      BY <1>13, <2>2, <1>0 DEF DPStart, TypeCluster, TypeLocal, CleanupInvariant, AnchorsBelowCur, LastAnchor, ObservedOverlap, Rotating, DoneTrusted, CPTrusted, LoopTrusted, BumpedTrusted, QueueDone, FreshInit, QueueTrusted, EarlyPcs, AfterCP, AfterDP
    <2> QED BY <2>1, <2>2
  <1>14. CASE DPInitCursor
    BY <1>14, <1>0 DEF DPInitCursor, TypeCluster, TypeLocal, Gens, ItemPcs, PatchOr, LoopAt, NotDone, CleanupInvariant, AnchorsBelowCur, LastAnchor, ObservedOverlap, Rotating, DoneTrusted, CPTrusted, LoopTrusted, BumpedTrusted, QueueDone, FreshInit, QueueTrusted, EarlyPcs, AfterCP, AfterDP
  <1>15. CASE DPStartProgress
    <2>1. UNCHANGED <<cur, prev, bundle, trusted, cpTrusted, queue, i, doneUnder, obs>>
      BY <1>15 DEF DPStartProgress
    <2>2. /\ pc' \in {"DPBump", "DPPhaseDone", "MarkFailed"}
          /\ pc' = "DPPhaseDone" => i = Len(queue)
      <3>1. pc' = LoopAt(i) \/ pc' = "MarkFailed"
        BY <1>15 DEF DPStartProgress, PatchOr
      <3>2. i \in 0..Len(queue)
        BY <1>0 DEF TypeLocal
      <3>3. CASE i < Len(queue)
        BY <3>1, <3>3 DEF LoopAt
      <3>4. CASE ~(i < Len(queue))
        BY <3>1, <3>2, <3>4 DEF LoopAt
      <3> QED BY <3>3, <3>4
    <2>3. LastAnchor /\ cur \in cpTrusted /\ QueueTrusted(i)
      BY <1>15 DEF DPStartProgress, CleanupInvariant, Rotating, CPTrusted, LoopTrusted,
                   EarlyPcs, AfterCP
    <2>4. LastAnchor' /\ cur' \in cpTrusted' /\ QueueTrusted(i)'
      BY <2>1, <2>3 DEF LastAnchor, QueueTrusted
    <2>5. pc' = "DPPhaseDone" => QueueTrusted(Len(queue))'
      BY <2>1, <2>2, <2>4 DEF QueueTrusted
    <2>6. AnchorsBelowCur' /\ DoneTrusted'
      BY <2>1 DEF CleanupInvariant, AnchorsBelowCur, DoneTrusted, LastAnchor
    <2> QED
      BY <2>2, <2>4, <2>5, <2>6 DEF CleanupInvariant, ObservedOverlap, Rotating, CPTrusted,
         LoopTrusted, BumpedTrusted, QueueDone, FreshInit, EarlyPcs, AfterCP, AfterDP
  <1>16. CASE DPBump
    BY <1>16, <1>0 DEF DPBump, TypeCluster, TypeLocal, Gens, ItemPcs, PatchOr, LoopAt, NotDone, CleanupInvariant, AnchorsBelowCur, LastAnchor, ObservedOverlap, Rotating, DoneTrusted, CPTrusted, LoopTrusted, BumpedTrusted, QueueDone, FreshInit, QueueTrusted, EarlyPcs, AfterCP, AfterDP
  <1>17. CASE DPWait
    BY <1>17, <1>0 DEF DPWait, TypeCluster, TypeLocal, Gens, ItemPcs, PatchOr, LoopAt, NotDone, CleanupInvariant, AnchorsBelowCur, LastAnchor, ObservedOverlap, Rotating, DoneTrusted, CPTrusted, LoopTrusted, BumpedTrusted, QueueDone, FreshInit, QueueTrusted, EarlyPcs, AfterCP, AfterDP
  <1>18. CASE DPAdvanceCursor
    BY <1>18, <1>0 DEF DPAdvanceCursor, TypeCluster, TypeLocal, Gens, ItemPcs, PatchOr, LoopAt, NotDone, CleanupInvariant, AnchorsBelowCur, LastAnchor, ObservedOverlap, Rotating, DoneTrusted, CPTrusted, LoopTrusted, BumpedTrusted, QueueDone, FreshInit, QueueTrusted, EarlyPcs, AfterCP, AfterDP
  <1>19. CASE DPAdvanceProgress
    <2>1. UNCHANGED <<cur, prev, bundle, trusted, cpTrusted, queue, doneUnder, obs>>
      BY <1>19 DEF DPAdvanceProgress
    <2>2. LastAnchor /\ cur \in cpTrusted /\ QueueTrusted(i + 1)
      BY <1>19 DEF DPAdvanceProgress, CleanupInvariant, Rotating, CPTrusted, BumpedTrusted,
                   EarlyPcs, AfterCP
    <2>3. LastAnchor' /\ cur' \in cpTrusted'
      BY <2>1, <2>2 DEF LastAnchor
    <2>4. AnchorsBelowCur' /\ DoneTrusted'
      BY <2>1 DEF CleanupInvariant, AnchorsBelowCur, DoneTrusted, LastAnchor
    <2>5. i \in Nat /\ i + 1 <= Len(queue)
      BY <1>0, <1>19 DEF DPAdvanceProgress, TypeLocal, ItemPcs
    <2>6. CASE i' = i + 1 /\ pc' = LoopAt(i + 1)
      <3>1. /\ pc' \in {"DPBump", "DPPhaseDone"}
            /\ pc' = "DPPhaseDone" => i' = Len(queue)
        <4>1. CASE i + 1 < Len(queue)
          BY <2>6, <4>1 DEF LoopAt
        <4>2. CASE ~(i + 1 < Len(queue))
          BY <2>5, <2>6, <4>2 DEF LoopAt
        <4> QED BY <4>1, <4>2
      <3>2. QueueTrusted(i)'
        BY <2>1, <2>2, <2>6 DEF QueueTrusted
      <3>3. pc' = "DPPhaseDone" => QueueTrusted(Len(queue))'
        BY <2>1, <3>1, <3>2 DEF QueueTrusted
      <3> QED
        BY <2>3, <2>4, <3>1, <3>2, <3>3 DEF CleanupInvariant, ObservedOverlap, Rotating,
           CPTrusted, LoopTrusted, BumpedTrusted, QueueDone, FreshInit, EarlyPcs, AfterCP, AfterDP
    <2>7. CASE i' = i /\ pc' = "DPRecordFailure"
      BY <2>3, <2>4, <2>7 DEF CleanupInvariant, ObservedOverlap, Rotating, CPTrusted,
         LoopTrusted, BumpedTrusted, QueueDone, FreshInit, EarlyPcs, AfterCP, AfterDP
    <2> QED BY <1>19, <2>6, <2>7 DEF DPAdvanceProgress
  <1>20. CASE DPRecordFailure
    BY <1>20, <1>0 DEF DPRecordFailure, TypeCluster, TypeLocal, Gens, ItemPcs, PatchOr, LoopAt, NotDone, CleanupInvariant, AnchorsBelowCur, LastAnchor, ObservedOverlap, Rotating, DoneTrusted, CPTrusted, LoopTrusted, BumpedTrusted, QueueDone, FreshInit, QueueTrusted, EarlyPcs, AfterCP, AfterDP
  <1>21. CASE DPPhaseDone
    BY <1>21, <1>0 DEF DPPhaseDone, TypeCluster, TypeLocal, Gens, ItemPcs, PatchOr, LoopAt, NotDone, CleanupInvariant, AnchorsBelowCur, LastAnchor, ObservedOverlap, Rotating, DoneTrusted, CPTrusted, LoopTrusted, BumpedTrusted, QueueDone, FreshInit, QueueTrusted, EarlyPcs, AfterCP, AfterDP
  <1>22. CASE DPClearRetries
    BY <1>22, <1>0 DEF DPClearRetries, TypeCluster, TypeLocal, Gens, ItemPcs, PatchOr, LoopAt, NotDone, CleanupInvariant, AnchorsBelowCur, LastAnchor, ObservedOverlap, Rotating, DoneTrusted, CPTrusted, LoopTrusted, BumpedTrusted, QueueDone, FreshInit, QueueTrusted, EarlyPcs, AfterCP, AfterDP
  <1>23. CASE DPResetCursor
    BY <1>23, <1>0 DEF DPResetCursor, TypeCluster, TypeLocal, Gens, ItemPcs, PatchOr, LoopAt, NotDone, CleanupInvariant, AnchorsBelowCur, LastAnchor, ObservedOverlap, Rotating, DoneTrusted, CPTrusted, LoopTrusted, BumpedTrusted, QueueDone, FreshInit, QueueTrusted, EarlyPcs, AfterCP, AfterDP
  <1>24. CASE MarkFailed
    BY <1>24, <1>0 DEF MarkFailed, TypeCluster, TypeLocal, Gens, ItemPcs, PatchOr, LoopAt, NotDone, CleanupInvariant, AnchorsBelowCur, LastAnchor, ObservedOverlap, Rotating, DoneTrusted, CPTrusted, LoopTrusted, BumpedTrusted, QueueDone, FreshInit, QueueTrusted, EarlyPcs, AfterCP, AfterDP
  <1>25. CASE DeletePrevious
    BY <1>25, <1>0 DEF DeletePrevious, TypeCluster, TypeLocal, Gens, ItemPcs, PatchOr, LoopAt, NotDone, CleanupInvariant, AnchorsBelowCur, LastAnchor, ObservedOverlap, Rotating, DoneTrusted, CPTrusted, LoopTrusted, BumpedTrusted, QueueDone, FreshInit, QueueTrusted, EarlyPcs, AfterCP, AfterDP
  <1>26. CASE RetriggerEnsure
    BY <1>26, <1>0 DEF RetriggerEnsure, TypeCluster, TypeLocal, Gens, ItemPcs, PatchOr, LoopAt, NotDone, CleanupInvariant, AnchorsBelowCur, LastAnchor, ObservedOverlap, Rotating, DoneTrusted, CPTrusted, LoopTrusted, BumpedTrusted, QueueDone, FreshInit, QueueTrusted, EarlyPcs, AfterCP, AfterDP
  <1>27. CASE MarkSucceeded
    BY <1>27, <1>0 DEF MarkSucceeded, TypeCluster, TypeLocal, Gens, ItemPcs, PatchOr, LoopAt, NotDone, CleanupInvariant, AnchorsBelowCur, LastAnchor, ObservedOverlap, Rotating, DoneTrusted, CPTrusted, LoopTrusted, BumpedTrusted, QueueDone, FreshInit, QueueTrusted, EarlyPcs, AfterCP, AfterDP
  <1>28. CASE ReconcileAbort
    BY <1>28, <1>0 DEF ReconcileAbort, TypeCluster, TypeLocal, Gens, ItemPcs, PatchOr, LoopAt, NotDone, CleanupInvariant, AnchorsBelowCur, LastAnchor, ObservedOverlap, Rotating, DoneTrusted, CPTrusted, LoopTrusted, BumpedTrusted, QueueDone, FreshInit, QueueTrusted, EarlyPcs, AfterCP, AfterDP
  <1>29. CASE CertManagerRotate
    BY <1>29, <1>0 DEF CertManagerRotate, TypeCluster, TypeLocal, Gens, ItemPcs, PatchOr, LoopAt, NotDone, CleanupInvariant, AnchorsBelowCur, LastAnchor, ObservedOverlap, Rotating, DoneTrusted, CPTrusted, LoopTrusted, BumpedTrusted, QueueDone, FreshInit, QueueTrusted, EarlyPcs, AfterCP, AfterDP
  <1>30. CASE TrustManagerSync
    BY <1>30, <1>0 DEF TrustManagerSync, TypeCluster, TypeLocal, Gens, ItemPcs, PatchOr, LoopAt, NotDone, CleanupInvariant, AnchorsBelowCur, LastAnchor, ObservedOverlap, Rotating, DoneTrusted, CPTrusted, LoopTrusted, BumpedTrusted, QueueDone, FreshInit, QueueTrusted, EarlyPcs, AfterCP, AfterDP
  <1>31. CASE IssuerReissue
    BY <1>31, <1>0 DEF IssuerReissue, TypeCluster, TypeLocal, Gens, ItemPcs, PatchOr, LoopAt, NotDone, CleanupInvariant, AnchorsBelowCur, LastAnchor, ObservedOverlap, Rotating, DoneTrusted, CPTrusted, LoopTrusted, BumpedTrusted, QueueDone, FreshInit, QueueTrusted, EarlyPcs, AfterCP, AfterDP
  <1>32. CASE WorkloadsChange
    BY <1>32, <1>0 DEF WorkloadsChange, TypeCluster, TypeLocal, Gens, ItemPcs, PatchOr, LoopAt, NotDone, CleanupInvariant, AnchorsBelowCur, LastAnchor, ObservedOverlap, Rotating, DoneTrusted, CPTrusted, LoopTrusted, BumpedTrusted, QueueDone, FreshInit, QueueTrusted, EarlyPcs, AfterCP, AfterDP
  <1>33. CASE EditDryRun
    BY <1>33, <1>0 DEF EditDryRun, TypeCluster, TypeLocal, Gens, ItemPcs, PatchOr, LoopAt, NotDone, CleanupInvariant, AnchorsBelowCur, LastAnchor, ObservedOverlap, Rotating, DoneTrusted, CPTrusted, LoopTrusted, BumpedTrusted, QueueDone, FreshInit, QueueTrusted, EarlyPcs, AfterCP, AfterDP
  <1>34. CASE OperatorRestart
    BY <1>34, <1>0 DEF OperatorRestart, TypeCluster, TypeLocal, Gens, ItemPcs, PatchOr, LoopAt, NotDone, CleanupInvariant, AnchorsBelowCur, LastAnchor, ObservedOverlap, Rotating, DoneTrusted, CPTrusted, LoopTrusted, BumpedTrusted, QueueDone, FreshInit, QueueTrusted, EarlyPcs, AfterCP, AfterDP
  <1>35. CASE DetectTrust
    <2>1. cur \in 1..2 /\ bundle \subseteq 1..cur /\ prev \in 0..cur /\ IsFiniteSet(bundle)
      <3>1. IsFiniteSet(1..2)
        <4>1. \A a, b \in Int : IsFiniteSet(a..b)
          BY FS_Interval
        <4>2. 1 \in Int /\ 2 \in Int
          OBVIOUS
        <4> QED BY <4>1, <4>2, Zenon
      <3>2. bundle \subseteq 1..2
        BY <1>0 DEF TypeCluster, Gens
      <3>3. IsFiniteSet(bundle)
        BY <3>1, <3>2, FS_Subset
      <3> QED BY <1>0, <3>3 DEF TypeCluster, Gens, CleanupInvariant, AnchorsBelowCur
    <2>2. obs'.state = "overlap" => LastAnchor'
      <3>1. CASE RequireSecretsDivergence /\ OnConfigMapChange
        <4>1. obs'.state = "overlap" => Cardinality(bundle) >= 2
          BY <1>35, <3>1 DEF DetectTrust
        <4> QED BY <1>35, <2>1, <4>1, TwoAnchors DEF DetectTrust, LastAnchor
      <3>2. CASE ~RequireSecretsDivergence
        BY <1>35, <2>1, <3>2 DEF DetectTrust, LastAnchor
      <3> QED BY <3>1, <3>2, <1>0
    <2>3. prev' \in 0..cur
      BY <1>35, <2>1 DEF DetectTrust, EnsuredPrevious
    <2> QED BY <1>35, <2>1, <2>2, <2>3 DEF DetectTrust, CleanupInvariant, AnchorsBelowCur, LastAnchor, ObservedOverlap, Rotating, DoneTrusted, CPTrusted, LoopTrusted, BumpedTrusted, QueueDone, FreshInit, QueueTrusted, EarlyPcs, AfterCP, AfterDP
  <1>36. CASE UNCHANGED vars
    BY <1>36 DEF vars, CleanupInvariant, AnchorsBelowCur, LastAnchor, ObservedOverlap, Rotating, DoneTrusted, CPTrusted, LoopTrusted, BumpedTrusted, QueueDone, FreshInit, QueueTrusted, EarlyPcs, AfterCP, AfterDP
  <1> QED
    BY <1>1, <1>2, <1>3, <1>4, <1>5, <1>6, <1>7, <1>8, <1>9, <1>10, <1>11, <1>12, <1>13, <1>14, <1>15, <1>16, <1>17, <1>18, <1>19, <1>20, <1>21, <1>22, <1>23, <1>24, <1>25, <1>26, <1>27, <1>28, <1>29, <1>30, <1>31, <1>32, <1>33, <1>34, <1>35, <1>36
    DEF Next, Controller, Environment

(***************************************************************************)
(* With the ConfigMap trigger on and one anchor rotation, every reachable *)
(* state satisfies CleanupInvariant: in particular, once the reconcile is *)
(* past detection the current anchor is the last one and in the bundle,  *)
(* and the control plane and the queue items behind the loop trust it.   *)
(***************************************************************************)
THEOREM CleanupInvariantHolds ==
  ASSUME OnConfigMapChange = TRUE, MaxGen = 2
  PROVE  Spec => []CleanupInvariant
<1>1. TypeOK /\ TypeOK' /\ CursorSound /\ CleanupInvariant /\ [Next]_vars => CleanupInvariant'
  BY CleanupStep
<1> QED BY <1>1, CleanupInit, TypeCorrect, CursorSoundProved, PTL DEF Spec

(***************************************************************************)
(* Cleanup only after a full rollout, for every number of workloads and   *)
(* allowed failures and every setting of bootstrap and retrigger, when    *)
(* the ConfigMap trigger is on and cert-manager issues one new anchor.    *)
(* The deletion of the previous anchor secret at controller line 244 runs *)
(* only once CPRestart and every item of the data-plane queue have        *)
(* loaded a bundle holding the current anchor.                            *)
(***************************************************************************)
THEOREM CleanupSafe ==
  ASSUME OnConfigMapChange = TRUE, MaxGen = 2
  PROVE  Spec => CleanupAfterFullRollout
<1>0. CleanupInvariant /\ TypeOK =>
        (pc = "DeletePrevious" /\ prev' # prev => MeshTrustsCurrentAnchor)
  BY TypeOKParts DEF TypeLocal, MeshTrustsCurrentAnchor, CleanupInvariant, CPTrusted, QueueDone,
                     QueueTrusted, AfterCP, AfterDP
<1>1. []CleanupInvariant /\ []TypeOK => [][pc = "DeletePrevious" /\ prev' # prev => MeshTrustsCurrentAnchor]_vars
  BY <1>0, PTL
<1> QED BY <1>1, CleanupInvariantHolds, TypeCorrect DEF CleanupAfterFullRollout


=============================================================================
