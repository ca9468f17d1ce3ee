------------------------------ MODULE AnchorProofs ------------------------------
(***************************************************************************)
(* The controller refines AnchorRotation (AnchorRefinement) when the      *)
(* ConfigMap trigger is on and cert-manager issues one new anchor: every  *)
(* step of a reconcile is a restart that loads the published bundle, the  *)
(* bootstrap of the previous secret, the deletion of the issuer once the  *)
(* bundle holds the current anchor, the deletion of the previous secret   *)
(* once the control plane and every workload now selected trust the      *)
(* current anchor, or leaves the cluster alone.                           *)
(***************************************************************************)
EXTENDS CleanupProofs

\* The steps after DPStart has taken the selected workloads as its queue.
AfterDPStart == {"DPInitCursor", "DPStartProgress", "DPBump", "DPWait", "DPAdvanceCursor",
                 "DPAdvanceProgress", "DPRecordFailure", "DPPhaseDone", "DPClearRetries",
                 "DPResetCursor", "DeletePrevious"}

(***************************************************************************)
(* A workload selected while the data-plane rollout runs is in its queue, *)
(* or it trusts the current anchor: a workload created or re-selected     *)
(* after DPStart listed the workloads starts with the published bundle,   *)
(* which by then holds the current anchor.                                *)
(***************************************************************************)
MembersTrusted ==
  pc \in AfterDPStart =>
    \A w \in ItemsOf(workloads) : w \in ItemsOf(queue) \/ cur \in trusted[w]

\* A step that keeps what MembersTrusted is about and enters no rollout step.
KeepsMembers ==
  /\ UNCHANGED <<cur, workloads, trusted, queue>>
  /\ pc' \in AfterDPStart => pc \in AfterDPStart

\* A step that leaves the cluster alone.
ClusterKept == UNCHANGED <<cur, prev, bundle, issuer, workloads, trusted, cpTrusted>>

LEMMA ListingItems ==
  ASSUME NEW s \in Listings
  PROVE  ItemsOf(s) \subseteq Items
BY DEF Listings, ItemsOf

LEMMA MembersInit == Init => MembersTrusted
BY DEF Init, MembersTrusted, AfterDPStart

LEMMA MembersStep ==
  ASSUME OnConfigMapChange = TRUE, MaxGen = 2
  PROVE  TypeOK /\ CleanupInvariant /\ MembersTrusted /\ [Next]_vars => MembersTrusted'
<1> SUFFICES ASSUME TypeOK, CleanupInvariant, MembersTrusted, [Next]_vars
             PROVE  MembersTrusted'
  OBVIOUS
<1> USE DEF Goto, clusterVars, localVars
<1>0. /\ TypeCluster /\ TypeLocal
      /\ ItemsOf(workloads) \subseteq Items
      /\ pc \in AfterDPStart => cur = MaxGen /\ cur \in bundle
  <2>1. TypeCluster /\ TypeLocal
    BY TypeOKParts
  <2>2. ItemsOf(workloads) \subseteq Items
    BY <2>1, ListingItems DEF TypeCluster
  <2>3. pc \in AfterDPStart => cur = MaxGen /\ cur \in bundle
    BY DEF CleanupInvariant, Rotating, LastAnchor, EarlyPcs, AfterDPStart
  <2> QED BY <2>1, <2>2, <2>3
<1>k. KeepsMembers => MembersTrusted'
  BY DEF KeepsMembers, MembersTrusted, ItemsOf
<1>1. CASE DPStart
  BY <1>1 DEF DPStart, MembersTrusted, AfterDPStart
<1>2. CASE DPBump
  <2>1. UNCHANGED <<cur, workloads, queue>> /\ pc \in AfterDPStart /\ pc' \in AfterDPStart
    BY <1>2 DEF DPBump, AfterDPStart
  <2>2. \/ UNCHANGED trusted
        \/ trusted' = [trusted EXCEPT ![queue[i + 1]] = bundle]
    BY <1>2 DEF DPBump
  <2>3. queue[i + 1] \in ItemsOf(queue)
    BY <1>0, <1>2 DEF DPBump, TypeLocal, ItemPcs, ItemsOf
  <2> QED BY <1>0, <2>1, <2>2, <2>3 DEF MembersTrusted, TypeCluster
<1>3. CASE WorkloadsChange
  <2>1. PICK s \in Listings \ {workloads} :
          /\ workloads' = s
          /\ trusted' = [w \in Items |->
                           IF w \in ItemsOf(s) \ ItemsOf(workloads) THEN bundle ELSE trusted[w]]
    BY <1>3 DEF WorkloadsChange
  <2>2. ItemsOf(s) \subseteq Items
    BY ListingItems
  <2>3. UNCHANGED <<cur, bundle, queue, pc>>
    BY <1>3 DEF WorkloadsChange
  <2> QED BY <1>0, <2>1, <2>2, <2>3 DEF MembersTrusted
<1>4. CASE CertManagerRotate
  BY <1>0, <1>4 DEF CertManagerRotate, MembersTrusted
<1>5. CASE Reconcile
  BY <1>5, <1>k DEF Reconcile, KeepsMembers, AfterDPStart
<1>6. CASE ResetProgress
  BY <1>6, <1>k DEF ResetProgress, KeepsMembers, AfterDPStart
<1>7. CASE DetectTrust
  BY <1>7, <1>k DEF DetectTrust, KeepsMembers, AfterDPStart
<1>8. CASE RecordTrust
  BY <1>8, <1>k DEF RecordTrust, KeepsMembers, AfterDPStart
<1>9. CASE DryRunPlan
  BY <1>9, <1>k DEF DryRunPlan, KeepsMembers, AfterDPStart
<1>10. CASE StopMaxRetries
  BY <1>10, <1>k DEF StopMaxRetries, KeepsMembers, AfterDPStart
<1>11. CASE MarkDetecting
  BY <1>11, <1>k DEF MarkDetecting, KeepsMembers, AfterDPStart
<1>12. CASE DeleteIssuer
  BY <1>12, <1>k DEF DeleteIssuer, KeepsMembers, AfterDPStart
<1>13. CASE CPStart
  BY <1>13, <1>k DEF CPStart, KeepsMembers, AfterDPStart, PatchOr
<1>14. CASE CPProgressFalse
  BY <1>14, <1>k DEF CPProgressFalse, KeepsMembers, AfterDPStart, PatchOr
<1>15. CASE CPRestart
  BY <1>15, <1>k DEF CPRestart, KeepsMembers, AfterDPStart
<1>16. CASE CPProgressTrue
  BY <1>16, <1>k DEF CPProgressTrue, KeepsMembers, AfterDPStart, PatchOr
<1>17. CASE CPReady
  BY <1>17, <1>k DEF CPReady, KeepsMembers, AfterDPStart, PatchOr
<1>18. CASE DPInitCursor
  BY <1>18, <1>k DEF DPInitCursor, KeepsMembers, AfterDPStart, PatchOr
<1>19. CASE DPStartProgress
  BY <1>19, <1>k DEF DPStartProgress, KeepsMembers, AfterDPStart, PatchOr
<1>20. CASE DPWait
  BY <1>20, <1>k DEF DPWait, KeepsMembers, AfterDPStart
<1>21. CASE DPAdvanceCursor
  BY <1>21, <1>k DEF DPAdvanceCursor, KeepsMembers, AfterDPStart, PatchOr
<1>22. CASE DPAdvanceProgress
  BY <1>22, <1>k DEF DPAdvanceProgress, KeepsMembers, AfterDPStart
<1>23. CASE DPRecordFailure
  BY <1>23, <1>k DEF DPRecordFailure, KeepsMembers, AfterDPStart
<1>24. CASE DPPhaseDone
  BY <1>24, <1>k DEF DPPhaseDone, KeepsMembers, AfterDPStart, PatchOr
<1>25. CASE DPClearRetries
  BY <1>25, <1>k DEF DPClearRetries, KeepsMembers, AfterDPStart, PatchOr
<1>26. CASE DPResetCursor
  BY <1>26, <1>k DEF DPResetCursor, KeepsMembers, AfterDPStart, PatchOr
<1>27. CASE MarkFailed
  BY <1>27, <1>k DEF MarkFailed, KeepsMembers, AfterDPStart
<1>28. CASE DeletePrevious
  BY <1>28, <1>k DEF DeletePrevious, KeepsMembers, AfterDPStart
<1>29. CASE RetriggerEnsure
  BY <1>29, <1>k DEF RetriggerEnsure, KeepsMembers, AfterDPStart
<1>30. CASE MarkSucceeded
  BY <1>30, <1>k DEF MarkSucceeded, KeepsMembers, AfterDPStart
<1>31. CASE ReconcileAbort
  BY <1>31, <1>k DEF ReconcileAbort, KeepsMembers, AfterDPStart
<1>32. CASE TrustManagerSync
  BY <1>32, <1>k DEF TrustManagerSync, KeepsMembers
<1>33. CASE IssuerReissue
  BY <1>33, <1>k DEF IssuerReissue, KeepsMembers
<1>34. CASE EditDryRun
  BY <1>34, <1>k DEF EditDryRun, KeepsMembers, AfterDPStart
<1>35. CASE OperatorRestart
  BY <1>35, <1>k DEF OperatorRestart, KeepsMembers, AfterDPStart
<1>36. CASE UNCHANGED vars
  BY <1>36, <1>k DEF vars, KeepsMembers
<1> QED
  BY <1>1, <1>2, <1>3, <1>4, <1>5, <1>6, <1>7, <1>8, <1>9, <1>10, <1>11, <1>12, <1>13,
     <1>14, <1>15, <1>16, <1>17, <1>18, <1>19, <1>20, <1>21, <1>22, <1>23, <1>24, <1>25,
     <1>26, <1>27, <1>28, <1>29, <1>30, <1>31, <1>32, <1>33, <1>34, <1>35, <1>36
  DEF Next, Controller, Environment

LEMMA KeptStutters == ClusterKept => UNCHANGED Anchor!avars
BY DEF ClusterKept, Anchor!avars

(***************************************************************************)
(* Every step of the controller or of the cluster is a step of            *)
(* AnchorRotation or leaves its variables alone.                          *)
(***************************************************************************)
LEMMA RefineStep ==
  ASSUME OnConfigMapChange = TRUE, MaxGen = 2
  PROVE  TypeOK /\ CleanupInvariant /\ MembersTrusted /\ [Next]_vars => [Anchor!Next]_Anchor!avars
<1> SUFFICES ASSUME TypeOK, CleanupInvariant, MembersTrusted, [Next]_vars
             PROVE  [Anchor!Next]_Anchor!avars
  OBVIOUS
<1> USE DEF Goto, clusterVars, localVars
<1>0. /\ TypeCluster /\ TypeLocal
      /\ ItemsOf(workloads) \subseteq Items
      /\ pc \notin EarlyPcs => cur = MaxGen /\ cur \in bundle
  <2>1. TypeCluster /\ TypeLocal
    BY TypeOKParts
  <2>2. ItemsOf(workloads) \subseteq Items
    BY <2>1, ListingItems DEF TypeCluster
  <2> QED BY <2>1, <2>2 DEF CleanupInvariant, Rotating, LastAnchor
<1>s. ClusterKept => [Anchor!Next]_Anchor!avars
  BY KeptStutters
\* The steps that change the cluster.
<1>1. CASE DetectTrust \/ RetriggerEnsure
  <2>1. /\ prev' = prev \/ (prev = 0 /\ prev' = cur)
        /\ UNCHANGED <<cur, bundle, issuer, workloads, trusted, cpTrusted>>
    BY <1>1 DEF DetectTrust, RetriggerEnsure, EnsuredPrevious
  <2>2. CASE prev' = prev
    BY <1>s, <2>1, <2>2 DEF ClusterKept
  <2>3. CASE prev = 0 /\ prev' = cur
    <3>1. Anchor!Bootstrap
      BY <2>1, <2>3 DEF Anchor!Bootstrap
    <3> QED BY <3>1 DEF Anchor!Next
  <2> QED BY <2>1, <2>2, <2>3
<1>2. CASE DeleteIssuer
  <2>1. Anchor!RevokeIssuer
    BY <1>0, <1>2 DEF DeleteIssuer, Anchor!RevokeIssuer, EarlyPcs
  <2> QED BY <2>1 DEF Anchor!Next
<1>3. CASE CPRestart
  <2>1. CASE cpTrusted' = bundle
    <3>1. Anchor!LoadControlPlane
      BY <1>3, <2>1 DEF CPRestart, Anchor!LoadControlPlane
    <3> QED BY <3>1 DEF Anchor!Next
  <2>2. CASE cpTrusted' = cpTrusted
    BY <1>s, <1>3, <2>2 DEF CPRestart, ClusterKept
  <2> QED BY <1>3, <2>1, <2>2 DEF CPRestart
<1>4. CASE DPBump
  <2>1. queue[i + 1] \in Items
    BY <1>0, <1>4 DEF DPBump, TypeLocal, ItemPcs
  <2>2. CASE trusted' = [trusted EXCEPT ![queue[i + 1]] = bundle]
    <3>1. Anchor!Load(queue[i + 1])
      BY <1>4, <2>2 DEF DPBump, Anchor!Load
    <3> QED BY <2>1, <3>1 DEF Anchor!Next
  <2>3. CASE UNCHANGED trusted
    BY <1>s, <1>4, <2>3 DEF DPBump, ClusterKept
  <2> QED BY <1>4, <2>2, <2>3 DEF DPBump
<1>5. CASE DeletePrevious
  <2>1. CASE prev = 0
    BY <1>s, <1>5, <2>1 DEF DeletePrevious, ClusterKept
  <2>2. CASE prev # 0
    <3>1. cur \in cpTrusted
      BY <1>5 DEF DeletePrevious, CleanupInvariant, CPTrusted, AfterCP
    <3>2. \A w \in ItemsOf(workloads) : cur \in trusted[w]
      <4>1. QueueTrusted(Len(queue))
        BY <1>5 DEF DeletePrevious, CleanupInvariant, QueueDone, AfterDP
      <4>2. \A w \in ItemsOf(queue) : cur \in trusted[w]
        BY <1>0, <4>1 DEF QueueTrusted, ItemsOf, TypeLocal
      <4> QED BY <1>5, <4>2 DEF DeletePrevious, MembersTrusted, AfterDPStart
    <3>3. Anchor!Retire
      BY <1>5, <2>2, <3>1, <3>2 DEF DeletePrevious, Anchor!Retire, Anchor!MeshTrusts
    <3> QED BY <3>3 DEF Anchor!Next
  <2> QED BY <2>1, <2>2
<1>6. CASE CertManagerRotate
  <2>1. Anchor!Issue
    BY <1>6 DEF CertManagerRotate, Anchor!Issue
  <2> QED BY <2>1 DEF Anchor!Next
<1>7. CASE TrustManagerSync
  <2>1. Anchor!Publish
    BY <1>7 DEF TrustManagerSync, Anchor!Publish
  <2> QED BY <2>1 DEF Anchor!Next
<1>8. CASE IssuerReissue
  <2>1. Anchor!Reissue
    BY <1>8 DEF IssuerReissue, Anchor!Reissue
  <2> QED BY <2>1 DEF Anchor!Next
<1>9. CASE WorkloadsChange
  <2>1. PICK s \in Listings \ {workloads} :
          /\ workloads' = s
          /\ trusted' = [w \in Items |->
                           IF w \in ItemsOf(s) \ ItemsOf(workloads) THEN bundle ELSE trusted[w]]
    BY <1>9 DEF WorkloadsChange
  <2>2. ItemsOf(s) \subseteq Items
    BY ListingItems
  <2>3. Anchor!Join
    BY <1>9, <2>1, <2>2 DEF WorkloadsChange, Anchor!Join
  <2> QED BY <2>3 DEF Anchor!Next
\* The steps that leave the cluster alone.
<1>10. CASE \/ Reconcile \/ ResetProgress \/ RecordTrust \/ DryRunPlan \/ StopMaxRetries
            \/ MarkDetecting \/ MarkFailed \/ MarkSucceeded \/ ReconcileAbort
  BY <1>s, <1>10 DEF Reconcile, ResetProgress, RecordTrust, DryRunPlan, StopMaxRetries,
                     MarkDetecting, MarkFailed, MarkSucceeded, ReconcileAbort, ClusterKept
<1>11. CASE \/ CPStart \/ CPProgressFalse \/ CPProgressTrue \/ CPReady
  BY <1>s, <1>11 DEF CPStart, CPProgressFalse, CPProgressTrue, CPReady, ClusterKept
<1>12. CASE \/ DPStart \/ DPInitCursor \/ DPStartProgress \/ DPWait \/ DPAdvanceCursor
            \/ DPAdvanceProgress \/ DPRecordFailure \/ DPPhaseDone \/ DPClearRetries
            \/ DPResetCursor
  BY <1>s, <1>12 DEF DPStart, DPInitCursor, DPStartProgress, DPWait, DPAdvanceCursor,
                     DPAdvanceProgress, DPRecordFailure, DPPhaseDone, DPClearRetries,
                     DPResetCursor, ClusterKept
<1>13. CASE EditDryRun \/ OperatorRestart \/ UNCHANGED vars
  BY <1>s, <1>13 DEF EditDryRun, OperatorRestart, vars, ClusterKept
<1> QED
  BY <1>1, <1>2, <1>3, <1>4, <1>5, <1>6, <1>7, <1>8, <1>9, <1>10, <1>11, <1>12, <1>13
  DEF Next, Controller, Environment

(***************************************************************************)
(* The controller implements AnchorRotation, for every number of          *)
(* workloads and allowed failures and every setting of the secrets        *)
(* trigger, bootstrap and retrigger, when the ConfigMap trigger is on and *)
(* cert-manager issues one new anchor.  In particular DeletePrevious      *)
(* (controller line 244) deletes the previous secret only once the        *)
(* control plane and every workload now selected, including those         *)
(* created during the data-plane rollout, trust the current anchor, and   *)
(* DeleteIssuer only once the published bundle holds it.                  *)
(***************************************************************************)
THEOREM AnchorRefined ==
  ASSUME OnConfigMapChange = TRUE, MaxGen = 2
  PROVE  Spec => AnchorRefinement
<1>1. Init => Anchor!Init
  <2> SUFFICES ASSUME Init PROVE Anchor!Init
    OBVIOUS
  <2>1. ItemsOf(workloads) \subseteq Items
    BY ListingItems DEF Init
  <2> QED BY <2>1 DEF Init, Anchor!Init
<1>2. Spec => []MembersTrusted
  <2>1. TypeOK /\ CleanupInvariant /\ MembersTrusted /\ [Next]_vars => MembersTrusted'
    BY MembersStep
  <2> QED BY <2>1, MembersInit, TypeCorrect, CleanupInvariantHolds, PTL DEF Spec
<1>3. TypeOK /\ CleanupInvariant /\ MembersTrusted /\ [Next]_vars => [Anchor!Next]_Anchor!avars
  BY RefineStep
<1> QED
  BY <1>1, <1>2, <1>3, TypeCorrect, CleanupInvariantHolds, PTL
  DEF Spec, AnchorRefinement, Anchor!Spec

=============================================================================
