------------------------- MODULE TrustRotationProofs -------------------------
(***************************************************************************)
(* Proofs about TrustRotation for every value of the constants: type      *)
(* correctness, and the failure budget of the max-retries guard.          *)
(***************************************************************************)
EXTENDS TrustRotation, TLAPS

\* The constants as the proofs use them.
LEMMA ConstantFacts ==
  /\ NItems \in Nat
  /\ MaxGen \in Nat \ {0}
  /\ MaxFailures \in Nat
PROOF BY NItemsAssumption, MaxGenAssumption, MaxFailuresAssumption

\* What the List calls return is a sequence of workloads.
LEMMA ListingsAreSeqs == Listings \subseteq Seq(Items)
PROOF BY ConstantFacts DEF Listings, Items

\* calcPercent always yields a percentage.
LEMMA CalcPercentRange ==
  ASSUME NEW c \in Int, NEW t \in Int
  PROVE  CalcPercent(c, t) \in 0..100
PROOF BY DEF CalcPercent

(***************************************************************************)
(* A well-typed status whose cursor lies within its plan.                 *)
(***************************************************************************)
StatusOK(s) ==
  /\ s \in Status
  /\ s.next \in 0..(IF s.planHash = None THEN 0 ELSE Len(s.planHash))

\* SetPhase keeps the status well typed and leaves the cursor and retries alone.
LEMMA SetPhaseOK ==
  ASSUME NEW s, StatusOK(s), NEW p \in Phases, NEW r \in Reasons
  PROVE  StatusOK(SetPhase(s, p, r)) /\ SetPhase(s, p, r).retries = s.retries
PROOF BY DEF StatusOK, SetPhase, Status

\* SetProgress keeps the status well typed and leaves the cursor and retries alone.
LEMMA SetProgressOK ==
  ASSUME NEW s, StatusOK(s), NEW cp \in BOOLEAN, NEW n \in 0..100
  PROVE  StatusOK(SetProgress(s, cp, n)) /\ SetProgress(s, cp, n).retries = s.retries
PROOF BY DEF StatusOK, SetProgress, Status, Progress

\* SetTrustInfo keeps the status well typed and leaves the cursor and retries alone.
LEMMA SetTrustInfoOK ==
  ASSUME NEW s, StatusOK(s), NEW t \in TrustInfo \cup {None}
  PROVE  StatusOK(SetTrustInfo(s, t)) /\ SetTrustInfo(s, t).retries = s.retries
PROOF BY DEF StatusOK, SetTrustInfo, Status

\* SetPlanHash with an index inside the plan keeps the status well typed.
LEMMA SetPlanHashOK ==
  ASSUME NEW s, StatusOK(s), NEW ref \in Items \cup {None}, NEW h \in Seq(Items),
         NEW n \in 0..Len(h)
  PROVE  StatusOK(SetPlanHash(s, ref, n, h)) /\ SetPlanHash(s, ref, n, h).retries = s.retries
<1>1. h # None BY NoneAssumption
<1>0. n \in Nat /\ h \in Seq(Items) \cup {None} OBVIOUS
<1>2. SetPlanHash(s, ref, n, h) \in Status BY <1>0 DEF StatusOK, SetPlanHash, Status
<1>3. SetPlanHash(s, ref, n, h).planHash = h /\ SetPlanHash(s, ref, n, h).next = n
  BY DEF StatusOK, SetPlanHash, Status
<1>4. SetPlanHash(s, ref, n, h).retries = s.retries BY DEF StatusOK, SetPlanHash, Status
<1> QED BY <1>1, <1>2, <1>3, <1>4 DEF StatusOK

\* SetRetry keeps the status well typed and sets the count.
LEMMA SetRetryOK ==
  ASSUME NEW s, StatusOK(s), NEW ref \in Items \cup {None}, NEW n \in Nat
  PROVE  StatusOK(SetRetry(s, ref, n)) /\ SetRetry(s, ref, n).retries = n
PROOF BY DEF StatusOK, SetRetry, Status

\* SetDryRunOutput keeps the status well typed and leaves the cursor and retries alone.
LEMMA SetDryRunOutputOK ==
  ASSUME NEW s, StatusOK(s), NEW out \in Seq(Items)
  PROVE  StatusOK(SetDryRunOutput(s, out)) /\ SetDryRunOutput(s, out).retries = s.retries
PROOF BY DEF StatusOK, SetDryRunOutput, Status, Phases, Reasons

(***************************************************************************)
(* TypeOK in three parts: the cluster, the persisted status, and the      *)
(* locals of the running reconcile.                                        *)
(***************************************************************************)
TypeCluster ==
  /\ cur \in Gens
  /\ prev \in 0..MaxGen
  /\ bundle \in SUBSET Gens
  /\ issuer \in 0..MaxGen
  /\ workloads \in Listings
  /\ trusted \in [Items -> SUBSET Gens]
  /\ cpTrusted \in SUBSET Gens
  /\ dryRun \in BOOLEAN

TypeLocal ==
  /\ pc \in Pcs
  /\ obs \in TrustInfo \cup {None}
  /\ queue \in Seq(Items)
  /\ i \in 0..Len(queue)
  /\ pc \in ItemPcs => i < Len(queue)
  /\ pass \in {1, 2}
  /\ queued \in BOOLEAN
  /\ doneUnder \in [Items -> TrustInfo \cup {None}]

LEMMA TypeOKParts == TypeOK <=> TypeCluster /\ StatusOK(st) /\ TypeLocal
PROOF BY DEF TypeOK, TypeCluster, StatusOK, TypeLocal

-----------------------------------------------------------------------------
(***************************************************************************)
(* Type correctness: every reachable state has the types TypeOK states,   *)
(* including the cursor bound next <= total of the persisted cursor and   *)
(* that the data-plane loop body only runs on an index inside its plan.  *)
(***************************************************************************)
THEOREM TypeCorrect == Spec => []TypeOK
<1>1. Init => TypeOK
  <2> SUFFICES ASSUME Init PROVE TypeCluster /\ StatusOK(st) /\ TypeLocal
    BY TypeOKParts
  <2>1. TypeCluster
    <3>1. 1 \in Gens BY ConstantFacts DEF Gens
    <3>2. trusted \in [Items -> SUBSET Gens] BY <3>1 DEF Init
    <3>3. prev \in 0..MaxGen /\ issuer \in 0..MaxGen BY ConstantFacts DEF Init
    <3> QED BY <3>1, <3>2, <3>3 DEF Init, TypeCluster
  <2>2. StatusOK(st) BY DEF Init, EmptyStatus, StatusOK, Status
  <2>3. TypeLocal
    <3>1. queued \in BOOLEAN BY DEF Init
    <3> QED BY <3>1 DEF Init, TypeLocal, Pcs, ItemPcs, NotDone
  <2> QED BY <2>1, <2>2, <2>3
<1>2. TypeOK /\ [Next]_vars => TypeOK'
  <2> SUFFICES ASSUME TypeCluster, StatusOK(st), TypeLocal, [Next]_vars
               PROVE  TypeCluster' /\ StatusOK(st') /\ TypeLocal'
    BY TypeOKParts DEF TypeOK, TypeCluster, StatusOK, TypeLocal
  <2> USE DEF Goto, clusterVars, localVars
  <2>1. CASE Reconcile
    <3>1. TypeCluster' BY <2>1, ConstantFacts DEF Reconcile, TypeCluster, Gens, Items
    <3>2. StatusOK(st')
      <4>1. StatusOK(SetPhase(st, "Idle", ""))
        BY SetPhaseOK DEF TypeLocal, Phases, Reasons
      <4> QED BY <2>1, <4>1 DEF Reconcile, PatchOr
    <3>3. TypeLocal' BY <2>1, ConstantFacts DEF Reconcile, PatchOr, TypeLocal, Pcs, ItemPcs, Gens, Items
    <3> QED BY <3>1, <3>2, <3>3
  <2>2. CASE ResetProgress
    <3>1. TypeCluster' BY <2>2, ConstantFacts DEF ResetProgress, TypeCluster, Gens, Items
    <3>2. StatusOK(st')
      <4>1. StatusOK(SetProgress(st, TRUE, CalcPercent(0, 0)))
        <5>1. CalcPercent(0, 0) \in 0..100
          BY ConstantFacts, CalcPercentRange DEF TypeLocal
        <5> QED BY <5>1, SetProgressOK
      <4> QED BY <2>2, <4>1 DEF ResetProgress, PatchOr
    <3>3. TypeLocal' BY <2>2, ConstantFacts DEF ResetProgress, PatchOr, TypeLocal, Pcs, ItemPcs, Gens, Items
    <3> QED BY <3>1, <3>2, <3>3
  <2>3. CASE DetectTrust
    <3>1. TypeCluster' BY <2>3, ConstantFacts DEF DetectTrust, EnsuredPrevious, CanEnsureTrustSecrets, TypeCluster, Gens, Items
    <3>2. StatusOK(st') BY <2>3 DEF DetectTrust, EnsuredPrevious, CanEnsureTrustSecrets
    <3>3. TypeLocal'
      <4>1. EnsuredPrevious \in Gens
        BY ConstantFacts DEF EnsuredPrevious, TypeCluster, Gens
      <4>2. obs' \in TrustInfo
        BY <2>3, <4>1 DEF DetectTrust, TrustInfo, TypeCluster
      <4> QED BY <2>3, <4>2 DEF DetectTrust, TypeLocal, Pcs, ItemPcs
    <3> QED BY <3>1, <3>2, <3>3
  <2>4. CASE RecordTrust
    <3>1. TypeCluster' BY <2>4, ConstantFacts DEF RecordTrust, RetriesExceeded, TypeCluster, Gens, Items
    <3>2. StatusOK(st')
      <4>1. StatusOK(SetTrustInfo(st, obs))
        BY SetTrustInfoOK DEF TypeLocal
      <4> QED BY <2>4, <4>1 DEF RecordTrust, RetriesExceeded, PatchOr
    <3>3. TypeLocal' BY <2>4, ConstantFacts DEF RecordTrust, RetriesExceeded, PatchOr, TypeLocal, Pcs, ItemPcs, Gens, Items
    <3> QED BY <3>1, <3>2, <3>3
  <2>5. CASE DryRunPlan
    <3>1. TypeCluster' BY <2>5, ConstantFacts DEF DryRunPlan, TypeCluster, Gens, Items
    <3>2. StatusOK(st')
      <4>1. StatusOK(SetDryRunOutput(st, workloads))
        BY SetDryRunOutputOK, ListingsAreSeqs DEF TypeCluster
      <4> QED BY <2>5, <4>1 DEF DryRunPlan, PatchOr
    <3>3. TypeLocal' BY <2>5, ConstantFacts DEF DryRunPlan, PatchOr, TypeLocal, Pcs, ItemPcs, Gens, Items
    <3> QED BY <3>1, <3>2, <3>3
  <2>6. CASE StopMaxRetries
    <3>1. TypeCluster' BY <2>6, ConstantFacts DEF StopMaxRetries, TypeCluster, Gens, Items
    <3>2. StatusOK(st')
      <4>1. StatusOK(SetPhase(st, "Failed", "ReasonMaxRetriesExceeded"))
        BY SetPhaseOK DEF TypeLocal, Phases, Reasons
      <4> QED BY <2>6, <4>1 DEF StopMaxRetries, PatchOr
    <3>3. TypeLocal' BY <2>6, ConstantFacts DEF StopMaxRetries, PatchOr, TypeLocal, Pcs, ItemPcs, Gens, Items
    <3> QED BY <3>1, <3>2, <3>3
  <2>7. CASE MarkDetecting
    <3>1. TypeCluster' BY <2>7, ConstantFacts DEF MarkDetecting, TypeCluster, Gens, Items
    <3>2. StatusOK(st')
      <4>1. StatusOK(SetPhase(st, "Detecting", "SecretsDiverged"))
        BY SetPhaseOK DEF TypeLocal, Phases, Reasons
      <4> QED BY <2>7, <4>1 DEF MarkDetecting, PatchOr
    <3>3. TypeLocal' BY <2>7, ConstantFacts DEF MarkDetecting, PatchOr, TypeLocal, Pcs, ItemPcs, Gens, Items
    <3> QED BY <3>1, <3>2, <3>3
  <2>8. CASE DeleteIssuer
    <3>1. TypeCluster' BY <2>8, ConstantFacts DEF DeleteIssuer, TypeCluster, Gens, Items
    <3>2. StatusOK(st') BY <2>8 DEF DeleteIssuer
    <3>3. TypeLocal' BY <2>8, ConstantFacts DEF DeleteIssuer, PatchOr, TypeLocal, Pcs, ItemPcs, Gens, Items
    <3> QED BY <3>1, <3>2, <3>3
  <2>9. CASE CPStart
    <3>1. TypeCluster' BY <2>9, ConstantFacts DEF CPStart, TypeCluster, Gens, Items
    <3>2. StatusOK(st')
      <4>1. StatusOK(SetPhase(st, "RollingCP", "ControlPlaneRestarting"))
        BY SetPhaseOK DEF TypeLocal, Phases, Reasons
      <4> QED BY <2>9, <4>1 DEF CPStart, PatchOr
    <3>3. TypeLocal' BY <2>9, ConstantFacts DEF CPStart, PatchOr, TypeLocal, Pcs, ItemPcs, Gens, Items
    <3> QED BY <3>1, <3>2, <3>3
  <2>10. CASE CPProgressFalse
    <3>1. TypeCluster' BY <2>10, ConstantFacts DEF CPProgressFalse, TypeCluster, Gens, Items
    <3>2. StatusOK(st')
      <4>1. StatusOK(SetProgress(st, FALSE, CalcPercent(0, 0)))
        <5>1. CalcPercent(0, 0) \in 0..100
          BY ConstantFacts, CalcPercentRange DEF TypeLocal
        <5> QED BY <5>1, SetProgressOK
      <4> QED BY <2>10, <4>1 DEF CPProgressFalse, PatchOr
    <3>3. TypeLocal' BY <2>10, ConstantFacts DEF CPProgressFalse, PatchOr, TypeLocal, Pcs, ItemPcs, Gens, Items
    <3> QED BY <3>1, <3>2, <3>3
  <2>11. CASE CPRestart
    <3>1. TypeCluster' BY <2>11, ConstantFacts DEF CPRestart, TypeCluster, Gens, Items
    <3>2. StatusOK(st') BY <2>11 DEF CPRestart
    <3>3. TypeLocal' BY <2>11, ConstantFacts DEF CPRestart, PatchOr, TypeLocal, Pcs, ItemPcs, Gens, Items
    <3> QED BY <3>1, <3>2, <3>3
  <2>12. CASE CPProgressTrue
    <3>1. TypeCluster' BY <2>12, ConstantFacts DEF CPProgressTrue, TypeCluster, Gens, Items
    <3>2. StatusOK(st')
      <4>1. StatusOK(SetProgress(st, TRUE, CalcPercent(0, 0)))
        <5>1. CalcPercent(0, 0) \in 0..100
          BY ConstantFacts, CalcPercentRange DEF TypeLocal
        <5> QED BY <5>1, SetProgressOK
      <4> QED BY <2>12, <4>1 DEF CPProgressTrue, PatchOr
    <3>3. TypeLocal' BY <2>12, ConstantFacts DEF CPProgressTrue, PatchOr, TypeLocal, Pcs, ItemPcs, Gens, Items
    <3> QED BY <3>1, <3>2, <3>3
  <2>13. CASE CPReady
    <3>1. TypeCluster' BY <2>13, ConstantFacts DEF CPReady, TypeCluster, Gens, Items
    <3>2. StatusOK(st')
      <4>1. StatusOK(SetPhase(st, "RollingCP", "ControlPlaneReady"))
        BY SetPhaseOK DEF TypeLocal, Phases, Reasons
      <4> QED BY <2>13, <4>1 DEF CPReady, PatchOr
    <3>3. TypeLocal' BY <2>13, ConstantFacts DEF CPReady, PatchOr, TypeLocal, Pcs, ItemPcs, Gens, Items
    <3> QED BY <3>1, <3>2, <3>3
  <2>14. CASE DPStart
    <3>1. TypeCluster' BY <2>14, ConstantFacts DEF DPStart, CanResume, TypeCluster, Gens, Items
    <3>2. StatusOK(st')
      <4>1. StatusOK(SetPhase(st, "RollingDP", "DataPlaneBatchRestarting"))
        BY SetPhaseOK DEF TypeLocal, Phases, Reasons
      <4> QED BY <2>14, <4>1 DEF DPStart, CanResume, PatchOr
    <3>3. TypeLocal'
      <4>1. queue' \in Seq(Items) BY <2>14, ListingsAreSeqs DEF DPStart, TypeCluster
      <4>2. st'.next \in Nat BY <3>2 DEF StatusOK, Status
      <4>3. i' \in 0..Len(queue') BY <2>14, <4>1, <4>2 DEF DPStart, CanResume
      <4>4. pc' \in Pcs \ ItemPcs BY <2>14 DEF DPStart, Pcs, ItemPcs
      <4> QED BY <2>14, <4>1, <4>3, <4>4 DEF DPStart, TypeLocal
    <3> QED BY <3>1, <3>2, <3>3
  <2>15. CASE DPInitCursor
    <3>1. TypeCluster' BY <2>15, ConstantFacts DEF DPInitCursor, NotDone, TypeCluster, Gens, Items
    <3>2. StatusOK(st')
      <4>1. StatusOK(SetPlanHash(st, None, 0, queue))
        <5>1. queue \in Seq(Items) /\ 0 \in 0..Len(queue) BY DEF TypeLocal
        <5> QED BY <5>1, SetPlanHashOK
      <4> QED BY <2>15, <4>1 DEF DPInitCursor, NotDone, PatchOr
    <3>3. TypeLocal' BY <2>15, ConstantFacts DEF DPInitCursor, NotDone, PatchOr, TypeLocal, Pcs, ItemPcs, Gens, Items
    <3> QED BY <3>1, <3>2, <3>3
  <2>16. CASE DPStartProgress
    <3>1. TypeCluster' BY <2>16, ConstantFacts DEF DPStartProgress, LoopAt, TypeCluster, Gens, Items
    <3>2. StatusOK(st')
      <4>1. StatusOK(SetProgress(st, TRUE, CalcPercent(i, Len(queue))))
        <5>1. CalcPercent(i, Len(queue)) \in 0..100
          BY ConstantFacts, CalcPercentRange DEF TypeLocal
        <5> QED BY <5>1, SetProgressOK
      <4> QED BY <2>16, <4>1 DEF DPStartProgress, LoopAt, PatchOr
    <3>3. TypeLocal' BY <2>16, ConstantFacts DEF DPStartProgress, LoopAt, PatchOr, TypeLocal, Pcs, ItemPcs, Gens, Items
    <3> QED BY <3>1, <3>2, <3>3
  <2>17. CASE DPBump
    <3>1. TypeCluster' BY <2>17, ConstantFacts DEF DPBump, TypeCluster, Gens, Items
    <3>2. StatusOK(st') BY <2>17 DEF DPBump
    <3>3. TypeLocal' BY <2>17, ConstantFacts DEF DPBump, PatchOr, TypeLocal, Pcs, ItemPcs, Gens, Items
    <3> QED BY <3>1, <3>2, <3>3
  <2>18. CASE DPWait
    <3>1. TypeCluster' BY <2>18, ConstantFacts DEF DPWait, TypeCluster, Gens, Items
    <3>2. StatusOK(st') BY <2>18 DEF DPWait
    <3>3. TypeLocal' BY <2>18, ConstantFacts DEF DPWait, PatchOr, TypeLocal, Pcs, ItemPcs, StatusOK, Status, Gens, Items
    <3> QED BY <3>1, <3>2, <3>3
  <2>19. CASE DPAdvanceCursor
    <3>1. TypeCluster' BY <2>19, ConstantFacts DEF DPAdvanceCursor, TypeCluster, Gens, Items
    <3>2. StatusOK(st')
      <4>1. StatusOK(SetPlanHash(st, queue[i + 1], i + 1, queue))
        <5>1. queue[i + 1] \in Items /\ i + 1 \in 0..Len(queue)
          BY <2>19 DEF DPAdvanceCursor, TypeLocal, ItemPcs
        <5> QED BY <5>1, SetPlanHashOK DEF TypeLocal
      <4> QED BY <2>19, <4>1 DEF DPAdvanceCursor, PatchOr
    <3>3. TypeLocal' BY <2>19, ConstantFacts DEF DPAdvanceCursor, PatchOr, TypeLocal, Pcs, ItemPcs, Gens, Items
    <3> QED BY <3>1, <3>2, <3>3
  <2>20. CASE DPAdvanceProgress
    <3>1. TypeCluster' BY <2>20, ConstantFacts DEF DPAdvanceProgress, LoopAt, TypeCluster, Gens, Items
    <3>2. StatusOK(st')
      <4>1. StatusOK(SetProgress(st, TRUE, CalcPercent(i + 1, Len(queue))))
        <5>1. CalcPercent(i + 1, Len(queue)) \in 0..100
          BY ConstantFacts, CalcPercentRange DEF TypeLocal
        <5> QED BY <5>1, SetProgressOK
      <4> QED BY <2>20, <4>1 DEF DPAdvanceProgress, LoopAt, PatchOr
    <3>3. TypeLocal'
      <4>1. i < Len(queue) /\ i \in Nat BY <2>20 DEF TypeLocal, ItemPcs, DPAdvanceProgress
      <4>2. /\ i' \in 0..Len(queue')
            /\ pc' \in Pcs
            /\ pc' \in ItemPcs => i' < Len(queue')
        <5>1. CASE st' = SetProgress(st, TRUE, CalcPercent(i + 1, Len(queue)))
                   /\ i' = i + 1 /\ Goto(LoopAt(i + 1))
          BY <5>1, <2>20, <4>1 DEF DPAdvanceProgress, LoopAt, Pcs, ItemPcs
        <5>2. CASE UNCHANGED i /\ Goto("DPRecordFailure")
          BY <5>2, <2>20, <4>1 DEF DPAdvanceProgress, Pcs, ItemPcs
        <5> QED BY <2>20, <5>1, <5>2 DEF DPAdvanceProgress
      <4> QED BY <2>20, <4>2 DEF DPAdvanceProgress, TypeLocal
    <3> QED BY <3>1, <3>2, <3>3
  <2>21. CASE DPRecordFailure
    <3>1. TypeCluster' BY <2>21, ConstantFacts DEF DPRecordFailure, TypeCluster, Gens, Items
    <3>2. StatusOK(st')
      <4>1. StatusOK(SetRetry(st, queue[i + 1], st.retries + 1))
        <5>1. queue[i + 1] \in Items BY <2>21 DEF DPRecordFailure, TypeLocal, ItemPcs
        <5>2. st.retries + 1 \in Nat BY DEF StatusOK, Status
        <5> QED BY <5>1, <5>2, SetRetryOK
      <4> QED BY <2>21, <4>1 DEF DPRecordFailure, PatchOr
    <3>3. TypeLocal' BY <2>21, ConstantFacts DEF DPRecordFailure, PatchOr, TypeLocal, Pcs, ItemPcs, Gens, Items
    <3> QED BY <3>1, <3>2, <3>3
  <2>22. CASE DPPhaseDone
    <3>1. TypeCluster' BY <2>22, ConstantFacts DEF DPPhaseDone, TypeCluster, Gens, Items
    <3>2. StatusOK(st')
      <4>1. StatusOK(SetPhase(st, "RollingDP", "DataPlaneThresholdReached"))
        BY SetPhaseOK DEF TypeLocal, Phases, Reasons
      <4> QED BY <2>22, <4>1 DEF DPPhaseDone, PatchOr
    <3>3. TypeLocal' BY <2>22, ConstantFacts DEF DPPhaseDone, PatchOr, TypeLocal, Pcs, ItemPcs, Gens, Items
    <3> QED BY <3>1, <3>2, <3>3
  <2>23. CASE DPClearRetries
    <3>1. TypeCluster' BY <2>23, ConstantFacts DEF DPClearRetries, TypeCluster, Gens, Items
    <3>2. StatusOK(st')
      <4>1. StatusOK(SetRetry(st, None, 0))
        BY SetRetryOK DEF TypeLocal
      <4> QED BY <2>23, <4>1 DEF DPClearRetries, PatchOr
    <3>3. TypeLocal' BY <2>23, ConstantFacts DEF DPClearRetries, PatchOr, TypeLocal, Pcs, ItemPcs, Gens, Items
    <3> QED BY <3>1, <3>2, <3>3
  <2>24. CASE DPResetCursor
    <3>1. TypeCluster' BY <2>24, ConstantFacts DEF DPResetCursor, NotDone, TypeCluster, Gens, Items
    <3>2. StatusOK(st')
      <4>1. StatusOK(SetPlanHash(st, None, 0, queue))
        <5>1. queue \in Seq(Items) /\ 0 \in 0..Len(queue) BY DEF TypeLocal
        <5> QED BY <5>1, SetPlanHashOK
      <4> QED BY <2>24, <4>1 DEF DPResetCursor, NotDone, PatchOr
    <3>3. TypeLocal' BY <2>24, ConstantFacts DEF DPResetCursor, NotDone, PatchOr, TypeLocal, Pcs, ItemPcs, Gens, Items
    <3> QED BY <3>1, <3>2, <3>3
  <2>25. CASE MarkFailed
    <3>1. TypeCluster' BY <2>25, ConstantFacts DEF MarkFailed, MarkFailedStatus, TypeCluster, Gens, Items
    <3>2. StatusOK(st')
      <4>1. StatusOK(SetPhase(st, "Failed", "RotationFailed"))
        BY SetPhaseOK DEF TypeLocal, Phases, Reasons
      <4> QED BY <2>25, <4>1 DEF MarkFailed, MarkFailedStatus, PatchOr
    <3>3. TypeLocal' BY <2>25, ConstantFacts DEF MarkFailed, MarkFailedStatus, PatchOr, TypeLocal, Pcs, ItemPcs, Gens, Items
    <3> QED BY <3>1, <3>2, <3>3
  <2>26. CASE DeletePrevious
    <3>1. TypeCluster' BY <2>26, ConstantFacts DEF DeletePrevious, TypeCluster, Gens, Items
    <3>2. StatusOK(st') BY <2>26 DEF DeletePrevious
    <3>3. TypeLocal' BY <2>26, ConstantFacts DEF DeletePrevious, PatchOr, TypeLocal, Pcs, ItemPcs, Gens, Items
    <3> QED BY <3>1, <3>2, <3>3
  <2>27. CASE RetriggerEnsure
    <3>1. TypeCluster' BY <2>27, ConstantFacts DEF RetriggerEnsure, EnsuredPrevious, CanEnsureTrustSecrets, TypeCluster, Gens, Items
    <3>2. StatusOK(st') BY <2>27 DEF RetriggerEnsure, EnsuredPrevious, CanEnsureTrustSecrets
    <3>3. TypeLocal' BY <2>27, ConstantFacts DEF RetriggerEnsure, EnsuredPrevious, CanEnsureTrustSecrets, PatchOr, TypeLocal, Pcs, ItemPcs, Gens, Items
    <3> QED BY <3>1, <3>2, <3>3
  <2>28. CASE MarkSucceeded
    <3>1. TypeCluster' BY <2>28, ConstantFacts DEF MarkSucceeded, MarkSucceededStatus, TypeCluster, Gens, Items
    <3>2. StatusOK(st')
      <4>1. StatusOK(SetPhase(st, "Succeeded", "Completed"))
        BY SetPhaseOK DEF TypeLocal, Phases, Reasons
      <4> QED BY <2>28, <4>1 DEF MarkSucceeded, MarkSucceededStatus, PatchOr
    <3>3. TypeLocal' BY <2>28, ConstantFacts DEF MarkSucceeded, MarkSucceededStatus, PatchOr, TypeLocal, Pcs, ItemPcs, Gens, Items
    <3> QED BY <3>1, <3>2, <3>3
  <2>29. CASE ReconcileAbort
    <3>1. TypeCluster' BY <2>29, ConstantFacts DEF ReconcileAbort, TypeCluster, Gens, Items
    <3>2. StatusOK(st') BY <2>29 DEF ReconcileAbort
    <3>3. TypeLocal' BY <2>29, ConstantFacts DEF ReconcileAbort, PatchOr, TypeLocal, Pcs, ItemPcs, Gens, Items
    <3> QED BY <3>1, <3>2, <3>3
  <2>30. CASE CertManagerRotate
    <3>1. TypeCluster' BY <2>30, ConstantFacts DEF CertManagerRotate, TypeCluster, Gens, Items
    <3>2. StatusOK(st') BY <2>30 DEF CertManagerRotate
    <3>3. TypeLocal' BY <2>30, ConstantFacts DEF CertManagerRotate, PatchOr, TypeLocal, Pcs, ItemPcs, Gens, Items
    <3> QED BY <3>1, <3>2, <3>3
  <2>31. CASE TrustManagerSync
    <3>1. TypeCluster' BY <2>31, ConstantFacts DEF TrustManagerSync, TypeCluster, Gens, Items
    <3>2. StatusOK(st') BY <2>31 DEF TrustManagerSync
    <3>3. TypeLocal' BY <2>31, ConstantFacts DEF TrustManagerSync, PatchOr, TypeLocal, Pcs, ItemPcs, Gens, Items
    <3> QED BY <3>1, <3>2, <3>3
  <2>32. CASE IssuerReissue
    <3>1. TypeCluster' BY <2>32, ConstantFacts DEF IssuerReissue, TypeCluster, Gens, Items
    <3>2. StatusOK(st') BY <2>32 DEF IssuerReissue
    <3>3. TypeLocal' BY <2>32, ConstantFacts DEF IssuerReissue, PatchOr, TypeLocal, Pcs, ItemPcs, Gens, Items
    <3> QED BY <3>1, <3>2, <3>3
  <2>33. CASE WorkloadsChange
    <3>1. TypeCluster' BY <2>33, ConstantFacts, ListingsAreSeqs DEF WorkloadsChange, TypeCluster, Gens, Items
    <3>2. StatusOK(st') BY <2>33 DEF WorkloadsChange
    <3>3. TypeLocal' BY <2>33, ConstantFacts DEF WorkloadsChange, PatchOr, TypeLocal, Pcs, ItemPcs, Gens, Items
    <3> QED BY <3>1, <3>2, <3>3
  <2>34. CASE EditDryRun
    <3>1. TypeCluster' BY <2>34, ConstantFacts DEF EditDryRun, TypeCluster, Gens, Items
    <3>2. StatusOK(st') BY <2>34 DEF EditDryRun
    <3>3. TypeLocal' BY <2>34, ConstantFacts DEF EditDryRun, PatchOr, TypeLocal, Pcs, ItemPcs, Gens, Items
    <3> QED BY <3>1, <3>2, <3>3
  <2>35. CASE OperatorRestart
    <3>1. TypeCluster' BY <2>35, ConstantFacts DEF OperatorRestart, TypeCluster, Gens, Items
    <3>2. StatusOK(st') BY <2>35 DEF OperatorRestart
    <3>3. TypeLocal' BY <2>35, ConstantFacts DEF OperatorRestart, TypeLocal, Pcs, ItemPcs, Gens, Items
    <3> QED BY <3>1, <3>2, <3>3
  <2>36. CASE UNCHANGED vars BY <2>36 DEF vars, TypeCluster, StatusOK, TypeLocal
  <2> QED
    BY <2>1, <2>2, <2>3, <2>4, <2>5, <2>6, <2>7, <2>8, <2>9, <2>10, <2>11, <2>12, <2>13, <2>14, <2>15, <2>16, <2>17, <2>18, <2>19, <2>20, <2>21, <2>22, <2>23, <2>24, <2>25, <2>26, <2>27, <2>28, <2>29, <2>30, <2>31, <2>32, <2>33, <2>34, <2>35, <2>36
    DEF Next, Controller, Environment
<1> QED BY <1>1, <1>2, PTL DEF Spec

-----------------------------------------------------------------------------
(***************************************************************************)
(* The retry counter.  Every status setter but SetRetry leaves it alone.  *)
(***************************************************************************)
LEMMA RetriesKept ==
  ASSUME NEW s \in Status, NEW a, NEW b, NEW c, NEW d
  PROVE  /\ SetPhase(s, a, b).retries = s.retries
         /\ SetProgress(s, a, b).retries = s.retries
         /\ SetTrustInfo(s, a).retries = s.retries
         /\ SetPlanHash(s, a, b, c).retries = s.retries
         /\ SetDryRunOutput(s, a).retries = s.retries
         /\ SetRetry(s, a, b).retries = b
PROOF BY DEF Status, SetPhase, SetProgress, SetTrustInfo, SetPlanHash,
             SetDryRunOutput, SetRetry

\* The steps up to and including the max-retries guard of the controller
\* (lines 81-206), and the failure exit that ends a reconcile.
PreCheckPcs == {"Idle", "Parked", "ResetProgress", "DetectTrust", "SetTrustInfo", "DryRun",
                "MaxRetries", "MarkFailed"}

\* Past the guard of line 192 the count is at most MaxFailures; one failure
\* recorded by recordFailure may take it one above, and then the reconcile
\* ends at MarkFailed.
RetryCheck ==
  /\ RetryBound
  /\ pc \notin PreCheckPcs => st.retries <= MaxFailures

(***************************************************************************)
(* RetryBound: the persisted retry count never exceeds MaxFailures + 1,   *)
(* for every MaxFailures.  The controller refuses to start a rotation     *)
(* once the count exceeds MaxFailures (line 192), and a rotation records  *)
(* at most one failure (recordFailure, then MarkFailed and return).       *)
(***************************************************************************)
THEOREM RetryBounded == Spec => []RetryBound
<1>1. Init => RetryCheck
  BY ConstantFacts DEF Init, EmptyStatus, RetryCheck, RetryBound, PreCheckPcs
<1>2. TypeOK /\ RetryCheck /\ [Next]_vars => RetryCheck'
  <2> SUFFICES ASSUME TypeOK, RetryCheck, [Next]_vars PROVE RetryCheck'
    OBVIOUS
  <2>0. st \in Status /\ st.retries \in Nat /\ MaxFailures \in Nat
    BY ConstantFacts DEF TypeOK, Status
  <2> USE DEF Goto, clusterVars, localVars
  <2>1. CASE Reconcile
    <3>1. st'.retries = st.retries
      <4>1. SetPhase(st, "Idle", "").retries = st.retries BY <2>0 DEF SetPhase, Status
      <4> QED BY <2>1, <4>1 DEF Reconcile
    <3> QED BY <2>1, <2>0, <3>1 DEF Reconcile, PatchOr, RetryCheck, RetryBound, PreCheckPcs
  <2>2. CASE ResetProgress
    <3>1. st'.retries = st.retries
      <4>1. SetProgress(st, TRUE, CalcPercent(0, 0)).retries = st.retries BY <2>0 DEF SetProgress, Status
      <4> QED BY <2>2, <4>1 DEF ResetProgress
    <3> QED BY <2>2, <2>0, <3>1 DEF ResetProgress, PatchOr, RetryCheck, RetryBound, PreCheckPcs
  <2>3. CASE DetectTrust
    <3>1. st'.retries = st.retries BY <2>3, <2>0, RetriesKept DEF DetectTrust, PatchOr
    <3> QED BY <2>3, <2>0, <3>1 DEF DetectTrust, PatchOr, RetryCheck, RetryBound, PreCheckPcs
  <2>4. CASE RecordTrust
    <3>1. st'.retries = st.retries BY <2>4, <2>0, RetriesKept DEF RecordTrust, RetriesExceeded, PatchOr
    <3> QED BY <2>4, <2>0, <3>1 DEF RecordTrust, RetriesExceeded, PatchOr, RetryCheck, RetryBound, PreCheckPcs
  <2>5. CASE DryRunPlan
    <3>1. st'.retries = st.retries BY <2>5, <2>0, RetriesKept DEF DryRunPlan, PatchOr
    <3> QED BY <2>5, <2>0, <3>1 DEF DryRunPlan, PatchOr, RetryCheck, RetryBound, PreCheckPcs
  <2>6. CASE StopMaxRetries
    <3>1. st'.retries = st.retries BY <2>6, <2>0, RetriesKept DEF StopMaxRetries, PatchOr
    <3> QED BY <2>6, <2>0, <3>1 DEF StopMaxRetries, PatchOr, RetryCheck, RetryBound, PreCheckPcs
  <2>7. CASE MarkDetecting
    <3>1. st'.retries = st.retries BY <2>7, <2>0, RetriesKept DEF MarkDetecting, PatchOr
    <3> QED BY <2>7, <2>0, <3>1 DEF MarkDetecting, PatchOr, RetryCheck, RetryBound, PreCheckPcs
  <2>8. CASE DeleteIssuer
    <3>1. st'.retries = st.retries BY <2>8, <2>0, RetriesKept DEF DeleteIssuer, PatchOr
    <3> QED BY <2>8, <2>0, <3>1 DEF DeleteIssuer, PatchOr, RetryCheck, RetryBound, PreCheckPcs
  <2>9. CASE CPStart
    <3>1. st'.retries = st.retries BY <2>9, <2>0, RetriesKept DEF CPStart, PatchOr
    <3> QED BY <2>9, <2>0, <3>1 DEF CPStart, PatchOr, RetryCheck, RetryBound, PreCheckPcs
  <2>10. CASE CPProgressFalse
    <3>1. st'.retries = st.retries
      <4>1. SetProgress(st, FALSE, CalcPercent(0, 0)).retries = st.retries BY <2>0 DEF SetProgress, Status
      <4> QED BY <2>10, <4>1 DEF CPProgressFalse, PatchOr
    <3> QED BY <2>10, <2>0, <3>1 DEF CPProgressFalse, PatchOr, RetryCheck, RetryBound, PreCheckPcs
  <2>11. CASE CPRestart
    <3>1. st'.retries = st.retries BY <2>11, <2>0, RetriesKept DEF CPRestart, PatchOr
    <3> QED BY <2>11, <2>0, <3>1 DEF CPRestart, PatchOr, RetryCheck, RetryBound, PreCheckPcs
  <2>12. CASE CPProgressTrue
    <3>1. st'.retries = st.retries
      <4>1. SetProgress(st, TRUE, CalcPercent(0, 0)).retries = st.retries BY <2>0 DEF SetProgress, Status
      <4> QED BY <2>12, <4>1 DEF CPProgressTrue, PatchOr
    <3> QED BY <2>12, <2>0, <3>1 DEF CPProgressTrue, PatchOr, RetryCheck, RetryBound, PreCheckPcs
  <2>13. CASE CPReady
    <3>1. st'.retries = st.retries BY <2>13, <2>0, RetriesKept DEF CPReady, PatchOr
    <3> QED BY <2>13, <2>0, <3>1 DEF CPReady, PatchOr, RetryCheck, RetryBound, PreCheckPcs
  <2>14. CASE DPStart
    <3>1. st'.retries = st.retries BY <2>14, <2>0, RetriesKept DEF DPStart, CanResume, PatchOr
    <3> QED BY <2>14, <2>0, <3>1 DEF DPStart, CanResume, PatchOr, RetryCheck, RetryBound, PreCheckPcs
  <2>15. CASE DPInitCursor
    <3>1. st'.retries = st.retries BY <2>15, <2>0, RetriesKept DEF DPInitCursor, PatchOr
    <3> QED BY <2>15, <2>0, <3>1 DEF DPInitCursor, PatchOr, RetryCheck, RetryBound, PreCheckPcs
  <2>16. CASE DPStartProgress
    <3>1. st'.retries = st.retries
      <4>1. SetProgress(st, TRUE, CalcPercent(i, Len(queue))).retries = st.retries BY <2>0 DEF SetProgress, Status
      <4> QED BY <2>16, <4>1 DEF DPStartProgress, PatchOr
    <3> QED BY <2>16, <2>0, <3>1 DEF DPStartProgress, LoopAt, PatchOr, RetryCheck, RetryBound, PreCheckPcs
  <2>17. CASE DPBump
    <3>1. st'.retries = st.retries BY <2>17, <2>0, RetriesKept DEF DPBump, PatchOr
    <3> QED BY <2>17, <2>0, <3>1 DEF DPBump, PatchOr, RetryCheck, RetryBound, PreCheckPcs
  <2>18. CASE DPWait
    <3>1. st'.retries = st.retries BY <2>18, <2>0, RetriesKept DEF DPWait, PatchOr
    <3> QED BY <2>18, <2>0, <3>1 DEF DPWait, PatchOr, RetryCheck, RetryBound, PreCheckPcs
  <2>19. CASE DPAdvanceCursor
    <3>1. st'.retries = st.retries BY <2>19, <2>0, RetriesKept DEF DPAdvanceCursor, PatchOr
    <3> QED BY <2>19, <2>0, <3>1 DEF DPAdvanceCursor, PatchOr, RetryCheck, RetryBound, PreCheckPcs
  <2>20. CASE DPAdvanceProgress
    <3>1. st'.retries = st.retries
      <4>1. SetProgress(st, TRUE, CalcPercent(i + 1, Len(queue))).retries = st.retries BY <2>0 DEF SetProgress, Status
      <4> QED BY <2>20, <4>1 DEF DPAdvanceProgress
    <3> QED BY <2>20, <2>0, <3>1 DEF DPAdvanceProgress, LoopAt, PatchOr, RetryCheck, RetryBound, PreCheckPcs
  <2>21. CASE DPRecordFailure
    <3>1. st'.retries \in {st.retries, st.retries + 1} /\ pc' = "MarkFailed"
      BY <2>21, <2>0, RetriesKept DEF DPRecordFailure
    <3>2. st.retries <= MaxFailures BY <2>21 DEF RetryCheck, PreCheckPcs, DPRecordFailure
    <3> QED BY <2>0, <3>1, <3>2 DEF RetryCheck, RetryBound, PreCheckPcs
  <2>22. CASE DPPhaseDone
    <3>1. st'.retries = st.retries BY <2>22, <2>0, RetriesKept DEF DPPhaseDone, PatchOr
    <3> QED BY <2>22, <2>0, <3>1 DEF DPPhaseDone, PatchOr, RetryCheck, RetryBound, PreCheckPcs
  <2>23. CASE DPClearRetries
    <3>1. st'.retries \in {0, st.retries} BY <2>23, <2>0, RetriesKept DEF DPClearRetries, PatchOr
    <3> QED BY <2>23, <2>0, <3>1 DEF DPClearRetries, PatchOr, RetryCheck, RetryBound, PreCheckPcs
  <2>24. CASE DPResetCursor
    <3>1. st'.retries = st.retries BY <2>24, <2>0, RetriesKept DEF DPResetCursor, PatchOr
    <3> QED BY <2>24, <2>0, <3>1 DEF DPResetCursor, PatchOr, RetryCheck, RetryBound, PreCheckPcs
  <2>25. CASE MarkFailed
    <3>1. st'.retries = st.retries BY <2>25, <2>0, RetriesKept DEF MarkFailed, MarkFailedStatus, PatchOr
    <3> QED BY <2>25, <2>0, <3>1 DEF MarkFailed, MarkFailedStatus, PatchOr, RetryCheck, RetryBound, PreCheckPcs
  <2>26. CASE DeletePrevious
    <3>1. st'.retries = st.retries BY <2>26, <2>0, RetriesKept DEF DeletePrevious, PatchOr
    <3> QED BY <2>26, <2>0, <3>1 DEF DeletePrevious, PatchOr, RetryCheck, RetryBound, PreCheckPcs
  <2>27. CASE RetriggerEnsure
    <3>1. st'.retries = st.retries BY <2>27, <2>0, RetriesKept DEF RetriggerEnsure, PatchOr
    <3> QED BY <2>27, <2>0, <3>1 DEF RetriggerEnsure, PatchOr, RetryCheck, RetryBound, PreCheckPcs
  <2>28. CASE MarkSucceeded
    <3>1. st'.retries = st.retries BY <2>28, <2>0, RetriesKept DEF MarkSucceeded, MarkSucceededStatus, PatchOr
    <3> QED BY <2>28, <2>0, <3>1 DEF MarkSucceeded, MarkSucceededStatus, PatchOr, RetryCheck, RetryBound, PreCheckPcs
  <2>29. CASE ReconcileAbort
    <3>1. st'.retries = st.retries BY <2>29, <2>0, RetriesKept DEF ReconcileAbort, PatchOr
    <3> QED BY <2>29, <2>0, <3>1 DEF ReconcileAbort, PatchOr, RetryCheck, RetryBound, PreCheckPcs
  <2>30. CASE CertManagerRotate
    <3>1. st'.retries = st.retries BY <2>30, <2>0, RetriesKept DEF CertManagerRotate, PatchOr
    <3> QED BY <2>30, <2>0, <3>1 DEF CertManagerRotate, PatchOr, RetryCheck, RetryBound, PreCheckPcs
  <2>31. CASE TrustManagerSync
    <3>1. st'.retries = st.retries BY <2>31, <2>0, RetriesKept DEF TrustManagerSync, PatchOr
    <3> QED BY <2>31, <2>0, <3>1 DEF TrustManagerSync, PatchOr, RetryCheck, RetryBound, PreCheckPcs
  <2>32. CASE IssuerReissue
    <3>1. st'.retries = st.retries BY <2>32, <2>0, RetriesKept DEF IssuerReissue, PatchOr
    <3> QED BY <2>32, <2>0, <3>1 DEF IssuerReissue, PatchOr, RetryCheck, RetryBound, PreCheckPcs
  <2>33. CASE WorkloadsChange
    <3>1. st'.retries = st.retries BY <2>33, <2>0, RetriesKept DEF WorkloadsChange, PatchOr
    <3> QED BY <2>33, <2>0, <3>1 DEF WorkloadsChange, PatchOr, RetryCheck, RetryBound, PreCheckPcs
  <2>34. CASE EditDryRun
    <3>1. st'.retries = st.retries BY <2>34, <2>0, RetriesKept DEF EditDryRun, PatchOr
    <3> QED BY <2>34, <2>0, <3>1 DEF EditDryRun, PatchOr, RetryCheck, RetryBound, PreCheckPcs
  <2>35. CASE OperatorRestart
    BY <2>35, <2>0 DEF OperatorRestart, RetryCheck, RetryBound, PreCheckPcs
  <2>36. CASE UNCHANGED vars BY <2>36 DEF vars, RetryCheck, RetryBound
  <2> QED
    BY <2>1, <2>2, <2>3, <2>4, <2>5, <2>6, <2>7, <2>8, <2>9, <2>10, <2>11, <2>12, <2>13, <2>14, <2>15, <2>16, <2>17, <2>18, <2>19, <2>20, <2>21, <2>22, <2>23, <2>24, <2>25, <2>26, <2>27, <2>28, <2>29, <2>30, <2>31, <2>32, <2>33, <2>34, <2>35, <2>36
    DEF Next, Controller, Environment
<1>3. RetryCheck => RetryBound BY DEF RetryCheck
<1> QED BY <1>1, <1>2, <1>3, TypeCorrect, PTL DEF Spec

=============================================================================
