------------------------------ MODULE CursorProofs ------------------------------
(***************************************************************************)
(* The rollout engine implements the cursor promise of ResumeCursor, for  *)
(* every value of the constants, and so the persisted cursor is sound:    *)
(* CursorSound holds in every reachable state.                            *)
(***************************************************************************)
EXTENDS TrustRotationProofs

\* The loop steps at which the persisted cursor is the loop's cursor.
LoopPcs == {"DPStartProgress", "DPBump", "DPWait", "DPAdvanceCursor"}

\* The steps of a reconcile before SetTrustInfo has been written.
EarlyPcs == {"Idle", "Parked", "ResetProgress", "DetectTrust", "SetTrustInfo"}

(***************************************************************************)
(* The inductive invariant behind the refinement.                         *)
(*  - Before the first cursor write nothing counts as done.               *)
(*  - Inside the loop the persisted cursor is (queue, i), and (queue,     *)
(*    i + 1) between the cursor write and the progress write of           *)
(*    bumpProgress; a fresh cursor is written only with i = 0.            *)
(*  - At the cursor write the item's wait has returned.                   *)
(*  - Past SetTrustInfo the status holds a trust record, which DPWait     *)
(*    stamps on the item, so a returned wait always counts as done.       *)
(***************************************************************************)
NoPlanNoDone == st.planHash = None => doneUnder = NotDone
LoopCursor == pc \in LoopPcs => st.planHash = queue /\ st.next = i
AdvancedCursor == pc = "DPAdvanceProgress" => st.planHash = queue /\ st.next = i + 1
WaitedItem == pc = "DPAdvanceCursor" => doneUnder[queue[i + 1]] # None
FreshInit == pc = "DPInitCursor" => i = 0
ObsSet == pc = "SetTrustInfo" => obs \in TrustInfo
TrustSet == st.trust = None => pc \in EarlyPcs

CursorInvariant ==
  /\ NoPlanNoDone /\ LoopCursor /\ AdvancedCursor /\ WaitedItem
  /\ FreshInit /\ ObsSet /\ TrustSet

\* A status that has the same cursor and trust record as st.
KeepsCursor(s) == s.planHash = st.planHash /\ s.next = st.next /\ s.trust = st.trust

\* One step of the cursor promise, or a stutter of it.
CursorStep == [Cursor!CNext]_(Cursor!cvars)

\* The set of workloads ResumeCursor counts as done.
DoneSet(du) == {w \in Items : du[w] # None}

\* A step that changes neither the cursor nor doneUnder is a stutter.
LEMMA CursorStutter ==
  ASSUME st'.planHash = st.planHash, st'.next = st.next, doneUnder' = doneUnder
  PROVE  CursorStep
PROOF BY DEF CursorStep, Cursor!cvars

\* Resetting doneUnder to NotDone, with a plan of workloads, is a Start.
LEMMA CursorStart ==
  ASSUME st'.planHash \in Seq(Items), st'.next = 0, doneUnder' = NotDone
  PROVE  CursorStep
PROOF BY DEF CursorStep, Cursor!CNext, Cursor!Start, NotDone

(***************************************************************************)
(* The refinement: every behaviour of TrustRotation, seen through the     *)
(* persisted cursor and doneUnder, is a behaviour of ResumeCursor.        *)
(***************************************************************************)
THEOREM CursorRefined == Spec => CursorRefinement
<1>1. Init => CursorInvariant /\ Cursor!CInit
  BY DEF Init, EmptyStatus, NotDone, Cursor!CInit, CursorInvariant, NoPlanNoDone,
         LoopCursor, AdvancedCursor, WaitedItem, FreshInit, ObsSet, TrustSet, LoopPcs, EarlyPcs
<1>2. TypeOK /\ CursorInvariant /\ [Next]_vars => CursorInvariant' /\ CursorStep
  <2> SUFFICES ASSUME TypeOK, CursorInvariant, [Next]_vars
               PROVE  CursorInvariant' /\ CursorStep
    OBVIOUS
  <2> USE DEF Goto, clusterVars, localVars
  <2>0. /\ StatusOK(st) /\ st \in Status
        /\ st.planHash \in Seq(Items) \cup {None}
        /\ TypeCluster /\ TypeLocal
        /\ None \notin Seq(Items) /\ None \notin TrustInfo
    BY TypeOKParts, NoneAssumption, NoneTrustAssumption DEF StatusOK, Status
  <2>1. CASE Reconcile
    <3>1. KeepsCursor(SetPhase(st, "Idle", ""))
      BY <2>0 DEF KeepsCursor, SetPhase, Status
    <3>2. KeepsCursor(st') /\ doneUnder' = doneUnder
      BY <2>1, <3>1 DEF Reconcile, KeepsCursor
    <3>3. CursorInvariant'
      BY <2>1, <2>0, <3>2 DEF Reconcile, KeepsCursor, CursorInvariant, NoPlanNoDone, LoopCursor, AdvancedCursor, WaitedItem, FreshInit, ObsSet, TrustSet, LoopPcs, EarlyPcs
    <3> QED BY <3>2, <3>3, CursorStutter DEF KeepsCursor
  <2>2. CASE ResetProgress
    <3>1. KeepsCursor(SetProgress(st, TRUE, CalcPercent(0, 0)))
      BY <2>0 DEF KeepsCursor, SetProgress, Status
    <3>2. KeepsCursor(st') /\ doneUnder' = doneUnder
      BY <2>2, <3>1 DEF ResetProgress, KeepsCursor
    <3>3. CursorInvariant'
      BY <2>2, <2>0, <3>2 DEF ResetProgress, KeepsCursor, CursorInvariant, NoPlanNoDone, LoopCursor, AdvancedCursor, WaitedItem, FreshInit, ObsSet, TrustSet, LoopPcs, EarlyPcs
    <3> QED BY <3>2, <3>3, CursorStutter DEF KeepsCursor
  <2>3. CASE DryRunPlan
    <3>1. KeepsCursor(SetDryRunOutput(st, workloads))
      BY <2>0 DEF KeepsCursor, SetDryRunOutput, Status
    <3>2. KeepsCursor(st') /\ doneUnder' = doneUnder
      BY <2>3, <3>1 DEF DryRunPlan, KeepsCursor
    <3>3. CursorInvariant'
      BY <2>3, <2>0, <3>2 DEF DryRunPlan, KeepsCursor, CursorInvariant, NoPlanNoDone, LoopCursor, AdvancedCursor, WaitedItem, FreshInit, ObsSet, TrustSet, LoopPcs, EarlyPcs
    <3> QED BY <3>2, <3>3, CursorStutter DEF KeepsCursor
  <2>4. CASE StopMaxRetries
    <3>1. KeepsCursor(SetPhase(st, "Failed", "ReasonMaxRetriesExceeded"))
      BY <2>0 DEF KeepsCursor, SetPhase, Status
    <3>2. KeepsCursor(st') /\ doneUnder' = doneUnder
      BY <2>4, <3>1 DEF StopMaxRetries, KeepsCursor
    <3>3. CursorInvariant'
      BY <2>4, <2>0, <3>2 DEF StopMaxRetries, KeepsCursor, CursorInvariant, NoPlanNoDone, LoopCursor, AdvancedCursor, WaitedItem, FreshInit, ObsSet, TrustSet, LoopPcs, EarlyPcs
    <3> QED BY <3>2, <3>3, CursorStutter DEF KeepsCursor
  <2>5. CASE MarkDetecting
    <3>1. KeepsCursor(SetPhase(st, "Detecting", "SecretsDiverged"))
      BY <2>0 DEF KeepsCursor, SetPhase, Status
    <3>2. KeepsCursor(st') /\ doneUnder' = doneUnder
      BY <2>5, <3>1 DEF MarkDetecting, KeepsCursor
    <3>3. CursorInvariant'
      BY <2>5, <2>0, <3>2 DEF MarkDetecting, KeepsCursor, CursorInvariant, NoPlanNoDone, LoopCursor, AdvancedCursor, WaitedItem, FreshInit, ObsSet, TrustSet, LoopPcs, EarlyPcs
    <3> QED BY <3>2, <3>3, CursorStutter DEF KeepsCursor
  <2>6. CASE CPStart
    <3>1. KeepsCursor(SetPhase(st, "RollingCP", "ControlPlaneRestarting"))
      BY <2>0 DEF KeepsCursor, SetPhase, Status
    <3>2. KeepsCursor(st') /\ doneUnder' = doneUnder
      BY <2>6, <3>1 DEF CPStart, PatchOr, KeepsCursor
    <3>3. CursorInvariant'
      BY <2>6, <2>0, <3>2 DEF CPStart, PatchOr, KeepsCursor, CursorInvariant, NoPlanNoDone, LoopCursor, AdvancedCursor, WaitedItem, FreshInit, ObsSet, TrustSet, LoopPcs, EarlyPcs
    <3> QED BY <3>2, <3>3, CursorStutter DEF KeepsCursor
  <2>7. CASE CPProgressFalse
    <3>1. KeepsCursor(SetProgress(st, FALSE, CalcPercent(0, 0)))
      BY <2>0 DEF KeepsCursor, SetProgress, Status
    <3>2. KeepsCursor(st') /\ doneUnder' = doneUnder
      BY <2>7, <3>1 DEF CPProgressFalse, PatchOr, KeepsCursor
    <3>3. CursorInvariant'
      BY <2>7, <2>0, <3>2 DEF CPProgressFalse, PatchOr, KeepsCursor, CursorInvariant, NoPlanNoDone, LoopCursor, AdvancedCursor, WaitedItem, FreshInit, ObsSet, TrustSet, LoopPcs, EarlyPcs
    <3> QED BY <3>2, <3>3, CursorStutter DEF KeepsCursor
  <2>8. CASE CPProgressTrue
    <3>1. KeepsCursor(SetProgress(st, TRUE, CalcPercent(0, 0)))
      BY <2>0 DEF KeepsCursor, SetProgress, Status
    <3>2. KeepsCursor(st') /\ doneUnder' = doneUnder
      BY <2>8, <3>1 DEF CPProgressTrue, PatchOr, KeepsCursor
    <3>3. CursorInvariant'
      BY <2>8, <2>0, <3>2 DEF CPProgressTrue, PatchOr, KeepsCursor, CursorInvariant, NoPlanNoDone, LoopCursor, AdvancedCursor, WaitedItem, FreshInit, ObsSet, TrustSet, LoopPcs, EarlyPcs
    <3> QED BY <3>2, <3>3, CursorStutter DEF KeepsCursor
  <2>9. CASE CPReady
    <3>1. KeepsCursor(SetPhase(st, "RollingCP", "ControlPlaneReady"))
      BY <2>0 DEF KeepsCursor, SetPhase, Status
    <3>2. KeepsCursor(st') /\ doneUnder' = doneUnder
      BY <2>9, <3>1 DEF CPReady, PatchOr, KeepsCursor
    <3>3. CursorInvariant'
      BY <2>9, <2>0, <3>2 DEF CPReady, PatchOr, KeepsCursor, CursorInvariant, NoPlanNoDone, LoopCursor, AdvancedCursor, WaitedItem, FreshInit, ObsSet, TrustSet, LoopPcs, EarlyPcs
    <3> QED BY <3>2, <3>3, CursorStutter DEF KeepsCursor
  <2>10. CASE DPStartProgress
    <3>1. KeepsCursor(SetProgress(st, TRUE, CalcPercent(i, Len(queue))))
      BY <2>0 DEF KeepsCursor, SetProgress, Status
    <3>2. KeepsCursor(st') /\ doneUnder' = doneUnder
      BY <2>10, <3>1 DEF DPStartProgress, PatchOr, LoopAt, KeepsCursor
    <3>3. CursorInvariant'
      BY <2>10, <2>0, <3>2 DEF DPStartProgress, PatchOr, LoopAt, KeepsCursor, CursorInvariant, NoPlanNoDone, LoopCursor, AdvancedCursor, WaitedItem, FreshInit, ObsSet, TrustSet, LoopPcs, EarlyPcs
    <3> QED BY <3>2, <3>3, CursorStutter DEF KeepsCursor
  <2>11. CASE DPAdvanceProgress
    <3>1. KeepsCursor(SetProgress(st, TRUE, CalcPercent(i + 1, Len(queue))))
      BY <2>0 DEF KeepsCursor, SetProgress, Status
    <3>2. KeepsCursor(st') /\ doneUnder' = doneUnder
      BY <2>11, <3>1 DEF DPAdvanceProgress, LoopAt, KeepsCursor
    <3>3. CursorInvariant'
      BY <2>11, <2>0, <3>2 DEF DPAdvanceProgress, LoopAt, KeepsCursor, CursorInvariant, NoPlanNoDone, LoopCursor, AdvancedCursor, WaitedItem, FreshInit, ObsSet, TrustSet, LoopPcs, EarlyPcs
    <3> QED BY <3>2, <3>3, CursorStutter DEF KeepsCursor
  <2>12. CASE DPRecordFailure
    <3>1. KeepsCursor(SetRetry(st, queue[i + 1], st.retries + 1))
      BY <2>0 DEF KeepsCursor, SetRetry, Status
    <3>2. KeepsCursor(st') /\ doneUnder' = doneUnder
      BY <2>12, <3>1 DEF DPRecordFailure, KeepsCursor
    <3>3. CursorInvariant'
      BY <2>12, <2>0, <3>2 DEF DPRecordFailure, KeepsCursor, CursorInvariant, NoPlanNoDone, LoopCursor, AdvancedCursor, WaitedItem, FreshInit, ObsSet, TrustSet, LoopPcs, EarlyPcs
    <3> QED BY <3>2, <3>3, CursorStutter DEF KeepsCursor
  <2>13. CASE DPPhaseDone
    <3>1. KeepsCursor(SetPhase(st, "RollingDP", "DataPlaneThresholdReached"))
      BY <2>0 DEF KeepsCursor, SetPhase, Status
    <3>2. KeepsCursor(st') /\ doneUnder' = doneUnder
      BY <2>13, <3>1 DEF DPPhaseDone, PatchOr, KeepsCursor
    <3>3. CursorInvariant'
      BY <2>13, <2>0, <3>2 DEF DPPhaseDone, PatchOr, KeepsCursor, CursorInvariant, NoPlanNoDone, LoopCursor, AdvancedCursor, WaitedItem, FreshInit, ObsSet, TrustSet, LoopPcs, EarlyPcs
    <3> QED BY <3>2, <3>3, CursorStutter DEF KeepsCursor
  <2>14. CASE DPClearRetries
    <3>1. KeepsCursor(SetRetry(st, None, 0))
      BY <2>0 DEF KeepsCursor, SetRetry, Status
    <3>2. KeepsCursor(st') /\ doneUnder' = doneUnder
      BY <2>14, <3>1 DEF DPClearRetries, PatchOr, KeepsCursor
    <3>3. CursorInvariant'
      BY <2>14, <2>0, <3>2 DEF DPClearRetries, PatchOr, KeepsCursor, CursorInvariant, NoPlanNoDone, LoopCursor, AdvancedCursor, WaitedItem, FreshInit, ObsSet, TrustSet, LoopPcs, EarlyPcs
    <3> QED BY <3>2, <3>3, CursorStutter DEF KeepsCursor
  <2>15. CASE MarkFailed
    <3>1. KeepsCursor(MarkFailedStatus(st))
      BY <2>0 DEF KeepsCursor, MarkFailedStatus, SetPhase, Status
    <3>2. KeepsCursor(st') /\ doneUnder' = doneUnder
      BY <2>15, <3>1 DEF MarkFailed, KeepsCursor
    <3>3. CursorInvariant'
      BY <2>15, <2>0, <3>2 DEF MarkFailed, KeepsCursor, CursorInvariant, NoPlanNoDone, LoopCursor, AdvancedCursor, WaitedItem, FreshInit, ObsSet, TrustSet, LoopPcs, EarlyPcs
    <3> QED BY <3>2, <3>3, CursorStutter DEF KeepsCursor
  <2>16. CASE MarkSucceeded
    <3>1. KeepsCursor(MarkSucceededStatus(st))
      BY <2>0 DEF KeepsCursor, MarkSucceededStatus, SetPhase, Status
    <3>2. KeepsCursor(st') /\ doneUnder' = doneUnder
      BY <2>16, <3>1 DEF MarkSucceeded, KeepsCursor
    <3>3. CursorInvariant'
      BY <2>16, <2>0, <3>2 DEF MarkSucceeded, KeepsCursor, CursorInvariant, NoPlanNoDone, LoopCursor, AdvancedCursor, WaitedItem, FreshInit, ObsSet, TrustSet, LoopPcs, EarlyPcs
    <3> QED BY <3>2, <3>3, CursorStutter DEF KeepsCursor
  <2>17. CASE DeleteIssuer
    <3>1. KeepsCursor(st') /\ doneUnder' = doneUnder
      BY <2>17 DEF DeleteIssuer, KeepsCursor
    <3>2. CursorInvariant'
      BY <2>17, <2>0, <3>1 DEF DeleteIssuer, KeepsCursor, CursorInvariant, NoPlanNoDone, LoopCursor, AdvancedCursor, WaitedItem, FreshInit, ObsSet, TrustSet, LoopPcs, EarlyPcs
    <3> QED BY <3>1, <3>2, CursorStutter DEF KeepsCursor
  <2>18. CASE CPRestart
    <3>1. KeepsCursor(st') /\ doneUnder' = doneUnder
      BY <2>18 DEF CPRestart, KeepsCursor
    <3>2. CursorInvariant'
      BY <2>18, <2>0, <3>1 DEF CPRestart, KeepsCursor, CursorInvariant, NoPlanNoDone, LoopCursor, AdvancedCursor, WaitedItem, FreshInit, ObsSet, TrustSet, LoopPcs, EarlyPcs
    <3> QED BY <3>1, <3>2, CursorStutter DEF KeepsCursor
  <2>19. CASE DPBump
    <3>1. KeepsCursor(st') /\ doneUnder' = doneUnder
      BY <2>19 DEF DPBump, KeepsCursor
    <3>2. CursorInvariant'
      BY <2>19, <2>0, <3>1 DEF DPBump, KeepsCursor, CursorInvariant, NoPlanNoDone, LoopCursor, AdvancedCursor, WaitedItem, FreshInit, ObsSet, TrustSet, LoopPcs, EarlyPcs
    <3> QED BY <3>1, <3>2, CursorStutter DEF KeepsCursor
  <2>20. CASE DeletePrevious
    <3>1. KeepsCursor(st') /\ doneUnder' = doneUnder
      BY <2>20 DEF DeletePrevious, KeepsCursor
    <3>2. CursorInvariant'
      BY <2>20, <2>0, <3>1 DEF DeletePrevious, KeepsCursor, CursorInvariant, NoPlanNoDone, LoopCursor, AdvancedCursor, WaitedItem, FreshInit, ObsSet, TrustSet, LoopPcs, EarlyPcs
    <3> QED BY <3>1, <3>2, CursorStutter DEF KeepsCursor
  <2>21. CASE RetriggerEnsure
    <3>1. KeepsCursor(st') /\ doneUnder' = doneUnder
      BY <2>21 DEF RetriggerEnsure, KeepsCursor
    <3>2. CursorInvariant'
      BY <2>21, <2>0, <3>1 DEF RetriggerEnsure, KeepsCursor, CursorInvariant, NoPlanNoDone, LoopCursor, AdvancedCursor, WaitedItem, FreshInit, ObsSet, TrustSet, LoopPcs, EarlyPcs
    <3> QED BY <3>1, <3>2, CursorStutter DEF KeepsCursor
  <2>22. CASE ReconcileAbort
    <3>1. KeepsCursor(st') /\ doneUnder' = doneUnder
      BY <2>22 DEF ReconcileAbort, KeepsCursor
    <3>2. CursorInvariant'
      BY <2>22, <2>0, <3>1 DEF ReconcileAbort, KeepsCursor, CursorInvariant, NoPlanNoDone, LoopCursor, AdvancedCursor, WaitedItem, FreshInit, ObsSet, TrustSet, LoopPcs, EarlyPcs
    <3> QED BY <3>1, <3>2, CursorStutter DEF KeepsCursor
  <2>23. CASE CertManagerRotate
    <3>1. KeepsCursor(st') /\ doneUnder' = doneUnder
      BY <2>23 DEF CertManagerRotate, KeepsCursor
    <3>2. CursorInvariant'
      BY <2>23, <2>0, <3>1 DEF CertManagerRotate, KeepsCursor, CursorInvariant, NoPlanNoDone, LoopCursor, AdvancedCursor, WaitedItem, FreshInit, ObsSet, TrustSet, LoopPcs, EarlyPcs
    <3> QED BY <3>1, <3>2, CursorStutter DEF KeepsCursor
  <2>24. CASE TrustManagerSync
    <3>1. KeepsCursor(st') /\ doneUnder' = doneUnder
      BY <2>24 DEF TrustManagerSync, KeepsCursor
    <3>2. CursorInvariant'
      BY <2>24, <2>0, <3>1 DEF TrustManagerSync, KeepsCursor, CursorInvariant, NoPlanNoDone, LoopCursor, AdvancedCursor, WaitedItem, FreshInit, ObsSet, TrustSet, LoopPcs, EarlyPcs
    <3> QED BY <3>1, <3>2, CursorStutter DEF KeepsCursor
  <2>25. CASE IssuerReissue
    <3>1. KeepsCursor(st') /\ doneUnder' = doneUnder
      BY <2>25 DEF IssuerReissue, KeepsCursor
    <3>2. CursorInvariant'
      BY <2>25, <2>0, <3>1 DEF IssuerReissue, KeepsCursor, CursorInvariant, NoPlanNoDone, LoopCursor, AdvancedCursor, WaitedItem, FreshInit, ObsSet, TrustSet, LoopPcs, EarlyPcs
    <3> QED BY <3>1, <3>2, CursorStutter DEF KeepsCursor
  <2>26. CASE WorkloadsChange
    <3>1. KeepsCursor(st') /\ doneUnder' = doneUnder
      BY <2>26 DEF WorkloadsChange, KeepsCursor
    <3>2. CursorInvariant'
      BY <2>26, <2>0, <3>1 DEF WorkloadsChange, KeepsCursor, CursorInvariant, NoPlanNoDone, LoopCursor, AdvancedCursor, WaitedItem, FreshInit, ObsSet, TrustSet, LoopPcs, EarlyPcs
    <3> QED BY <3>1, <3>2, CursorStutter DEF KeepsCursor
  <2>27. CASE EditDryRun
    <3>1. KeepsCursor(st') /\ doneUnder' = doneUnder
      BY <2>27 DEF EditDryRun, KeepsCursor
    <3>2. CursorInvariant'
      BY <2>27, <2>0, <3>1 DEF EditDryRun, KeepsCursor, CursorInvariant, NoPlanNoDone, LoopCursor, AdvancedCursor, WaitedItem, FreshInit, ObsSet, TrustSet, LoopPcs, EarlyPcs
    <3> QED BY <3>1, <3>2, CursorStutter DEF KeepsCursor
  <2>28. CASE OperatorRestart
    <3>1. KeepsCursor(st') /\ doneUnder' = doneUnder
      BY <2>28 DEF OperatorRestart, KeepsCursor
    <3>2. CursorInvariant'
      BY <2>28, <2>0, <3>1 DEF OperatorRestart, KeepsCursor, CursorInvariant, NoPlanNoDone, LoopCursor, AdvancedCursor, WaitedItem, FreshInit, ObsSet, TrustSet, LoopPcs, EarlyPcs
    <3> QED BY <3>1, <3>2, CursorStutter DEF KeepsCursor
  <2>29. CASE DetectTrust
    <3>1. obs' \in TrustInfo
      <4>1. cur \in Gens /\ prev \in 0..MaxGen /\ bundle \subseteq Gens
        BY <2>0 DEF TypeCluster
      <4>2. EnsuredPrevious \in Gens
        BY <4>1, ConstantFacts DEF EnsuredPrevious, Gens
      <4> QED BY <2>29, <4>1, <4>2 DEF DetectTrust, TrustInfo
    <3>2. KeepsCursor(st') /\ doneUnder' = doneUnder
      BY <2>29 DEF DetectTrust, KeepsCursor
    <3>3. CursorInvariant'
      BY <2>29, <2>0, <3>1, <3>2 DEF DetectTrust, KeepsCursor, CursorInvariant, NoPlanNoDone, LoopCursor, AdvancedCursor, WaitedItem, FreshInit, ObsSet, TrustSet, LoopPcs, EarlyPcs
    <3> QED BY <3>2, <3>3, CursorStutter DEF KeepsCursor
  <2>30. CASE RecordTrust
    <3>1. /\ SetTrustInfo(st, obs).planHash = st.planHash
          /\ SetTrustInfo(st, obs).next = st.next
          /\ SetTrustInfo(st, obs).trust = obs
      BY <2>0 DEF SetTrustInfo, Status
    <3>2. obs \in TrustInfo
      BY <2>30 DEF RecordTrust, CursorInvariant, ObsSet
    <3>3. st'.trust # None
      BY <2>0, <2>30, <3>1, <3>2 DEF RecordTrust
    <3>4. st'.planHash = st.planHash /\ st'.next = st.next /\ doneUnder' = doneUnder
      BY <2>30, <3>1 DEF RecordTrust
    <3>5. CursorInvariant'
      BY <2>30, <2>0, <3>3, <3>4 DEF RecordTrust, CursorInvariant, NoPlanNoDone, LoopCursor, AdvancedCursor, WaitedItem, FreshInit, ObsSet, TrustSet, LoopPcs, EarlyPcs
    <3> QED BY <3>4, <3>5, CursorStutter
  <2>31. CASE DPStart
    <3>1. KeepsCursor(SetPhase(st, "RollingDP", "DataPlaneBatchRestarting"))
      BY <2>0 DEF KeepsCursor, SetPhase, Status
    <3>2. KeepsCursor(st') /\ doneUnder' = doneUnder
      BY <2>31, <3>1 DEF DPStart, KeepsCursor
    <3>3. CursorInvariant'
      BY <2>31, <2>0, <3>2 DEF DPStart, CanResume, KeepsCursor, CursorInvariant, NoPlanNoDone, LoopCursor, AdvancedCursor, WaitedItem, FreshInit, ObsSet, TrustSet, LoopPcs, EarlyPcs
    <3> QED BY <3>2, <3>3, CursorStutter DEF KeepsCursor
  <2>32. CASE DPInitCursor
    <3> DEFINE E == SetPlanHash(st, None, 0, queue)
    <3>1. E.planHash = queue /\ E.next = 0 /\ E.trust = st.trust
      BY <2>0 DEF SetPlanHash, Status
    <3>2. queue \in Seq(Items) /\ i = 0 /\ st.trust # None
      BY <2>0, <2>32 DEF TypeLocal, DPInitCursor, CursorInvariant, FreshInit, TrustSet, EarlyPcs
    <3>3. CASE st' = E
      <4>1. doneUnder' = NotDone
        BY <2>32, <3>1, <3>3 DEF DPInitCursor
      <4>2. CursorStep
        BY <3>1, <3>2, <3>3, <4>1, CursorStart
      <4>3. pc' \in {"DPStartProgress", "MarkFailed"}
        BY <2>32 DEF DPInitCursor, PatchOr
      <4>4. CursorInvariant'
        BY <2>32, <2>0, <3>1, <3>2, <3>3, <4>1, <4>3 DEF DPInitCursor, CursorInvariant, NoPlanNoDone, LoopCursor, AdvancedCursor, WaitedItem, FreshInit, ObsSet, TrustSet, LoopPcs, EarlyPcs
      <4> QED BY <4>2, <4>4
    <3>4. CASE st' = st /\ pc' = "MarkFailed"
      <4>1. CASE st.next = 0 /\ st.planHash # None
        <5>1. doneUnder' = NotDone
          BY <2>32, <3>4, <4>1 DEF DPInitCursor
        <5>2. CursorStep
          BY <2>0, <3>4, <4>1, <5>1, CursorStart
        <5>3. CursorInvariant'
          BY <2>32, <3>2, <3>4, <5>1 DEF DPInitCursor, CursorInvariant, NoPlanNoDone, LoopCursor, AdvancedCursor, WaitedItem, FreshInit, ObsSet, TrustSet, LoopPcs, EarlyPcs
        <5> QED BY <5>2, <5>3
      <4>2. CASE st.next = 0 /\ st.planHash = None
        <5>1. doneUnder' = doneUnder
          BY <2>32, <3>4, <4>2 DEF DPInitCursor, CursorInvariant, NoPlanNoDone
        <5>2. CursorInvariant'
          BY <2>32, <3>2, <3>4, <5>1 DEF DPInitCursor, CursorInvariant, NoPlanNoDone, LoopCursor, AdvancedCursor, WaitedItem, FreshInit, ObsSet, TrustSet, LoopPcs, EarlyPcs
        <5> QED BY <3>4, <5>1, <5>2, CursorStutter
      <4>3. CASE st.next # 0
        <5>1. doneUnder' = doneUnder
          BY <2>32, <3>4, <4>3 DEF DPInitCursor
        <5>2. CursorInvariant'
          BY <2>32, <3>2, <3>4, <5>1 DEF DPInitCursor, CursorInvariant, NoPlanNoDone, LoopCursor, AdvancedCursor, WaitedItem, FreshInit, ObsSet, TrustSet, LoopPcs, EarlyPcs
        <5> QED BY <3>4, <5>1, <5>2, CursorStutter
      <4> QED BY <4>1, <4>2, <4>3
    <3> QED BY <2>32, <3>3, <3>4 DEF DPInitCursor, PatchOr
  <2>33. CASE DPWait
    <3>1. queue[i + 1] \in Items
      BY <2>0, <2>33 DEF TypeLocal, ItemPcs, DPWait
    <3>2. st.trust # None /\ st.planHash = queue /\ queue # None
      BY <2>0, <2>33 DEF TypeLocal, DPWait, CursorInvariant, TrustSet, EarlyPcs, LoopCursor, LoopPcs
    <3>3. CASE doneUnder' = [doneUnder EXCEPT ![queue[i + 1]] = st.trust] /\ pc' = "DPAdvanceCursor"
      <4>1. DoneSet(doneUnder') = DoneSet(doneUnder) \cup {queue[i + 1]}
        BY <2>0, <3>1, <3>2, <3>3 DEF DoneSet, TypeLocal
      <4>2. Cursor!Complete(queue[i + 1])
        BY <2>33, <4>1 DEF DPWait, Cursor!Complete, DoneSet
      <4>3. CursorStep
        <5>1. \E w \in Items : Cursor!Complete(w)
          BY <3>1, <4>2 DEF Cursor!Complete
        <5> QED BY <5>1 DEF CursorStep, Cursor!CNext
      <4>4. doneUnder'[queue[i + 1]] # None
        BY <2>0, <3>1, <3>2, <3>3 DEF TypeLocal
      <4>5. CursorInvariant'
        BY <2>33, <3>2, <3>3, <4>4 DEF DPWait, CursorInvariant, NoPlanNoDone, LoopCursor, AdvancedCursor, WaitedItem, FreshInit, ObsSet, TrustSet, LoopPcs, EarlyPcs
      <4> QED BY <4>3, <4>5
    <3>4. CASE UNCHANGED doneUnder /\ pc' = "DPRecordFailure"
      <4>1. CursorInvariant'
        BY <2>33, <2>0, <3>2, <3>4 DEF DPWait, CursorInvariant, NoPlanNoDone, LoopCursor, AdvancedCursor, WaitedItem, FreshInit, ObsSet, TrustSet, LoopPcs, EarlyPcs
      <4> QED BY <2>33, <3>4, <4>1, CursorStutter DEF DPWait
    <3> QED BY <2>33, <3>3, <3>4 DEF DPWait
  <2>34. CASE DPAdvanceCursor
    <3> DEFINE E == SetPlanHash(st, queue[i + 1], i + 1, queue)
    <3>1. E.planHash = queue /\ E.next = i + 1 /\ E.trust = st.trust
      BY <2>0 DEF SetPlanHash, Status
    <3>2. /\ queue \in Seq(Items) /\ queue # None /\ i \in Nat /\ i < Len(queue)
          /\ st.planHash = queue /\ st.next = i /\ st.trust # None
          /\ doneUnder[queue[i + 1]] # None
      BY <2>0, <2>34 DEF TypeLocal, ItemPcs, DPAdvanceCursor, CursorInvariant, LoopCursor,
                        WaitedItem, LoopPcs, TrustSet, EarlyPcs
    <3>3. queue[i + 1] \in Items
      BY <3>2
    <3>4. CASE st' = E
      <4>1. Cursor!Advance
        BY <2>34, <3>1, <3>2, <3>3, <3>4 DEF DPAdvanceCursor, Cursor!Advance
      <4>2. CursorStep
        BY <4>1 DEF CursorStep, Cursor!CNext
      <4>3. pc' \in {"DPAdvanceProgress", "DPRecordFailure"}
        BY <2>34 DEF DPAdvanceCursor, PatchOr
      <4>4. CursorInvariant'
        BY <2>34, <3>1, <3>2, <3>4, <4>3 DEF DPAdvanceCursor, CursorInvariant, NoPlanNoDone, LoopCursor, AdvancedCursor, WaitedItem, FreshInit, ObsSet, TrustSet, LoopPcs, EarlyPcs
      <4> QED BY <4>2, <4>4
    <3>5. CASE st' = st /\ pc' = "DPRecordFailure"
      <4>1. CursorInvariant'
        BY <2>34, <3>2, <3>5 DEF DPAdvanceCursor, CursorInvariant, NoPlanNoDone, LoopCursor, AdvancedCursor, WaitedItem, FreshInit, ObsSet, TrustSet, LoopPcs, EarlyPcs
      <4> QED BY <2>34, <3>5, <4>1, CursorStutter DEF DPAdvanceCursor
    <3> QED BY <2>34, <3>4, <3>5 DEF DPAdvanceCursor, PatchOr
  <2>35. CASE DPResetCursor
    <3> DEFINE E == SetPlanHash(st, None, 0, queue)
    <3>1. E.planHash = queue /\ E.next = 0 /\ E.trust = st.trust
      BY <2>0 DEF SetPlanHash, Status
    <3>2. queue \in Seq(Items) /\ st.trust # None
      BY <2>0, <2>35 DEF TypeLocal, DPResetCursor, CursorInvariant, TrustSet, EarlyPcs
    <3>3. pc' \in {"DeletePrevious", "MarkSucceeded", "MarkFailed"}
      BY <2>35 DEF DPResetCursor, PatchOr
    <3>4. CASE st' = E
      <4>1. doneUnder' = NotDone
        BY <2>35, <3>1, <3>4 DEF DPResetCursor
      <4>2. CursorStep
        BY <3>1, <3>2, <3>4, <4>1, CursorStart
      <4>3. CursorInvariant'
        BY <2>35, <2>0, <3>1, <3>2, <3>3, <3>4, <4>1 DEF DPResetCursor, CursorInvariant, NoPlanNoDone, LoopCursor, AdvancedCursor, WaitedItem, FreshInit, ObsSet, TrustSet, LoopPcs, EarlyPcs
      <4> QED BY <4>2, <4>3
    <3>5. CASE st' = st
      <4>1. CASE st.next = 0 /\ st.planHash # None
        <5>1. doneUnder' = NotDone
          BY <2>35, <3>5, <4>1 DEF DPResetCursor
        <5>2. CursorStep
          BY <2>0, <3>5, <4>1, <5>1, CursorStart
        <5>3. CursorInvariant'
          BY <2>35, <3>2, <3>3, <3>5, <5>1 DEF DPResetCursor, CursorInvariant, NoPlanNoDone, LoopCursor, AdvancedCursor, WaitedItem, FreshInit, ObsSet, TrustSet, LoopPcs, EarlyPcs
        <5> QED BY <5>2, <5>3
      <4>2. CASE st.next = 0 /\ st.planHash = None
        <5>1. doneUnder' = doneUnder
          BY <2>35, <3>5, <4>2 DEF DPResetCursor, CursorInvariant, NoPlanNoDone
        <5>2. CursorInvariant'
          BY <2>35, <3>2, <3>3, <3>5, <5>1 DEF DPResetCursor, CursorInvariant, NoPlanNoDone, LoopCursor, AdvancedCursor, WaitedItem, FreshInit, ObsSet, TrustSet, LoopPcs, EarlyPcs
        <5> QED BY <3>5, <5>1, <5>2, CursorStutter
      <4>3. CASE st.next # 0
        <5>1. doneUnder' = doneUnder
          BY <2>35, <3>5, <4>3 DEF DPResetCursor
        <5>2. CursorInvariant'
          BY <2>35, <3>2, <3>3, <3>5, <5>1 DEF DPResetCursor, CursorInvariant, NoPlanNoDone, LoopCursor, AdvancedCursor, WaitedItem, FreshInit, ObsSet, TrustSet, LoopPcs, EarlyPcs
        <5> QED BY <3>5, <5>1, <5>2, CursorStutter
      <4> QED BY <4>1, <4>2, <4>3
    <3> QED BY <2>35, <3>4, <3>5 DEF DPResetCursor, PatchOr
  <2>36. CASE UNCHANGED vars
    BY <2>36, CursorStutter DEF vars, CursorInvariant, NoPlanNoDone, LoopCursor, AdvancedCursor, WaitedItem, FreshInit, ObsSet, TrustSet, LoopPcs, EarlyPcs
  <2> QED
    BY <2>1, <2>2, <2>3, <2>4, <2>5, <2>6, <2>7, <2>8, <2>9, <2>10, <2>11, <2>12, <2>13, <2>14, <2>15, <2>16, <2>17, <2>18, <2>19, <2>20, <2>21, <2>22, <2>23, <2>24, <2>25, <2>26, <2>27, <2>28, <2>29, <2>30, <2>31, <2>32, <2>33, <2>34, <2>35, <2>36
    DEF Next, Controller, Environment
<1> QED BY <1>1, <1>2, TypeCorrect, PTL DEF Spec, CursorRefinement, Cursor!CSpec, CursorStep

(***************************************************************************)
(* CursorSound for every number of workloads, anchors and failures: every *)
(* item the persisted cursor counts as done has completed its rollout     *)
(* since the cursor was last reset, so RestartLinkerdDataPlane never      *)
(* resumes past a workload whose wait has not returned.  It follows from  *)
(* the refinement and the promise ResumeCursor proves of itself.          *)
(***************************************************************************)
THEOREM CursorSoundProved == Spec => []CursorSound
<1>1. Spec => []Cursor!CursorCovered
  BY CursorRefined, Cursor!CursorSafe, PTL DEF CursorRefinement
<1>2. TypeOK /\ Cursor!CursorCovered => CursorSound
  <2> SUFFICES ASSUME TypeOK, Cursor!CursorCovered, st.planHash # None
               PROVE  \A k \in 1..st.next : doneUnder[st.planHash[k]] # None
    BY DEF CursorSound
  <2>1. StatusOK(st)
    BY TypeOKParts
  <2>2. st.planHash \in Seq(Items) /\ st.next \in 0..Len(st.planHash)
    BY <2>1 DEF StatusOK, Status
  <2> QED BY <2>2 DEF Cursor!CursorCovered
<1> QED BY <1>1, <1>2, TypeCorrect, PTL

=============================================================================
