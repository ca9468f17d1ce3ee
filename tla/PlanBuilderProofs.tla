--------------------------- MODULE PlanBuilderProofs ---------------------------
(***************************************************************************)
(* The loops of SelectLinkerdDataPlane stay inside the spec they read:    *)
(* for every cluster, every set of selectors and every bound, a List is   *)
(* only issued for an allowed namespace (index ni) of a target scope      *)
(* (index si) that exists, whatever users edit between two List calls.    *)
(* The scope check at the top of each scope, which returns an error for  *)
(* a scope without namespaces, is what keeps ni in range.                 *)
(***************************************************************************)
EXTENDS PlanBuilder, TLAPS

\* A selector's scopes and their namespace lists are sequences.
LEMMA SelectorShape ==
  ASSUME NEW s \in Selectors
  PROVE  /\ s.targets \in Seq(TargetScope)
         /\ \A j \in 1..Len(s.targets) : s.targets[j].namespaces \in Seq(STRING)
<1>1. s \in TargetAnnotationSelector
  BY SelectorsAssumption
<1>2. s.targets \in Seq(TargetScope)
  BY <1>1, Zenon DEF TargetAnnotationSelector
<1>3. ASSUME NEW j \in 1..Len(s.targets)
      PROVE  s.targets[j].namespaces \in Seq(STRING)
  <2>1. s.targets[j] \in TargetScope
    BY <1>2
  <2> QED BY <2>1, Zenon DEF TargetScope
<1> QED BY <1>2, <1>3

LEMMA ScanInit == Init => ScanTypeOK
<1> SUFFICES ASSUME Init PROVE ScanTypeOK
  OBVIOUS
<1>1. sel \in Selectors /\ tg = sel
  BY DEF Init
<1>2. Len(tg.targets) \in Nat
  BY <1>1, SelectorShape
<1> QED BY <1>1, <1>2, BoundsAssumption DEF Init, ScanTypeOK

LEMMA ScanStep == ScanTypeOK /\ [Next]_vars => ScanTypeOK'
<1> SUFFICES ASSUME ScanTypeOK, [Next]_vars PROVE ScanTypeOK'
  OBVIOUS
<1>0. /\ tg.targets \in Seq(TargetScope)
      /\ \A j \in 1..Len(tg.targets) : tg.targets[j].namespaces \in Seq(STRING)
  BY SelectorShape DEF ScanTypeOK
<1>1. CASE BuildStart
  <2>1. sel.targets \in Seq(TargetScope)
    BY SelectorShape DEF ScanTypeOK
  <2> QED BY <1>1, <2>1 DEF BuildStart, ScanTypeOK
<1>2. CASE ScopeStart
  <2>1. CASE Len(tg.targets[si].namespaces) > 0
    BY <1>0, <1>2, <2>1 DEF ScopeStart, ScanTypeOK
  <2>2. CASE ~(Len(tg.targets[si].namespaces) > 0)
    BY <1>2, <2>2 DEF ScopeStart, ScanTypeOK
  <2> QED BY <2>1, <2>2
<1>3. CASE ListNamespace
  <2>0. pc = "List"
    BY <1>3, Zenon DEF ListNamespace
  <2>1. /\ si \in 1..Len(tg.targets)
        /\ ni \in 1..Len(tg.targets[si].namespaces)
    BY <2>0 DEF ScanTypeOK
  <2>6. Len(tg.targets[si].namespaces) \in Nat
    BY <1>0, <2>1
  <2>2. \/ UNCHANGED <<si, ni>> /\ pc' = "Idle"
        \/ ni < Len(tg.targets[si].namespaces) /\ ni' = ni + 1 /\ UNCHANGED <<pc, si>>
        \/ ~(ni < Len(tg.targets[si].namespaces)) /\ pc' = "Scope" /\ si' = si + 1 /\ ni' = 0
    BY <1>3, Zenon DEF ListNamespace
  <2>3. UNCHANGED <<anno, rv, sel, tg, epoch, from, last>>
    BY <1>3 DEF ListNamespace
  <2> QED BY <2>0, <2>1, <2>2, <2>3, <2>6 DEF ScanTypeOK
<1>4. CASE BuildDone
  BY <1>4 DEF BuildDone, ScanTypeOK
<1>5. CASE Annotate
  <2>0. PICK o \in Objs : \E a \in AnnoChoices(o) \ {anno[o]} :
          /\ anno' = [anno EXCEPT ![o] = a]
          /\ rv' = [rv EXCEPT ![o] = IF @ < MaxRV THEN @ + 1 ELSE @]
    BY <1>5 DEF Annotate
  <2>1. PICK a \in AnnoChoices(o) \ {anno[o]} :
          /\ anno' = [anno EXCEPT ![o] = a]
          /\ rv' = [rv EXCEPT ![o] = IF @ < MaxRV THEN @ + 1 ELSE @]
    BY <2>0
  <2>2. AnnoChoices(o) \subseteq SUBSET AnnoValues
    BY DEF AnnoChoices
  <2>3. anno' \in [Objs -> SUBSET AnnoValues] /\ \A o2 \in Objs : anno'[o2] \in AnnoChoices(o2)
    BY <2>1, <2>2 DEF ScanTypeOK
  <2>4. rv' \in [Objs -> 0..MaxRV]
    BY <2>1, BoundsAssumption DEF ScanTypeOK
  <2>5. epoch < MaxChanges /\ epoch' = epoch + 1 /\ UNCHANGED <<sel, pc, tg, si, ni, from, last>>
    BY <1>5 DEF Annotate
  <2> QED BY <2>3, <2>4, <2>5, BoundsAssumption DEF ScanTypeOK
<1>6. CASE Touch
  <2>1. PICK o \in Objs : rv[o] < MaxRV /\ rv' = [rv EXCEPT ![o] = @ + 1]
    BY <1>6 DEF Touch
  <2>2. rv' \in [Objs -> 0..MaxRV]
    BY <2>1, BoundsAssumption DEF ScanTypeOK
  <2>3. UNCHANGED <<anno, sel, pc, tg, si, ni, epoch, from, last>>
    BY <1>6 DEF Touch
  <2> QED BY <2>2, <2>3 DEF ScanTypeOK
<1>7. CASE EditSelector
  BY <1>7, BoundsAssumption DEF EditSelector, ScanTypeOK
<1>8. CASE UNCHANGED vars
  BY <1>8 DEF vars, ScanTypeOK
<1> QED BY <1>1, <1>2, <1>3, <1>4, <1>5, <1>6, <1>7, <1>8 DEF Next

(***************************************************************************)
(* Every reachable state satisfies ScanTypeOK: in particular every List   *)
(* call of SelectLinkerdDataPlane is for namespace ni of scope si of the  *)
(* selector it read, with both indices in range.                          *)
(***************************************************************************)
THEOREM ScanTypeCorrect == Spec => []ScanTypeOK
BY ScanInit, ScanStep, PTL DEF Spec

=============================================================================
