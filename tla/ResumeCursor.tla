---------------------------- MODULE ResumeCursor ----------------------------
(***************************************************************************)
(* What the persisted cursor of the rollout engine promises (spec, Retry  *)
(* and resume policy; scenario S2), stated without the controller.        *)
(*                                                                         *)
(* The cursor is a plan and an index next into it.  A rollout may start a *)
(* fresh cursor for a plan at any time; the workloads' rollouts complete  *)
(* in any order; and the cursor moves on by one, over the item at next,   *)
(* only once that item's rollout has completed since the cursor was last  *)
(* started.  done is the set of workloads whose rollout completed since   *)
(* then.                                                                   *)
(***************************************************************************)
EXTENDS Naturals, Sequences, TLAPS

CONSTANTS Items, None

VARIABLES plan, next, done

cvars == <<plan, next, done>>

CInit ==
  /\ plan = None
  /\ next = 0
  /\ done = {}

\* A fresh cursor for a new plan (SetPlanHash(nil, 0, total, hash)):
\* nothing counts as done.
Start ==
  /\ plan' \in Seq(Items)
  /\ next' = 0
  /\ done' = {}

\* The rollout of workload w completes (its wait step returns).
Complete(w) ==
  /\ done' = done \cup {w}
  /\ UNCHANGED <<plan, next>>

\* The cursor moves over the item at next, which has completed.
Advance ==
  /\ plan # None
  /\ next < Len(plan)
  /\ plan[next + 1] \in done
  /\ next' = next + 1
  /\ UNCHANGED <<plan, done>>

CNext ==
  \/ Start
  \/ \E w \in Items : Complete(w)
  \/ Advance

CSpec == CInit /\ [][CNext]_cvars

(***************************************************************************)
(* The promise: every item before next has completed its rollout since    *)
(* the cursor was started, so a resume at next skips no workload that     *)
(* still needs a restart.                                                  *)
(***************************************************************************)
CursorCovered ==
  plan # None => \A k \in 1..next : plan[k] \in done

\* Its inductive form: the cursor also stays inside its plan.
CursorInv ==
  /\ plan = None => next = 0
  /\ plan # None => plan \in Seq(Items) /\ next \in 0..Len(plan)
  /\ CursorCovered


(***************************************************************************)
(* The promise holds in every behaviour of the cursor, for every set of   *)
(* items: CursorInv holds initially and every step keeps it.              *)
(***************************************************************************)
THEOREM CursorSafe == CSpec => []CursorCovered
<1>1. CInit => CursorInv
  BY DEF CInit, CursorInv, CursorCovered
<1>2. CursorInv /\ [CNext]_cvars => CursorInv'
  <2> SUFFICES ASSUME CursorInv, [CNext]_cvars PROVE CursorInv'
    OBVIOUS
  <2>1. CASE Start
    BY <2>1 DEF Start, CursorInv, CursorCovered
  <2>2. ASSUME NEW w \in Items, Complete(w) PROVE CursorInv'
    BY <2>2 DEF Complete, CursorInv, CursorCovered
  <2>3. CASE Advance
    <3>1. plan \in Seq(Items) /\ next \in 0..(Len(plan) - 1)
      BY <2>3 DEF Advance, CursorInv
    <3>2. \A k \in 1..next' : k \in 1..next \/ k = next + 1
      BY <2>3, <3>1 DEF Advance
    <3>3. CursorCovered'
      BY <2>3, <3>2 DEF Advance, CursorInv, CursorCovered
    <3> QED BY <2>3, <3>1, <3>3 DEF Advance, CursorInv
  <2>4. CASE UNCHANGED cvars
    BY <2>4 DEF cvars, CursorInv, CursorCovered
  <2> QED BY <2>1, <2>2, <2>3, <2>4 DEF CNext
<1>3. CursorInv => CursorCovered
  BY DEF CursorInv
<1> QED BY <1>1, <1>2, <1>3, PTL DEF CSpec

=============================================================================
