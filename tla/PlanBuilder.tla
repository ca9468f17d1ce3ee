---------------------------- MODULE PlanBuilder ----------------------------
(***************************************************************************)
(* The plan builder of the rollout engine: SelectLinkerdDataPlane          *)
(* (internal/rollout, src/unnamed/part_001) and planHash                   *)
(* (internal/rollout/helpers.go).                                          *)
(*                                                                         *)
(* A reconcile builds the data-plane plan from the target scopes of the    *)
(* resource spec, one List call per scope and allowed namespace, and       *)
(* hashes it; the hash keys the persisted cursor (TrustRotation's          *)
(* st.planHash).  Between two List calls and between two reconciles       *)
(* users annotate or unannotate workloads, edit the selector, and the      *)
(* cluster touches volatile fields (resourceVersion, status).             *)
(*                                                                         *)
(* A workload is a record [kind, ns, name]; names are numbers in name     *)
(* order.  anno[o] is the set of values the selector key has on the pod   *)
(* template of o: at most one for the built-in kinds, one per annotated   *)
(* path for a custom resource (spec.template, spec.jobTemplate...,         *)
(* spec.podTemplate, spec.pods[*]), as getAnno/getAnnoFromMap read them.  *)
(***************************************************************************)
EXTENDS Integers, Sequences, SequencesExt, FiniteSets

CONSTANTS
  Objs,         \* the workloads of the cluster, records [kind, ns, name]
  AnnoValues,   \* values the selector key may have on a pod template
  Selectors,    \* the TargetAnnotationSelector values users may apply
  ListsSorted,  \* TRUE: a List returns the namespace's objects in name order
  MaxRV,        \* bound on volatile updates of one object
  MaxChanges,   \* bound on identity changes (annotations, selector edits)
  None

ASSUME ListsSortedAssumption == ListsSorted \in BOOLEAN
ASSUME BoundsAssumption == MaxRV \in Nat /\ MaxChanges \in Nat

\* The Kind constants of the rollout package and the strategy names.
Kinds == {"Deployment", "StatefulSet", "DaemonSet", "CustomResource"}
Restart == "rolloutRestart"
Delete == "rolloutDelete"

\* The selector types of api/v1alpha1 as far as the builder reads them.
\* The CRD's enum validation limits kindType and rolloutStrategy; gvk
\* stands for "apiGroup, kind and version are all non-empty".
AnnotationBumpOptions == [key : STRING, value : STRING]

TargetScope ==
  [kindType : Kinds, namespaces : Seq(STRING), strategy : {"", Restart, Delete},
   gvk : BOOLEAN, bump : AnnotationBumpOptions \cup {None}]

TargetAnnotationSelector == [value : STRING, targets : Seq(TargetScope)]

ASSUME SelectorsAssumption == Selectors \subseteq TargetAnnotationSelector

VARIABLES
  anno,    \* anno[o]: values of the selector key on o's pod template(s)
  rv,      \* rv[o]: resourceVersion and snapshot contents (volatile)
  sel,     \* spec.rollout.targetAnnotationSelector as stored
  pc,      \* "Idle", "Scope" (at targets[si]) or "List" (at namespace ni)
  tg,      \* the selector of the object the running reconcile fetched
  si, ni,  \* loop indices over targets and allowedNamespaces (1-based)
  acc,     \* result.Queue built so far
  epoch,   \* ghost: number of identity changes so far
  from,    \* ghost: epoch when the running build started
  last     \* the last plan built: its queue, planHash and epochs

vars == <<anno, rv, sel, pc, tg, si, ni, acc, epoch, from, last>>

(***************************************************************************)
(* WorkItem: the fields the engine reads, and the snapshot's volatile     *)
(* part.  bumpKey/bumpVal are set only for custom resources whose scope   *)
(* has an annotationBump.                                                  *)
(***************************************************************************)
WorkItem(o, scope) ==
  [kind |-> o.kind, ns |-> o.ns, name |-> o.name,
   strategy |-> IF scope.strategy = "" THEN Restart ELSE scope.strategy,
   bumpKey |-> IF o.kind = "CustomResource" /\ scope.bump # None THEN scope.bump.key ELSE "",
   bumpVal |-> IF o.kind = "CustomResource" /\ scope.bump # None THEN scope.bump.value ELSE "",
   rv |-> rv[o]]

\* Seeded fault: the selector matches the key whatever its value.
hasAnnotationOnTemplateAnyValue(o, val) == anno[o] # {}

\* hasAnnotationOnTemplate: the key is present with exactly the value.
hasAnnotationOnTemplate(o, val) == val \in anno[o]

\* crHasTemplateAnnotation: the key at any known path; "" matches presence.
crHasTemplateAnnotation(o, val) == \E v \in anno[o] : val = "" \/ v = val

Matches(o, scope, val) ==
  IF scope.kindType = "CustomResource" THEN crHasTemplateAnnotation(o, val)
  ELSE hasAnnotationOnTemplate(o, val)

NameLess(a, b) == a.name < b.name

\* What one List call in a namespace returns, in each order it may come in.
Listed(kind, ns) == {o \in Objs : o.kind = kind /\ o.ns = ns}

ListOrders(kind, ns) ==
  IF ListsSorted THEN {SetToSortSeq(Listed(kind, ns), NameLess)}
  ELSE SetToSeqs(Listed(kind, ns))

\* The StatefulSet branch sorts the listed items by name (sort.SliceStable).
ScanOrder(kind, list) ==
  IF kind = "StatefulSet" THEN SortSeq(list, NameLess) ELSE list

(***************************************************************************)
(* planHash: for each item, "kind|" then the kind's identifiers, then a   *)
(* newline; SHA-1, first 12 hex digits.  Names and namespaces are DNS     *)
(* labels (no '/', '|' or newline), so the written string is determined   *)
(* by the sequence of per-item tokens below; the truncated SHA-1 is taken *)
(* to be injective on those strings.                                       *)
(***************************************************************************)
HashToken(w) ==
  CASE w.kind \in {"Deployment", "DaemonSet"} -> <<w.kind, w.ns, w.name>>
    [] w.kind = "StatefulSet" -> <<w.kind, w.ns, w.name, w.strategy>>
    [] w.kind = "CustomResource" ->
         IF w.bumpKey # "" THEN <<w.kind, w.ns, w.name, w.strategy, w.bumpKey, w.bumpVal>>
         ELSE <<w.kind, w.ns, w.name, w.strategy>>

planHash(queue) == [k \in DOMAIN queue |-> HashToken(queue[k])]

-----------------------------------------------------------------------------
(***************************************************************************)
(* SelectLinkerdDataPlane, called at the start of RestartLinkerdDataPlane  *)
(* (and of the dry run) on the object fetched by the reconcile.           *)
(***************************************************************************)
BuildStart ==
  /\ pc = "Idle"
  /\ pc' = "Scope"
  /\ tg' = sel
  /\ si' = 1
  /\ ni' = 0
  /\ acc' = << >>
  /\ from' = epoch
  /\ UNCHANGED <<anno, rv, sel, epoch, last>>

\* Seeded fault: the allowedNamespaces check is missing.
ScopeStartNoNsCheck ==
  /\ pc = "Scope"
  /\ si <= Len(tg.targets)
  /\ LET scope == tg.targets[si] IN
       IF /\ scope.kindType \in Kinds
          /\ scope.kindType = "CustomResource" => scope.gvk
       THEN pc' = "List" /\ ni' = 1
       ELSE pc' = "Idle" /\ UNCHANGED ni
  /\ UNCHANGED <<anno, rv, sel, tg, si, acc, epoch, from, last>>

\* The checks at the top of one target scope; each failure returns an error.
ScopeStart ==
  /\ pc = "Scope"
  /\ si <= Len(tg.targets)
  /\ LET scope == tg.targets[si] IN
       IF /\ Len(scope.namespaces) > 0
          /\ scope.kindType \in Kinds
          /\ scope.kindType = "CustomResource" => scope.gvk
       THEN pc' = "List" /\ ni' = 1
       ELSE pc' = "Idle" /\ UNCHANGED ni
  /\ UNCHANGED <<anno, rv, sel, tg, si, acc, epoch, from, last>>

\* One List in one allowed namespace: the matching items are appended in
\* the order of the (sorted, for StatefulSets) list, or the List fails.
ListNamespace ==
  /\ pc = "List"
  /\ LET scope == tg.targets[si]
         ns == scope.namespaces[ni]
     IN  \/ /\ pc' = "Idle"
            /\ UNCHANGED <<si, ni, acc>>
         \/ /\ \E list \in ListOrders(scope.kindType, ns) :
                 LET hits == SelectSeq(ScanOrder(scope.kindType, list),
                                       LAMBDA o : Matches(o, scope, tg.value))
                 IN  acc' = acc \o [k \in DOMAIN hits |-> WorkItem(hits[k], scope)]
            /\ IF ni < Len(scope.namespaces)
                 THEN ni' = ni + 1 /\ UNCHANGED <<pc, si>>
                 ELSE pc' = "Scope" /\ si' = si + 1 /\ ni' = 0
  /\ UNCHANGED <<anno, rv, sel, tg, epoch, from, last>>

\* return result; the caller computes planHash(result.Queue).
BuildDone ==
  /\ pc = "Scope"
  /\ si > Len(tg.targets)
  /\ pc' = "Idle"
  /\ last' = [plan |-> acc, hash |-> planHash(acc), from |-> from, to |-> epoch]
  /\ UNCHANGED <<anno, rv, sel, tg, si, ni, acc, epoch, from>>

-----------------------------------------------------------------------------
(***************************************************************************)
(* The environment.                                                        *)
(***************************************************************************)
\* The annotation values one object can carry for the selector key.
AnnoChoices(o) ==
  IF o.kind = "CustomResource" THEN SUBSET AnnoValues
  ELSE {{}} \cup {{v} : v \in AnnoValues}

\* A user (un)annotates a workload's pod template.
Annotate ==
  /\ epoch < MaxChanges
  /\ \E o \in Objs : \E a \in AnnoChoices(o) \ {anno[o]} :
       /\ anno' = [anno EXCEPT ![o] = a]
       /\ rv' = [rv EXCEPT ![o] = IF @ < MaxRV THEN @ + 1 ELSE @]
  /\ epoch' = epoch + 1
  /\ UNCHANGED <<sel, pc, tg, si, ni, acc, from, last>>

\* The cluster updates an object's status or metadata.
Touch ==
  /\ \E o \in Objs : rv[o] < MaxRV /\ rv' = [rv EXCEPT ![o] = @ + 1]
  /\ UNCHANGED <<anno, sel, pc, tg, si, ni, acc, epoch, from, last>>

\* A user edits spec.rollout.targetAnnotationSelector.
EditSelector ==
  /\ epoch < MaxChanges
  /\ sel' \in Selectors \ {sel}
  /\ epoch' = epoch + 1
  /\ UNCHANGED <<anno, rv, pc, tg, si, ni, acc, from, last>>

Init ==
  /\ anno \in [Objs -> SUBSET AnnoValues]
  /\ \A o \in Objs : anno[o] \in AnnoChoices(o)
  /\ rv = [o \in Objs |-> 0]
  /\ sel \in Selectors
  /\ pc = "Idle"
  /\ tg = sel
  /\ si = 1
  /\ ni = 0
  /\ acc = << >>
  /\ epoch = 0
  /\ from = 0
  /\ last = None

Next ==
  \/ BuildStart \/ ScopeStart \/ ListNamespace \/ BuildDone
  \/ Annotate \/ Touch \/ EditSelector

Spec == Init /\ [][Next]_vars

-----------------------------------------------------------------------------
(***************************************************************************)
(* Type invariant.  It includes the index bounds of the two loops of      *)
(* SelectLinkerdDataPlane: a List runs only on an allowed namespace of a  *)
(* scope that exists.  ScanTypeOK is all of it but the type of the queue  *)
(* built so far.                                                           *)
(***************************************************************************)
ScanTypeOK ==
  /\ anno \in [Objs -> SUBSET AnnoValues]
  /\ \A o \in Objs : anno[o] \in AnnoChoices(o)
  /\ rv \in [Objs -> 0..MaxRV]
  /\ sel \in Selectors /\ tg \in Selectors
  /\ pc \in {"Idle", "Scope", "List"}
  /\ si \in 1..(Len(tg.targets) + 1)
  /\ pc = "List" => si <= Len(tg.targets) /\ ni \in 1..Len(tg.targets[si].namespaces)
  /\ epoch \in 0..MaxChanges /\ from \in 0..epoch
  /\ last = None \/ last.from <= last.to

TypeOK ==
  /\ ScanTypeOK
  /\ acc \in Seq([kind : Kinds, ns : STRING, name : Nat, strategy : {Restart, Delete},
                  bumpKey : STRING, bumpVal : STRING, rv : 0..MaxRV])

\* The fields that identify a work item (spec section 3).
Ident(w) == <<w.kind, w.ns, w.name, w.strategy, w.bumpKey, w.bumpVal>>

Idents(p) == [k \in DOMAIN p |-> Ident(p[k])]

(***************************************************************************)
(* The plan as spec section 4.4 defines it, stated declaratively: one     *)
(* entry per (scope, allowed namespace, matching workload), sorted by     *)
(* scope position, then namespace position, then name.                    *)
(***************************************************************************)
SpecMatch(o, scope, val) ==
  /\ o.kind = scope.kindType
  /\ IF o.kind = "CustomResource" THEN \E v \in anno[o] : v = val \/ val = ""
     ELSE anno[o] = {val}

ScanKeys(s) ==
  UNION {{key \in {j} \X (DOMAIN s.targets[j].namespaces) \X Objs :
             /\ key[3].ns = s.targets[j].namespaces[key[2]]
             /\ SpecMatch(key[3], s.targets[j], s.value)}
           : j \in DOMAIN s.targets}

ScanLess(a, b) ==
  \/ a[1] < b[1]
  \/ a[1] = b[1] /\ a[2] < b[2]
  \/ a[1] = b[1] /\ a[2] = b[2] /\ a[3].name < b[3].name

SpecIdent(key, s) ==
  LET o == key[3]
      scope == s.targets[key[1]]
      bumped == o.kind = "CustomResource" /\ scope.bump # None
  IN  <<o.kind, o.ns, o.name, IF scope.strategy = "" THEN Restart ELSE scope.strategy,
        IF bumped THEN scope.bump.key ELSE "", IF bumped THEN scope.bump.value ELSE "">>

SpecPlan(s) ==
  LET keys == SetToSortSeq(ScanKeys(s), ScanLess)
  IN  [k \in DOMAIN keys |-> SpecIdent(keys[k], s)]

(***************************************************************************)
(* The plan is the deterministic scan of spec section 4.4: when nothing   *)
(* that identifies a workload changed while SelectLinkerdDataPlane ran,   *)
(* the queue it returns is, item by item, the spec's plan for the         *)
(* selector it read.  It breaks if a kind's matching rule, the strategy   *)
(* default, the annotation bump or the scan order goes wrong.             *)
(***************************************************************************)
PlanFaithful ==
  [][BuildDone /\ from = epoch => Idents(acc) = SpecPlan(tg)]_vars

(***************************************************************************)
(* Hash stability across reconciles (spec sections 3 and 8.1): when no    *)
(* workload was annotated or unannotated and the selector was not edited  *)
(* since the previous plan was built, the new plan has the same           *)
(* planHash, whatever the cluster did to volatile fields meanwhile, so    *)
(* RestartLinkerdDataPlane resumes at the persisted cursor instead of     *)
(* restarting the rollout from item 0.                                     *)
(***************************************************************************)
HashStable ==
  [][BuildDone /\ last # None /\ last.from = epoch => planHash(acc) = last.hash]_vars

(***************************************************************************)
(* The hash tells plans apart (spec section 8, item 7): two consecutive   *)
(* plans that differ in the kind, namespace, name, strategy or bump of    *)
(* any item, or in their order, have different planHash values, so a     *)
(* cursor is never resumed on a plan it was not written for.             *)
(***************************************************************************)
HashDetectsChange ==
  [][BuildDone /\ last # None /\ Idents(acc) # Idents(last.plan) =>
       planHash(acc) # last.hash]_vars

=============================================================================
