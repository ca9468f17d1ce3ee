--------------------------- MODULE MC_PlanBuilder ---------------------------
(***************************************************************************)
(* Small instances of PlanBuilder for TLC.                                 *)
(*                                                                         *)
(* Two Deployments in one namespace let the List order matter; one        *)
(* StatefulSet and one custom resource in a second namespace cover the    *)
(* other matching rules.  The selectors give one valid plan, the same     *)
(* plan with another Deployment strategy, a presence-only match with a    *)
(* vendor bump, and two specs that fail part-way: a custom-resource       *)
(* scope without apiGroup/kind/version and a scope without namespaces.   *)
(***************************************************************************)
EXTENDS PlanBuilder

MCObjs ==
  {[kind |-> "Deployment", ns |-> "apps", name |-> 1],
   [kind |-> "Deployment", ns |-> "apps", name |-> 2],
   [kind |-> "StatefulSet", ns |-> "data", name |-> 1],
   [kind |-> "CustomResource", ns |-> "data", name |-> 2]}

MCAnnoValues == {"enabled", "disabled"}

DepScope(strategy) ==
  [kindType |-> "Deployment", namespaces |-> <<"apps">>, strategy |-> strategy,
   gvk |-> FALSE, bump |-> None]

StsScope ==
  [kindType |-> "StatefulSet", namespaces |-> <<"data">>, strategy |-> Delete,
   gvk |-> FALSE, bump |-> None]

CrScope ==
  [kindType |-> "CustomResource", namespaces |-> <<"data", "apps">>, strategy |-> "",
   gvk |-> TRUE, bump |-> [key |-> "strimzi.io/manual-rolling-update", value |-> "true"]]

MCSelectors ==
  {[value |-> "enabled", targets |-> <<DepScope(""), StsScope>>],
   [value |-> "enabled", targets |-> <<DepScope(Delete), StsScope>>],
   [value |-> "", targets |-> <<CrScope, DepScope("")>>],
   [value |-> "enabled", targets |-> <<DepScope(""), [CrScope EXCEPT !.gvk = FALSE]>>],
   [value |-> "enabled", targets |-> <<[StsScope EXCEPT !.namespaces = << >>]>>]}

MCMaxRV == 1
MCMaxChanges == 1
=============================================================================
