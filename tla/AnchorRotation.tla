--------------------------- MODULE AnchorRotation ---------------------------
(***************************************************************************)
(* What a trust-anchor rotation promises the mesh, seen from the cluster: *)
(* the anchors in the current and previous anchor secrets, the published  *)
(* trust bundle, the identity issuer, and the bundle each part of the     *)
(* mesh (the control plane and every selected workload) has loaded.       *)
(*                                                                         *)
(* cert-manager issues anchors and reissues a deleted issuer, trust-      *)
(* manager publishes the bundle, workloads join the selection with the    *)
(* bundle published at that time.  A rotation controller may only:        *)
(*   - make one part of the mesh reload the published bundle;             *)
(*   - create an absent previous secret as a copy of the current one;     *)
(*   - delete the identity issuer, once the published bundle holds the    *)
(*     current anchor, so that the reissued issuer is trusted;            *)
(*   - retire the previous anchor (delete its secret), once every part of *)
(*     the mesh trusts the current anchor ("the previous-anchor secret is *)
(*     deleted only after the data plane finishes").                      *)
(* Everything else (the anchors, the bundle) it leaves to cert-manager and *)
(* trust-manager.                                                          *)
(***************************************************************************)
EXTENDS Naturals

CONSTANTS
  Items,   \* the workloads a selector may match
  MaxGen   \* bound on the anchors cert-manager issues

VARIABLES
  cur,        \* anchor in the current secret
  prev,       \* anchor in the previous secret, 0 = absent
  bundle,     \* anchors in the published trust bundle
  issuer,     \* anchor the identity issuer is signed by, 0 = deleted
  members,    \* the selected workloads
  trusted,    \* trusted[w]: the bundle workload w loaded
  cpTrusted   \* the bundle the control plane loaded

avars == <<cur, prev, bundle, issuer, members, trusted, cpTrusted>>

\* Every part of the mesh trusts anchor a.
MeshTrusts(a) == a \in cpTrusted /\ \A w \in members : a \in trusted[w]

Init ==
  /\ cur = 1
  /\ prev \in {0, 1}
  /\ bundle = {1}
  /\ issuer = 1
  /\ members \in SUBSET Items
  /\ trusted = [w \in Items |-> {1}]
  /\ cpTrusted = {1}

-----------------------------------------------------------------------------
\* cert-manager, trust-manager and users.
Issue ==
  /\ cur < MaxGen
  /\ cur' = cur + 1
  /\ UNCHANGED <<prev, bundle, issuer, members, trusted, cpTrusted>>

Publish ==
  /\ bundle' = {cur} \cup (IF prev = 0 THEN {} ELSE {prev})
  /\ UNCHANGED <<cur, prev, issuer, members, trusted, cpTrusted>>

Reissue ==
  /\ issuer = 0
  /\ issuer' = cur
  /\ UNCHANGED <<cur, prev, bundle, members, trusted, cpTrusted>>

Join ==
  /\ members' \in SUBSET Items
  /\ trusted' = [w \in Items |-> IF w \in members' \ members THEN bundle ELSE trusted[w]]
  /\ UNCHANGED <<cur, prev, bundle, issuer, cpTrusted>>

\* The rotation controller.
LoadControlPlane ==
  /\ cpTrusted' = bundle
  /\ UNCHANGED <<cur, prev, bundle, issuer, members, trusted>>

Load(w) ==
  /\ trusted' = [trusted EXCEPT ![w] = bundle]
  /\ UNCHANGED <<cur, prev, bundle, issuer, members, cpTrusted>>

Bootstrap ==
  /\ prev = 0
  /\ prev' = cur
  /\ UNCHANGED <<cur, bundle, issuer, members, trusted, cpTrusted>>

RevokeIssuer ==
  /\ cur \in bundle
  /\ issuer' = 0
  /\ UNCHANGED <<cur, prev, bundle, members, trusted, cpTrusted>>

Retire ==
  /\ prev # 0
  /\ MeshTrusts(cur)
  /\ prev' = 0
  /\ UNCHANGED <<cur, bundle, issuer, members, trusted, cpTrusted>>

Next ==
  \/ Issue \/ Publish \/ Reissue \/ Join
  \/ LoadControlPlane \/ \E w \in Items : Load(w)
  \/ Bootstrap \/ RevokeIssuer \/ Retire

Spec == Init /\ [][Next]_avars

=============================================================================
