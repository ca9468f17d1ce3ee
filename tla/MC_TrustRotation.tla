------------------------- MODULE MC_TrustRotation -------------------------
(***************************************************************************)
(* Model-checking instance of TrustRotation: the constants the .cfg files *)
(* give values to.                                                         *)
(***************************************************************************)
EXTENDS TrustRotation

MCNItems == 2
MCNItems1 == 1
MCMaxGen == 2
MCMaxGen3 == 3
MCMaxFailures == 1
=============================================================================
