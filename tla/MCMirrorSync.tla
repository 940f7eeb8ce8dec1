---------------------------- MODULE MCMirrorSync ----------------------------
(***************************************************************************)
(* Constant values for MirrorSync: two tenants, a store of the first, two  *)
(* runners.                                                                *)
(***************************************************************************)
EXTENDS MirrorSync, TLC

CONSTANTS r1, r2, t1, t2, s1

MCOwner == s1 :> t1
=============================================================================
