----------------------------- MODULE MCKdaCache -----------------------------
(* KdaCache with a conv window of four: a chunk of one or two tokens that *)
(* goes on with a prompt is too short, one of three is not.                *)
EXTENDS KdaCache, TLC

KdaSymmetry == Permutations(Slot) \cup Permutations(Rid)

=============================================================================
