----------------------------- MODULE MCKvStash -----------------------------
(* The stash on a small pool, with a buffer that starts smaller than it,   *)
(* and the locations of the compressed blocks over the same allocator.     *)
EXTENDS KvStash, CompressedLocs, TLC

ReqSymmetry == Permutations(Req)

=============================================================================
