--------------------------- MODULE MCCompressedKV ---------------------------
(* Instances of CompressedKV for TLC. *)
EXTENDS CompressedKV, TLC

\* A ratio-4 layer, with overlap, before a wider layer without.
RatioC4C6 == (1 :> 4) @@ (2 :> 6)

\* One ratio-4 layer.
RatioC4 == (1 :> 4)

\* The rows of req_to_token are interchangeable, and the identities too.
RowSymmetry == Permutations(Row) \cup Permutations(Rid)

=============================================================================
