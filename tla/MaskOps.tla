------------------------------ MODULE MaskOps ------------------------------
(***************************************************************************)
(* The mask of a DSV4 attention call over the main keys.  A call has T     *)
(* queries and the n marked slots of the stash, in slot order; query t     *)
(* brings a row of candidate slots (indices, -1 for none), of which the    *)
(* first topk_length[t] count, and the indexer may bring pos_kept, a       *)
(* Boolean per query and column that filters the first columns of the      *)
(* row, once its -1 entries are dropped.  A query left with nothing reads  *)
(* a causal prefix of the slots instead.                                   *)
(*                                                                         *)
(* The code has the mask twice: a loop over the queries, and the           *)
(* vectorized form that replaces it and is said to be bit-identical.       *)
(* A mask is modelled as, for each query, the set of keys it reads.        *)
(***************************************************************************)
EXTENDS Integers, FiniteSets

CONSTANT NoKept  \* pos_kept is None

ASSUME NoKeptAssumption == NoKept \notin [rows : Nat, cov : Nat, bits : SUBSET (Nat \X Nat)]

-----------------------------------------------------------------------------
(* A call is a record: T, C, vslots, indices, len, and kept, which is      *)
(* NoKept or has rows (its Tp), cov columns and its TRUE cells, bits.      *)

N(c) == Cardinality(c.vslots)

\* inv[slot]: the key of a slot, -1 for one that is not marked.
Inv(c, slot) ==
    IF slot \in c.vslots THEN Cardinality({s \in c.vslots : s < slot}) ELSE -1

Clamp(x, lo, hi) == IF x < lo THEN lo ELSE IF x > hi THEN hi ELSE x

-----------------------------------------------------------------------------
(* The loop. *)

\* The columns of row t that survive indices[t][:L] and idx >= 0.
Candidates(c, t) == {k \in 0..(c.C - 1) : k < c.len[t] /\ c.indices[t][k] >= 0}

\* idx after the compaction: its m-th entry is this column.
Column(c, t, m) ==
    CHOOSE k \in Candidates(c, t) : Cardinality({j \in Candidates(c, t) : j < k}) = m

\* keep, over the compacted row.
LoopKeep(c, t) ==
    LET len == Cardinality(Candidates(c, t))
        m   == IF c.kept.cov < len THEN c.kept.cov ELSE len
    IN  IF c.kept # NoKept /\ t < c.kept.rows /\ len > 0
        THEN {r \in 0..(len - 1) : r < m => <<t, r>> \in c.kept.bits}
        ELSE 0..(len - 1)

LoopRow(c, t) ==
    LET idx == {c.indices[t][Column(c, t, r)] : r \in LoopKeep(c, t)}
    IN  IF idx = {}
        THEN 0..(Clamp(N(c) - (c.T - 1) + t, 0, N(c)) - 1)
        ELSE {Inv(c, s) : s \in idx} \ {-1}

LoopMask(c) == [t \in 0..(c.T - 1) |-> LoopRow(c, t)]

-----------------------------------------------------------------------------
(* _build_coverage_mask_vectorized. *)

\* valid[t, k].
Valid(c, t, k) == k < c.len[t] /\ c.indices[t][k] >= 0

\* Mutant: the rank is not made to start from zero.
RankFromOne(c, t, k) == Cardinality({j \in 0..k : Valid(c, t, j)})

\* cumsum(valid) - 1.
Rank(c, t, k) == Cardinality({j \in 0..k : Valid(c, t, j)}) - 1

\* pk_full[t, k]: a rank beyond the coverage, or pos_kept at the clamped
\* rank; FALSE below the last row of pos_kept.
PkFull(c, t, k) ==
    \/ Rank(c, t, k) >= c.kept.cov
    \/ t < c.kept.rows /\ <<t, Clamp(Rank(c, t, k), 0, c.kept.cov - 1)>> \in c.kept.bits

\* torch.where(apply, valid & pk_full, valid).
VecKeep(c, t) ==
    LET apply == t < c.kept.rows /\ \E k \in 0..(c.C - 1) : Valid(c, t, k)
    IN  {k \in 0..(c.C - 1) :
            /\ Valid(c, t, k)
            /\ c.kept # NoKept /\ apply => PkFull(c, t, k)}

VecRow(c, t) ==
    LET pos == {Inv(c, c.indices[t][k]) : k \in VecKeep(c, t)}
    IN  IF VecKeep(c, t) = {}
        THEN {k \in 0..(N(c) - 1) : k < Clamp(N(c) - (c.T - 1) + t, 0, N(c))}
        ELSE {p \in pos : p >= 0}

VecMask(c) == [t \in 0..(c.T - 1) |-> VecRow(c, t)]

=============================================================================
