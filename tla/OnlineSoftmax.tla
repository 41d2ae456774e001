--------------------------- MODULE OnlineSoftmax ---------------------------
(***************************************************************************)
(* The softmax-weighted sums of the C++ kernels, computed exactly.  A      *)
(* score is a small natural number or NegInf (a masked position), exp is   *)
(* 2^x, and weights are counted in units of 1/Unit, so that every rescale  *)
(* of a running sum is exact and a result is a fraction <<num, den>>.      *)
(* Not-a-number, which exp(-inf - -inf) makes, is a value of its own, and  *)
(* so is the tiny positive number the clamped vector exp returns for -inf. *)
(*                                                                         *)
(* Roundings (bf16 operands, one ulp of the vector exp) are left out here. *)
(***************************************************************************)
EXTENDS Integers, Sequences, SequencesExt

CONSTANTS
    MaxScore,  \* scores are 0..MaxScore, or NegInf
    VW,        \* lanes of a vector register (16)
    Block      \* keys of a block of the blockwise kernel (64)

ASSUME OnlineSoftmaxAssumption ==
    /\ MaxScore \in Nat
    /\ VW \in Nat \ {0}
    /\ Block \in Nat \ {0}

NegInf == -1

NaN == -2

Unit == 2 ^ MaxScore

Scores == {NegInf} \cup 0..MaxScore

\* exp(a - b), in units.
Exp(a, b) ==
    CASE a = NegInf /\ b = NegInf -> NaN
      [] a = NegInf /\ b # NegInf -> 0
      [] a >= 0 /\ a >= b         -> Unit * 2 ^ (a - b)
      [] a >= 0 /\ a < b          -> Unit \div 2 ^ (b - a)

\* v * e, e in units.
Times(v, e) == IF NaN \in {v, e} THEN NaN ELSE (v * e) \div Unit

\* The value v with the weight e.
Weighted(e, v) == IF e = NaN THEN NaN ELSE e * v

Plus(v, w) == IF NaN \in {v, w} THEN NaN ELSE v + w

\* tl and tacc count the tiny weights, which only show while there is no
\* other weight.
Empty == [m |-> NegInf, l |-> 0, acc |-> 0, tl |-> 0, tacc |-> 0]

\* The greatest score of a row, no less than m.
Highest(m, xs) == FoldLeft(LAMBDA a, x : IF x > a THEN x ELSE a, m, xs)

SumOf(e) == FoldLeft(LAMBDA a, x : a + x, 0, e)

\* The same where a weight may not be a number.
SumOrNaN(e) == FoldLeft(Plus, 0, e)

-----------------------------------------------------------------------------
(* The compressor's pool over a window, of one channel. *)

\* Mutant: the difference is exponentiated even when both sides are -inf.
DecayUnguarded(st, x) ==
    IF x > st.m THEN Exp(st.m, x) ELSE Exp(x, st.m)

\* The one exponential of an update: the smaller of the running maximum and
\* the score against the larger; a masked side never reaches the exponential.
Decay(st, x) ==
    LET up     == x > st.m
        masked == IF up THEN st.m = NegInf ELSE x = NegInf
    IN  IF masked THEN 0
        ELSE IF up THEN Exp(st.m, x) ELSE Exp(x, st.m)

\* One position of the streaming pool.
Update(st, x, v) ==
    LET up   == x > st.m
        t    == Decay(st, x)
        corr == IF up THEN t ELSE Unit
        e    == IF up THEN Unit ELSE t
    IN  [st EXCEPT !.m   = IF up THEN x ELSE @,
                   !.l   = Plus(Times(@, corr), e),
                   !.acc = Plus(Times(@, corr), Weighted(e, v))]

\* The same with the clamped vector exp, for which exp(-inf) is tiny.
UpdateClamped(st, x, v) ==
    LET s == Update(st, x, v)
    IN  IF s.l = 0 THEN [s EXCEPT !.tl = @ + 1, !.tacc = @ + v]
        ELSE [s EXCEPT !.tl = 0, !.tacc = 0]

Quotient(st) == IF st.l # 0 THEN <<st.acc, st.l>> ELSE <<st.tacc, st.tl>>

HasWeight(st) == st.l > 0 \/ (st.l = 0 /\ st.tl > 0)

\* acc / l, and 0 for a window that is masked altogether.
Finish(st) == IF HasWeight(st) THEN Quotient(st) ELSE <<0, 1>>

\* Mutant: the test of the scalar form.
FinishLikeScalar(st) == IF HasWeight(st) THEN Quotient(st) ELSE <<0, 1>>

\* With the clamped exp the sum of a masked window is not 0: the maximum is
\* tested as well.
FinishClamped(st) ==
    IF st.m # NegInf /\ HasWeight(st) THEN Quotient(st) ELSE <<0, 1>>

\* The two passes: the maximum of the window, then one exponential each.
TwoPassMax(xs) == Highest(NegInf, xs)

TwoPass(st, xs, vs) ==
    LET m == TwoPassMax(xs)
        Add(s, r) ==
            LET e == IF xs[r] = NegInf THEN 0 ELSE Exp(xs[r], m)
            IN  [s EXCEPT !.l = @ + e, !.acc = @ + e * vs[r]]
    IN  FoldLeftDomain(Add, [st EXCEPT !.m = m], xs)

Streaming(st, xs, vs) ==
    FoldLeftDomain(LAMBDA s, r : Update(s, xs[r], vs[r]), st, xs)

\* The vector form on at::vec lanes: the same update of each lane.
StreamingVector(st, xs, vs) == Streaming(st, xs, vs)

\* The intrinsics, with the clamped exp.
StreamingClamped(st, xs, vs) ==
    FoldLeftDomain(LAMBDA s, r : UpdateClamped(s, xs[r], vs[r]), st, xs)

-----------------------------------------------------------------------------
(* Sparse attention of one query and head: a softmax over its keys and a   *)
(* sink, which has a weight and no value.                                  *)

FromSink(s0) == [Empty EXCEPT !.m = s0, !.l = Unit]

\* Flash attention, one key at a time; a masked key is skipped.
AttendStep(st, x, v) ==
    LET mnew == IF x > st.m THEN x ELSE st.m
        corr == Exp(st.m, mnew)
        e    == Exp(x, mnew)
    IN  [st EXCEPT !.m = mnew, !.l = Times(@, corr) + e, !.acc = Times(@, corr) + e * v]

Attend(s0, xs, vs) ==
    LET st == FoldLeftDomain(LAMBDA s, k : AttendStep(s, xs[k], vs[k]), FromSink(s0), xs)
    IN  <<st.acc, st.l>>

AttendMasked(s0, xs, vs, keep) ==
    LET Step(s, k) == IF k \in keep THEN AttendStep(s, xs[k], vs[k]) ELSE s
        st == FoldLeftDomain(Step, FromSink(s0), xs)
    IN  <<st.acc, st.l>>

\* The fused softmax between two matrix products: the sink takes part in the
\* maximum; the weights are summed as they are written.
SoftmaxRow(s0, xs, vs) ==
    LET m == Highest(s0, xs)
        Add(s, k) == [s EXCEPT !.l = @ + Exp(xs[k], m), !.acc = @ + Exp(xs[k], m) * vs[k]]
        st == FoldLeftDomain(Add, [Empty EXCEPT !.m = m, !.l = Exp(s0, m)], xs)
    IN  <<st.acc, st.l>>

\* The number of keys the vector loop covers, VW at a time.
Vectorized(n) == VW * (n \div VW)

\* The same with the exponentials VW at a time, summed lane by lane and
\* reduced at the end, and a scalar tail.
SoftmaxRowVector(s0, xs, vs) ==
    LET m    == Highest(s0, xs)
        e    == [k \in DOMAIN xs |-> Exp(xs[k], m)]
        main == Vectorized(Len(xs))
        Lane(i) == SumOf([k \in DOMAIN xs |-> IF k <= main /\ k % VW = i % VW THEN e[k] ELSE 0])
        vacc == SumOf([i \in 1..VW |-> Lane(i)])
        tail == SumOf([k \in DOMAIN xs |-> IF k > main THEN e[k] ELSE 0])
        w    == SumOf([k \in DOMAIN xs |-> e[k] * vs[k]])
    IN  <<w, Exp(s0, m) + vacc + tail>>

\* bf16 operands in both products, and in the product for the scores only:
\* the softmax between them is the one above.
AttendBf16Bmm(s0, xs, vs) == SoftmaxRowVector(s0, xs, vs)

AttendScoreHybrid(s0, xs, vs) == SoftmaxRowVector(s0, xs, vs)

\* The whole-tensor form: the maximum of the scores, then of the sink.
GlobalSoftmax(s0, xs, vs) ==
    LET top == Highest(NegInf, xs)
        m   == IF top > s0 THEN top ELSE s0
        e   == [k \in DOMAIN xs |-> Exp(xs[k], m)]
    IN  <<SumOf([k \in DOMAIN xs |-> e[k] * vs[k]]), SumOf(e) + Exp(s0, m)>>

\* Mutant: the running sum is rescaled and the accumulator is not.
BlockStepSumOnly(st, xs, vs) ==
    LET m  == Highest(st.m, xs)
        rc == IF st.m = NegInf THEN 0 ELSE Exp(st.m, m)
        Add(s, k) == [s EXCEPT !.l = @ + Exp(xs[k], m), !.acc = @ + Exp(xs[k], m) * vs[k]]
    IN  FoldLeftDomain(Add, [st EXCEPT !.m = m, !.l = Times(@, rc)], xs)

\* A block of keys: the sum and the accumulator so far are rescaled to the
\* new maximum, by 0 for the first block.
BlockStep(st, xs, vs) ==
    LET m  == Highest(st.m, xs)
        rc == IF st.m = NegInf THEN 0 ELSE Exp(st.m, m)
        Add(s, k) == [s EXCEPT !.l = @ + Exp(xs[k], m), !.acc = @ + Exp(xs[k], m) * vs[k]]
    IN  FoldLeftDomain(Add, [st EXCEPT !.m = m, !.l = Times(@, rc), !.acc = Times(@, rc)], xs)

\* The sink is added after the last block, against the final maximum.
Blockwise(s0, xs, vs) ==
    LET Cut(s, b) == SubSeq(s, (b - 1) * Block + 1, IF b * Block < Len(s) THEN b * Block ELSE Len(s))
        blocks == (Len(xs) + Block - 1) \div Block
        st == FoldLeft(LAMBDA s, b : BlockStep(s, Cut(xs, b), Cut(vs, b)), Empty,
                       [b \in 1..blocks |-> b])
    IN  <<st.acc, st.l + Exp(s0, st.m)>>

-----------------------------------------------------------------------------
(* The model's own attention in torch, over the keys of two sources, masked *)
(* by -inf.  It may come without a sink: s0 is NegInf then.                 *)

\* softmax: the weights of a row against their maximum, and their sum.
RowSoftmax(ys) ==
    LET e == [k \in DOMAIN ys |-> Exp(ys[k], TwoPassMax(ys))]
    IN  [e |-> e, l |-> SumOrNaN(e)]

\* The weighted values over the sum; a row that is not a number becomes 0.
NanToZero(e, l, vs) ==
    IF l = NaN THEN <<0, 1>> ELSE <<SumOf([k \in DOMAIN vs |-> e[k] * vs[k]]), l>>

\* The sink is a column of the softmax, which is dropped afterwards.
CatSoftmax(s0, xs, vs) ==
    LET row == RowSoftmax(IF s0 = NegInf THEN xs ELSE Append(xs, s0))
    IN  NanToZero(row.e, row.l, vs)

\* Mutant: the sink has no part in the maximum.
FusedSoftmaxLateSink(s0, xs, vs) ==
    LET m   == TwoPassMax(xs)
        e   == [k \in DOMAIN xs |-> Exp(xs[k], m)]
        sum == SumOrNaN(e)
    IN  IF s0 = NegInf THEN NanToZero(e, sum, vs)
        ELSE <<SumOrNaN([k \in DOMAIN xs |-> Weighted(e[k], vs[k])]),
               Plus(sum, Exp(s0, m))>>

\* The sink is folded into the maximum and the sum, so that no row of scores
\* gives a sum that is not a number.
FusedSoftmax(s0, xs, vs) ==
    LET m   == TwoPassMax(Append(xs, s0))
        e   == [k \in DOMAIN xs |-> Exp(xs[k], m)]
        sum == SumOrNaN(e)
    IN  IF s0 = NegInf THEN NanToZero(e, sum, vs)
        ELSE <<SumOrNaN([k \in DOMAIN xs |-> Weighted(e[k], vs[k])]),
               Plus(sum, Exp(s0, m))>>

\* One query at a time over the keys it has; one without a key is left at 0.
LoopSoftmax(s0, xs, vs) ==
    LET kept == FoldLeftDomain(LAMBDA ks, k : IF xs[k] = NegInf THEN ks ELSE Append(ks, k), <<>>, xs)
        Of(f) == [j \in DOMAIN kept |-> f[kept[j]]]
    IN  IF kept = <<>> THEN <<0, 1>> ELSE CatSoftmax(s0, Of(xs), Of(vs))

-----------------------------------------------------------------------------
(* What they promise. *)

\* The sum of Weight(i) * Value(i) over the positions that are not masked.
WeightedSum(xs, vs) ==
    SumOf([i \in DOMAIN xs |-> IF xs[i] = NegInf THEN 0 ELSE 2 ^ xs[i] * vs[i]])

Ones(xs) == [i \in DOMAIN xs |-> 1]

SameValue(p, q) == p[1] * q[2] = q[1] * p[2] /\ p[2] > 0 /\ q[2] > 0

\* p is the softmax of the window over its unmasked positions, 0 if none.
IsPool(p, xs, vs) ==
    LET den == WeightedSum(xs, Ones(xs))
    IN  SameValue(p, IF den = 0 THEN <<0, 1>> ELSE <<WeightedSum(xs, vs), den>>)

\* p is the attention over the keys and the sink s0, if there is one.
IsAttention(p, s0, xs, vs) ==
    LET den == WeightedSum(xs, Ones(xs)) + IF s0 = NegInf THEN 0 ELSE 2 ^ s0
    IN  SameValue(p, IF den = 0 THEN <<0, 1>> ELSE <<WeightedSum(xs, vs), den>>)

=============================================================================
