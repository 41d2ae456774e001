------------------------------ MODULE KeyForms ------------------------------
(***************************************************************************)
(* What becomes of a query or a key before the attention: RMS norm, RoPE,  *)
(* and the rounding of a key's other dimensions to fp8 with a power-of-two *)
(* scale per tile.                                                         *)
(*                                                                         *)
(* A head is a sequence of integers, its last 2 * Pairs the part RoPE      *)
(* turns, by quarter turns, so that everything is exact.  A normed head is *)
(* kept as its numerators v and the sum of squares ss they are still to be *)
(* divided by.  A tile is counted in units of the smallest fp8 step; fp8   *)
(* here has one bit of mantissa.                                           *)
(***************************************************************************)
EXTENDS Integers, Sequences, FiniteSets, SequencesExt

CONSTANTS
    Pairs,   \* pairs of dimensions RoPE turns (32)
    FpMax,   \* the largest fp8 number (448), not a power of two
    Bias     \* added to a tile's exponent to store it in a byte (127)

ASSUME KeyFormsAssumption ==
    /\ {Pairs, FpMax} \subseteq Nat \ {0}
    /\ Bias \in Nat

Dot(x, y) == FoldLeftDomain(LAMBDA a, i : a + x[i] * y[i], 0, x)

SumSq(x) == Dot(x, x)

Nope(x) == SubSeq(x, 1, Len(x) - 2 * Pairs)

Turned(x) == SubSeq(x, Len(x) - 2 * Pairs + 1, Len(x))

-----------------------------------------------------------------------------
(* RoPE. *)

\* freqs_cis[p], of the j-th pair: j quarter turns a position.
Real(p, j) == CASE (p * j) % 4 = 0 -> 1 [] (p * j) % 4 = 2 -> -1 [] OTHER -> 0

Imag(p, j) == CASE (p * j) % 4 = 1 -> 1 [] (p * j) % 4 = 3 -> -1 [] OTHER -> 0

\* Mutant: the first half of the dimensions is paired with the second.
RotateHalves(x, p, inverse) ==
    LET fi(j) == IF inverse THEN -Imag(p, j) ELSE Imag(p, j)
    IN  [i \in 1..(2 * Pairs) |->
            LET j == ((i - 1) \div 2) + 1
            IN  IF i % 2 = 1 THEN x[j] * Real(p, j) - x[j + Pairs] * fi(j)
                             ELSE x[j] * fi(j) + x[j + Pairs] * Real(p, j)]

\* Neighbouring dimensions are the real and the imaginary part of a pair.
Rotate(x, p, inverse) ==
    LET fi(j) == IF inverse THEN -Imag(p, j) ELSE Imag(p, j)
    IN  [i \in 1..(2 * Pairs) |->
            LET j  == ((i - 1) \div 2) + 1
                xr == x[2 * j - 1]
                xi == x[2 * j]
            IN  IF i % 2 = 1 THEN xr * Real(p, j) - xi * fi(j) ELSE xr * fi(j) + xi * Real(p, j)]

\* A query: norm without a weight over the whole head, then the last
\* dimensions are turned.
QNormRope(x, p) == [v |-> Nope(x) \o Rotate(Turned(x), p, FALSE), ss |-> SumSq(x)]

\* A key: the norm has a weight for each dimension, applied before the turn.
KNormRope(x, w, p) ==
    LET xn == [i \in DOMAIN x |-> x[i] * w[i]]
    IN  [v |-> Nope(xn) \o Rotate(Turned(xn), p, FALSE), ss |-> SumSq(x)]

\* Heads that consist of the turned part alone, forth or back.
RopeInplace(x, p, inverse) == Rotate(x, p, inverse)

-----------------------------------------------------------------------------
(* fp8 with a power-of-two scale. *)

\* Sign, and the magnitudes below and at most FpMax that fp8 has: up to three
\* steps one by one, then with one bit of mantissa.
Magnitudes == {m \in 0..FpMax : m <= 3 \/ \E k \in 1..m : m = 2 ^ k \/ m = 3 * 2 ^ (k - 1)}

EvenMantissa(m) == m \in {0, 2} \/ \E k \in 1..m : m = 2 ^ k

Abs(v) == IF v < 0 THEN -v ELSE v

\* The code nearest to v / 2^s, the one with an even mantissa of two.
ToFp8(v, s) ==
    LET dist(m) == Abs(Abs(v) - m * 2 ^ s)
        near == {m \in Magnitudes : \A k \in Magnitudes : dist(m) <= dist(k)}
        m == CHOOSE x \in near : Cardinality(near) > 1 => EvenMantissa(x)
    IN  IF v < 0 THEN -m ELSE m

MaxAbs(tile) == FoldLeft(LAMBDA a, v : IF Abs(v) > a THEN Abs(v) ELSE a, 1, tile)

\* Mutant: the logarithm is rounded down.
TileScaleFloor(tile) ==
    LET over == {s \in 0..(2 * Bias) : FpMax * 2 ^ s <= MaxAbs(tile)}
    IN  IF over = {} THEN 0 ELSE CHOOSE s \in over : \A r \in over : r <= s

\* ceil(log2(max_abs / fp8_max)), max_abs no less than its floor.
TileScale(tile) ==
    CHOOSE s \in 0..MaxAbs(tile) :
        /\ MaxAbs(tile) <= FpMax * 2 ^ s
        /\ s > 0 => MaxAbs(tile) > FpMax * 2 ^ (s - 1)

\* clamp(fi.min, fi.max) of the scaled value, in units.
Clamped(v, s) ==
    IF Abs(v) <= FpMax * 2 ^ s THEN v ELSE IF v < 0 THEN -FpMax * 2 ^ s ELSE FpMax * 2 ^ s

Codes(tile) == [i \in DOMAIN tile |-> ToFp8(Clamped(tile[i], TileScale(tile)), TileScale(tile))]

\* A tile as the paged cache stores it.
Pack(tile) == [codes |-> Codes(tile), byte |-> (TileScale(tile) + Bias) % 256]

\* A tile as the key stash keeps it: rounded, and scaled back.
Roundtrip(tile) == [i \in DOMAIN tile |-> Codes(tile)[i] * 2 ^ TileScale(tile)]

\* What a reader of the paged cache makes of a tile.
Unpack(t) == [i \in DOMAIN t.codes |-> t.codes[i] * 2 ^ (t.byte - Bias)]

-----------------------------------------------------------------------------
(* What they promise. *)

\* The score of a turned query and key is that of the heads before, turned
\* against one another by the difference of their positions alone.
RelativeDot(q, k, delta) ==
    FoldLeft(LAMBDA a, j :
                LET re == (q[2 * j - 1] * k[2 * j - 1]) + (q[2 * j] * k[2 * j])
                    im == (q[2 * j] * k[2 * j - 1]) - (q[2 * j - 1] * k[2 * j])
                IN  a + (re * Real(delta, j)) - (im * Imag(delta, j)),
             0, [j \in 1..Pairs |-> j])

\* Nothing is clamped away, and a value is off by half a step of its own
\* size at most, or of the tile's smallest.
CloseTo(rounded, tile) ==
    \A i \in DOMAIN tile :
        LET err == Abs(rounded[i] - tile[i])
        IN  4 * err <= Abs(tile[i]) \/ 2 * err <= 2 ^ TileScale(tile)

=============================================================================
