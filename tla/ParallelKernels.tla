-------------------------- MODULE ParallelKernels --------------------------
(***************************************************************************)
(* One call of a C++ kernel.  The dispatcher picks a path; a path is one   *)
(* or two parallel loops over tasks (at::parallel_for), and a task fills   *)
(* cells of the output, or of a buffer the next loop reads.  The threads   *)
(* run their ranges of a loop in any order; a loop ends when all have.     *)
(* The forms in torch that stand next to the kernels are one task a row.   *)
(*                                                                         *)
(* The output is allocated without being cleared, so it has the cells that *)
(* were filled and no other.  Tensors are made from a short seed of        *)
(* scores, so that rows differ.  Cells are numbered as the output is laid  *)
(* out in memory.                                                          *)
(***************************************************************************)
EXTENDS OnlineSoftmax, KeyForms, FiniteSetsExt

CONSTANTS
    SmallWork,  \* elements under which the pool runs in one task (512 * 1024)
    RowGrain,   \* rows of a task of the sinkhorn kernel (512)
    Tile,       \* elements of a tile of the combine kernel (1024)
    Fp32MaxS,   \* keys up to which the logits take the fp32 path (64)
    MaxTile,    \* rows of the largest tile of the logits (1024)
    MaxN,       \* bound on rows
    MaxD,       \* bound on channels, keys or columns
    MaxThreads, \* bound on threads
    WindowLen,  \* positions of the seed
    MaxValue    \* bound on the multiplier of a key's values

ASSUME ParallelKernelsAssumption ==
    /\ {SmallWork, RowGrain, Tile, MaxTile, MaxN, MaxD, MaxThreads, WindowLen} \subseteq Nat \ {0}
    /\ {Fp32MaxS, MaxValue} \subseteq Nat

VARIABLES
    call,     \* the kernel called, its shape, its inputs and its options
    running,  \* "first", "second" (loops) or "done"
    pos,      \* the next task of each thread
    scratch,  \* what each thread's buffers hold
    buf,      \* what the first loop leaves to the second
    out,      \* the cells of the output that have been filled
    writes    \* how many cells have been written, a cell twice if written twice

kernelVars == <<call, running, pos, scratch, buf, out, writes>>

CeilDiv(a, b) == (a + b - 1) \div b

Least(a, b) == IF a < b THEN a ELSE b

Most(a, b) == IF a > b THEN a ELSE b

\* The seed, read from an offset.
Seed(c, i) == c.seed[(i % WindowLen) + 1]

-----------------------------------------------------------------------------
(* at::parallel_for: the range of each thread.  A loop of one task, or of  *)
(* no more than its grain, runs on the calling thread.                     *)

Ranges(n, grain, threads) ==
    LET used  == IF grain > 0 THEN Least(threads, CeilDiv(n, grain)) ELSE threads
        chunk == CeilDiv(n, used)
    IN  [t \in 0..(MaxThreads - 1) |->
            IF n <= 1 \/ n <= grain \/ threads = 1
            THEN IF t = 0 THEN <<0, n>> ELSE <<n, n>>
            ELSE <<Least(t * chunk, n), Least((t + 1) * chunk, n)>>]

-----------------------------------------------------------------------------
(* The compressor: [N, WindowLen, D] to [N, D]. *)

\* Channels of a tile: about two tasks a thread, a multiple of VW.
PoolTile(c) ==
    LET dpt == Most(1, CeilDiv(2 * c.threads, c.n))
    IN  VW * CeilDiv(Most(VW, CeilDiv(c.d, dpt)), VW)

PoolTiles(c) == CeilDiv(c.d, PoolTile(c))

PoolTasks(c) == c.n * PoolTiles(c)

\* The scalar form runs small work in one task, unless the grain is set.
PoolGrain(c) ==
    CASE c.kernel # "pool"                                          -> 0
      [] c.kernel = "pool" /\ c.grain # NegInf                      -> c.grain
      [] c.kernel = "pool" /\ c.grain = NegInf
            /\ c.n * WindowLen * c.d < SmallWork                    -> PoolTasks(c)
      [] OTHER                                                      -> 0

PoolScores(c, n, d) == [r \in 1..WindowLen |-> Seed(c, n + d + r)]

PoolValues(c, n, d) == [r \in 1..WindowLen |-> 1 + (n * c.d + d) * WindowLen + r]

\* A lane of the vector loop, or of its scalar tail.
PoolLane(c, st, xs, vs, vector) ==
    CASE c.kernel = "pool_multipass"            -> TwoPass(st, xs, vs)
      [] c.kernel = "pool_vexp" /\ vector       -> StreamingVector(st, xs, vs)
      [] c.kernel = "pool_fp32intrin" /\ vector -> StreamingClamped(st, xs, vs)
      [] OTHER                                  -> Streaming(st, xs, vs)

\* Mutant: the buffers keep what the last tile left in them.
PoolStartStale(s, j) == IF j \in DOMAIN s THEN s[j] ELSE Empty

\* m, l and acc of a lane at the start of a tile.
PoolStart(s, j) == Empty

\* Mutant: a full tile at the end of a row.
PoolWidthFull(c, d0) == PoolTile(c)

PoolWidth(c, d0) == Least(PoolTile(c), c.d - d0)

PoolTask(c, t, s) ==
    LET n  == t \div PoolTiles(c)
        d0 == (t % PoolTiles(c)) * PoolTile(c)
        dd == PoolWidth(c, d0)
        lanes == [j \in 0..(dd - 1) |->
                    PoolLane(c, PoolStart(s, j), PoolScores(c, n, d0 + j),
                             PoolValues(c, n, d0 + j), j < Vectorized(dd))]
    IN  [cells   |-> [i \in {n * c.d + d0 + j : j \in 0..(dd - 1)} |->
                        LET st == lanes[i - n * c.d - d0]
                        IN  IF c.kernel = "pool_fp32intrin" THEN FinishClamped(st) ELSE Finish(st)],
         scratch |-> lanes]

-----------------------------------------------------------------------------
(* MHC combine: [M, hc * H] and [M, hc] to [M, H], by tiles of H. *)

Clusters == 2

\* x_flat[m, k * H + h], and pre[m, k], of the seed.
Xflat(c, m, i) == 1 + m * Clusters * c.d + i

Pre(c, m, k) == Seed(c, m + k) + 1

\* Mutant: the accumulators are cleared once for the whole row.
CombineStartStale(s, i, h0) == IF h0 = 0 \/ i \notin DOMAIN s THEN 0 ELSE s[i]

\* acc of an element at the start of a tile.
CombineStart(s, i, h0) == 0

\* The tiles of a row, one after another; the last leaves its sums in acc.
CombineRow(c, m, s) ==
    LET Sums(acc, h0) ==
            [i \in 0..(Least(Tile, c.d - h0) - 1) |->
                CombineStart(acc, i, h0)
                  + MapThenSumSet(LAMBDA k : Pre(c, m, k) * Xflat(c, m, k * c.d + h0 + i),
                                  0..(Clusters - 1))]
        Next1(st, b) ==
            LET h0  == (b - 1) * Tile
                acc == Sums(st.acc, h0)
            IN  [acc |-> acc,
                 y |-> [h \in DOMAIN st.y \cup {h0 + i : i \in DOMAIN acc} |->
                          IF h >= h0 THEN acc[h - h0] ELSE st.y[h]]]
    IN  FoldLeft(Next1, [acc |-> s, y |-> <<>>], [b \in 1..CeilDiv(c.d, Tile) |-> b])

CombineTask(c, t, s) ==
    LET row == CombineRow(c, t, s)
    IN  [cells   |-> [i \in {t * c.d + h : h \in 0..(c.d - 1)} |-> row.y[i - t * c.d]],
         scratch |-> row.acc]


-----------------------------------------------------------------------------
(* Sparse attention: N queries of H = d heads over WindowLen keys. *)

AttendScores(c, n, h) == [k \in 1..WindowLen |-> Seed(c, n + h + k)]

AttendValues(c, n) == [k \in 1..WindowLen |-> 1 + n * WindowLen + k]

\* best-of: one query is attended key by key, more with matrix products.
AttendPath(c) ==
    CASE c.kernel = "attend_bestof"    -> IF c.n = 1 THEN "attend" ELSE "attend_fp32bmm"
      [] c.kernel = "attend_bestof_hx" -> IF c.n = 1 THEN "attend" ELSE "attend_fp32bmm_hx"
      [] OTHER                         -> c.kernel

\* The heads of a query are one task of the blockwise kernel, and tasks of
\* their own in the others.
AttendTasks(c) == IF AttendPath(c) = "attend_blockbf16" THEN c.n ELSE c.n * c.d

AttendHead(c, n, h) ==
    LET xs == AttendScores(c, n, h)
        vs == AttendValues(c, n)
        path == AttendPath(c)
    IN  CASE path = "attend"        -> Attend(c.sink, xs, vs)
          [] path = "attend_masked" ->
                AttendMasked(c.sink, xs, vs, {k \in 1..WindowLen : xs[k] # NegInf})
          [] path = "attend_fp32bmm"   -> SoftmaxRow(c.sink, xs, vs)
          [] path = "attend_fp32bmm_hx"  -> SoftmaxRowVector(c.sink, xs, vs)
          [] path = "attend_blockbf16"   -> Blockwise(c.sink, xs, vs)
          [] path = "attend_bf16bmm_hx"  -> AttendBf16Bmm(c.sink, xs, vs)
          [] path = "attend_scorehybrid" -> AttendScoreHybrid(c.sink, xs, vs)
          [] path = "attend_amx"         -> GlobalSoftmax(c.sink, xs, vs)
          [] path = "mla_cat"            -> CatSoftmax(c.sink, xs, vs)
          [] path = "mla_fused"          -> FusedSoftmax(c.sink, xs, vs)
          [] path = "mla_loop"           -> LoopSoftmax(c.sink, xs, vs)

AttendTask(c, t, s) ==
    LET tasks == IF AttendPath(c) = "attend_blockbf16"
                 THEN {t * c.d + h : h \in 0..(c.d - 1)} ELSE {t}
    IN  [cells |-> [i \in tasks |-> AttendHead(c, i \div c.d, i % c.d)], scratch |-> s]

-----------------------------------------------------------------------------
(* Top-k: [N, S] to a set of k keys a row, S = d. *)

Logit(c, n, s) == Seed(c, n + s)

\* nth_element over the keys in set: the k first are k of the largest, in no
\* order, and which of the equal ones is not said.
Selections(c, n, keys, k) ==
    {sel \in kSubset(k, keys) :
        \A i \in sel : \A j \in keys \ sel : Logit(c, n, i) >= Logit(c, n, j)}

K(c) == Least(c.k, c.d)

\* Chunks of a row: no more than the threads left to it, each at least k long.
Chunks(c) == Least(Most(1, c.threads \div Most(c.n, 1)), Most(1, c.d \div Most(K(c), 1)))

TopkPath(c) ==
    LET wanted == CASE c.grain = 0                               -> "serial"
                    [] c.grain = 1                               -> "chunked"
                    [] c.grain = NegInf /\ c.n = 1              -> "serial"
                    [] c.grain = NegInf /\ c.n > 1 /\ c.n >= c.threads -> "rows"
                    [] c.grain = NegInf /\ c.n > 1 /\ c.n < c.threads  ->
                         IF 2 * K(c) <= c.d \div Most(1, c.threads \div c.n)
                         THEN "chunked" ELSE "rows"
    IN  IF wanted = "chunked" /\ Chunks(c) <= 1 THEN "rows" ELSE wanted

\* Mutant: equal chunks, and what is left over belongs to none.
ChunkEqual(c, i) == (i * (c.d \div Chunks(c)))..((i + 1) * (c.d \div Chunks(c)) - 1)

\* The keys of a chunk.
Chunk(c, i) == ((i * c.d) \div Chunks(c))..(((i + 1) * c.d) \div Chunks(c) - 1)

\* One candidate list of the first loop.
TopkLocal(c, t, s) ==
    LET n    == t \div Chunks(c)
        keys == Chunk(c, t % Chunks(c))
    IN  {[cells |-> [i \in {t} |-> sel], scratch |-> s]
            : sel \in Selections(c, n, keys, Least(K(c), Cardinality(keys)))}

\* The second loop: the best of a row's candidates.
TopkMerge(c, n, s) ==
    LET all == UNION {buf[n * Chunks(c) + i] : i \in 0..(Chunks(c) - 1)}
    IN  {[cells |-> [i \in {n} |-> sel], scratch |-> s]
            : sel \in Selections(c, n, all, Least(K(c), Cardinality(all)))}

\* A whole row at once.
TopkRow(c, n, s) ==
    {[cells |-> [i \in {n} |-> sel], scratch |-> s]
        : sel \in Selections(c, n, 0..(c.d - 1), K(c))}

-----------------------------------------------------------------------------
(* Indexer logits: [N, H, 1] queries and [N, S, 1] keys to [N, S], S = d.  *)
(* Bf is the rounding to bf16: what matters of it is that some numbers are *)
(* not representable, and that rounding twice is rounding once.            *)

Bf(v) == 2 * (v \div 2)

Query(n, h) == IF (n + h) % 2 = 0 THEN 2 ELSE -2

Key(c, n, s) == Seed(c, n + s)

HeadWeight(h) == 3 - 2 * h

Relu(v) == IF v > 0 THEN v ELSE 0

Heads == 0..(Clusters - 1)

\* The epilogue of a key's scores by head: every stage is rounded, the heads
\* are summed in fp32.
Epilogue(score) ==
    Bf(MapThenSumSet(LAMBDA h : Bf(Relu(score[h]) * Bf(HeadWeight(h))), Heads))

Stages(score) == Epilogue([h \in Heads |-> Bf(score[h])])

\* The entry point: few keys in fp32, one row at once, else by tiles.
LogitsPath(c) ==
    CASE c.kernel # "logits"                                     -> c.kernel
      [] c.kernel = "logits" /\ c.d <= Fp32MaxS                  -> "logits_fp32avx"
      [] c.kernel = "logits" /\ c.d > Fp32MaxS /\ c.n = 1        -> "logits_m1"
      [] c.kernel = "logits" /\ c.d > Fp32MaxS /\ c.n > 1        -> "logits_tiled"

\* Keys of a tile, c.k tiles a thread.
LogitsTile(c) ==
    LET tpn == Most(1, CeilDiv(c.k * c.threads, c.n))
    IN  Least(MaxTile, Most(VW, VW * CeilDiv(CeilDiv(c.d, tpn), VW)))

\* Mutant: whole tiles only.
LogitsTilesWhole(c) == Most(1, c.d \div LogitsTile(c))

LogitsTiles(c) == CeilDiv(c.d, LogitsTile(c))

\* The first loop of the tiled path: a row's queries, rounded and transposed.
PackTask(c, n, s) ==
    [cells |-> [i \in {n} |-> [h \in Heads |-> Bf(Query(n, h))]], scratch |-> s]

TiledTask(c, t, s) ==
    LET n  == t \div LogitsTiles(c)
        s0 == (t % LogitsTiles(c)) * LogitsTile(c)
        sb == Least(LogitsTile(c), c.d - s0)
    IN  [cells |-> [i \in {n * c.d + s0 + r : r \in 0..(sb - 1)} |->
                      Stages([h \in Heads |-> buf[n][h] * Bf(Key(c, n, i - n * c.d))])],
         scratch |-> s]

\* A key of a row after one product over all keys: in fp32, in bf16 with an
\* fp32 result (one row), in bf16 with a bf16 result.
Fp32Logit(c, n, key) == Stages([h \in Heads |-> Query(n, h) * key])

M1Logit(c, n, key) == Stages([h \in Heads |-> Bf(Query(n, h)) * Bf(key)])

AmxLogit(c, n, key) == Stages([h \in Heads |-> Bf(Bf(Query(n, h)) * Bf(key))])

\* The export whose epilogue is not rounded.
FusedLogit(c, n, key) ==
    MapThenSumSet(LAMBDA h : Relu(Bf(Bf(Query(n, h)) * Bf(key))) * HeadWeight(h), Heads)

LogitTask(c, i, s) ==
    LET n    == i \div c.d
        key  == Key(c, n, i % c.d)
        path == LogitsPath(c)
    IN  [cells |-> [j \in {i} |->
            CASE path = "logits_fp32avx" -> Fp32Logit(c, n, key)
              [] path = "logits_m1"      -> M1Logit(c, n, key)
              [] path = "logits_amxbmm"  -> AmxLogit(c, n, key)
              [] path = "logits_fused"   -> FusedLogit(c, n, key)],
         scratch |-> s]

-----------------------------------------------------------------------------
(* MHC sinkhorn: a Clusters x Clusters matrix of every row of the input is *)
(* made doubly stochastic, c.d iterations.  eps is left out.               *)

Ix == 1..Clusters

gcd[a \in Nat, b \in Nat] == IF b = 0 THEN a ELSE gcd[b, a % b]

Fraction(a, b) == LET g == gcd[a, b] IN <<a \div g, b \div g>>

Ratio(p, q) == Fraction(p[1] * q[2], p[2] * q[1])

Sum2(p, q) == Fraction(p[1] * q[2] + q[1] * p[2], p[2] * q[2])

Product(p, q) == Fraction(p[1] * q[1], p[2] * q[2])

Mix(c, r, i, j) == 2 ^ Seed(c, r + i * Clusters + j)

RowsNormed(M) == [i \in Ix |-> [j \in Ix |-> Ratio(M[i][j], Sum2(M[i][1], M[i][2]))]]

ColsNormed(M) == [i \in Ix |-> [j \in Ix |-> Ratio(M[i][j], Sum2(M[1][j], M[2][j]))]]

\* Mutant: an iteration ends with the rows.
SinkhornLoopRows(M, iters) == FoldLeft(LAMBDA C, i : RowsNormed(C), M, [i \in 1..iters |-> i])

\* Rows, then columns, iters times.
SinkhornLoop(M, iters) == FoldLeft(LAMBDA C, i : ColsNormed(RowsNormed(C)), M, [i \in 1..iters |-> i])

\* A softmax over each row, then the columns, then the remaining iterations.
SinkhornTask(c, r, s) ==
    LET A == [i \in Ix |-> [j \in Ix |-> <<Mix(c, r, i, j), 1>>]]
        C == SinkhornLoop(ColsNormed(RowsNormed(A)), Most(0, c.d - 1))
    IN  [cells |-> [i \in {r} |-> C], scratch |-> C]

-----------------------------------------------------------------------------
(* Queries and keys in torch: N tokens, of d heads or of d tiles of a key. *)

Position(c, n) == c.k + (2 * n) + Seed(c, n) + 1

\* A head with one dimension RoPE leaves alone, the norm's weights, and the
\* turned part alone of a head.
HeadOf(c, n, h) == [i \in 1..(1 + 2 * Pairs) |-> Seed(c, n + h + i)]

NormWeight(i) == 1 + (i % 2)

\* An attention output before the inverse RoPE: of a key at position c.k.
AttendedAt(c, n, h) == RopeInplace(Turned(HeadOf(c, n, h)), c.k, FALSE)

KeyTile(c, n, t) == <<Seed(c, n + t + 1) * c.k, (Seed(c, n + t + 2) * (c.k + 1)) + 1>>

\* The write of a key: rounded in the stash (unless told to keep it exact, by
\* c.grain), packed in the paged cache.
KeyWrite(c, tile) ==
    [stash |-> IF c.grain = 1 THEN tile ELSE Roundtrip(tile), paged |-> Pack(tile)]

TokenCell(c, n, h) ==
    CASE c.kernel = "q_norm_rope"  -> QNormRope(HeadOf(c, n, h), Position(c, n))
      [] c.kernel = "rope_inplace" -> RopeInplace(Turned(HeadOf(c, n, h)), Position(c, n), FALSE)
      [] c.kernel = "rope_inverse" -> RopeInplace(AttendedAt(c, n, h), Position(c, n), TRUE)
      [] c.kernel = "key_write"    -> KeyWrite(c, KeyTile(c, n, h))

TokenTask(c, n, s) ==
    [cells |-> [i \in {n * c.d + h : h \in 0..(c.d - 1)} |-> TokenCell(c, n, i - n * c.d)],
     scratch |-> s]

-----------------------------------------------------------------------------
(* The call. *)

PoolKernels == {"pool", "pool_vexp", "pool_multipass", "pool_fp32intrin"}

AttendKernels == {"attend", "attend_fp32bmm", "attend_fp32bmm_hx", "attend_blockbf16",
                  "attend_amx", "attend_bf16bmm_hx", "attend_scorehybrid", "attend_bestof", "attend_bestof_hx"}

LogitsKernels == {"logits", "logits_tiled", "logits_fp32avx", "logits_amxbmm", "logits_fused"}

MlaForms == {"mla_cat", "mla_fused", "mla_loop"}

TokenForms == {"q_norm_rope", "rope_inplace", "rope_inverse"}

Windows(S) == [1..WindowLen -> S]

\* The shapes and inputs the kernels are called with.
Call(kernels, ds, grains, ks, sinks, seeds) ==
    [kernel : kernels, n : 1..MaxN, d : ds, threads : 1..MaxThreads, grain : grains,
     k : ks, sink : sinks, seed : seeds]

\* Torch's own threads are not the model's.
TorchCall(kernels, grains, ks, sinks) ==
    [kernel : kernels, n : 1..MaxN, d : 1..2, threads : {1}, grain : grains,
     k : ks, sink : sinks, seed : Windows(Scores)]

Calls ==
    Call(PoolKernels \ {"pool"}, 1..MaxD, {NegInf}, {0}, {0}, Windows(Scores))
    \cup Call({"pool"}, 1..MaxD, {NegInf, 1}, {0}, {0}, Windows(Scores))
    \cup Call({"combine"}, 1..MaxD, {NegInf}, {0}, {0}, Windows(0..1))
    \cup Call(AttendKernels, 1..2, {NegInf}, {0}, 0..MaxScore, Windows(0..MaxScore))
    \cup Call({"attend_masked"}, 1..2, {NegInf}, {0}, 0..MaxScore, Windows(Scores))
    \cup Call({"topk"}, 1..MaxD, {NegInf, 0, 1}, 1..2, {0}, Windows(0..1))
    \cup Call(LogitsKernels, 1..MaxD, {NegInf}, 1..2, {0}, Windows(Scores))
    \cup Call({"sinkhorn"}, 0..2, {NegInf}, {0}, {0}, Windows(0..1))
    \cup TorchCall(MlaForms, {NegInf}, {0}, Scores)
    \cup TorchCall(TokenForms, {NegInf}, 0..3, {0})
    \cup TorchCall({"key_write"}, {NegInf, 1}, 0..MaxValue, {0})

TwoLoops(c) == (c.kernel = "topk" /\ TopkPath(c) = "chunked") \/ LogitsPath(c) = "logits_tiled"

\* Tasks and grain of a loop of the call.
Tasks(c, loop) ==
    CASE c.kernel \in PoolKernels                            -> PoolTasks(c)
      [] c.kernel \in AttendKernels \cup {"attend_masked"} \cup MlaForms -> AttendTasks(c)
      [] c.kernel = "topk" /\ TwoLoops(c) /\ loop = "first"  -> c.n * Chunks(c)
      [] LogitsPath(c) = "logits_tiled" /\ loop = "second"    -> c.n * LogitsTiles(c)
      [] c.kernel \in LogitsKernels /\ ~TwoLoops(c)          -> c.n * c.d
      [] OTHER                                                -> c.n

Grain(c, loop) ==
    CASE c.kernel \in PoolKernels                                         -> PoolGrain(c)
      [] c.kernel = "sinkhorn"                                            -> RowGrain
      [] c.kernel = "topk" \/ (LogitsPath(c) = "logits_tiled" /\ loop = "second") -> 1
      [] LogitsPath(c) = "logits_fused"                                   -> 4096
      [] OTHER                                                            -> 0

Threads(c) == IF c.kernel = "topk" /\ TopkPath(c) = "serial" THEN 1 ELSE c.threads

RangesOf(loop) == Ranges(Tasks(call, loop), Grain(call, loop), Threads(call))

\* What a task may do: only the selections of top-k leave a choice.
Results(c, loop, t, s) ==
    CASE c.kernel \in PoolKernels                            -> {PoolTask(c, t, s)}
      [] c.kernel = "combine"                                -> {CombineTask(c, t, s)}
      [] c.kernel \in AttendKernels \cup {"attend_masked"} \cup MlaForms -> {AttendTask(c, t, s)}
      [] c.kernel \in TokenForms \cup {"key_write"}          -> {TokenTask(c, t, s)}
      [] c.kernel = "sinkhorn"                               -> {SinkhornTask(c, t, s)}
      [] c.kernel = "topk" -> IF ~TwoLoops(c) THEN TopkRow(c, t, s)
                              ELSE IF loop = "first" THEN TopkLocal(c, t, s) ELSE TopkMerge(c, t, s)
      [] c.kernel \in LogitsKernels -> IF ~TwoLoops(c) THEN {LogitTask(c, t, s)}
                                       ELSE IF loop = "first" THEN {PackTask(c, t, s)}
                                            ELSE {TiledTask(c, t, s)}

\* The cells of the output.
Cells(c) == 0..((IF c.kernel \in {"topk", "sinkhorn"} THEN c.n ELSE c.n * c.d) - 1)

Start(c, loop) == [t \in 0..(MaxThreads - 1) |->
                     Ranges(Tasks(c, loop), Grain(c, loop), Threads(c))[t][1]]

KernelInit ==
    /\ call \in Calls
    /\ running = "first"
    /\ pos = Start(call, "first")
    /\ scratch = [t \in 0..(MaxThreads - 1) |-> <<>>]
    /\ buf = <<>>
    /\ out = <<>>
    /\ writes = 0

\* Thread t runs the next task of its range.
RunTask(t) ==
    /\ running \in {"first", "second"}
    /\ pos[t] < RangesOf(running)[t][2]
    /\ \E r \in Results(call, running, pos[t], scratch[t]) :
         /\ scratch' = [scratch EXCEPT ![t] = r.scratch]
         /\ IF running = "first" /\ TwoLoops(call)
            THEN /\ buf' = [i \in DOMAIN buf \cup DOMAIN r.cells |->
                              IF i \in DOMAIN r.cells THEN r.cells[i] ELSE buf[i]]
                 /\ UNCHANGED <<out, writes>>
            ELSE /\ out' = [i \in DOMAIN out \cup DOMAIN r.cells |->
                              IF i \in DOMAIN r.cells THEN r.cells[i] ELSE out[i]]
                 /\ writes' = writes + Cardinality(DOMAIN r.cells)
                 /\ UNCHANGED buf
    /\ pos' = [pos EXCEPT ![t] = @ + 1]
    /\ UNCHANGED <<call, running>>

\* All threads have left the loop.
EndLoop ==
    /\ running \in {"first", "second"}
    /\ \A t \in DOMAIN pos : pos[t] >= RangesOf(running)[t][2]
    /\ IF running = "first" /\ TwoLoops(call)
       THEN /\ running' = "second"
            /\ pos' = Start(call, "second")
       ELSE /\ running' = "done"
            /\ UNCHANGED pos
    /\ scratch' = [t \in DOMAIN scratch |-> <<>>]
    /\ UNCHANGED <<call, buf, out, writes>>

KernelNext == EndLoop \/ \E t \in 0..(MaxThreads - 1) : RunTask(t)

KernelSpec == KernelInit /\ [][KernelNext]_kernelVars

-----------------------------------------------------------------------------
(* Properties. *)

\* A returned call has filled every cell of its output once and no other:
\* the tiles, chunks and ranges of the threads partition it.
FilledOnce ==
    running = "done" => DOMAIN out = Cells(call) /\ writes = Cardinality(DOMAIN out)

\* Every form of the compressor is the softmax of its window, a masked
\* position counts for nothing and a masked window gives 0.
PoolExact ==
    running = "done" /\ call.kernel \in PoolKernels =>
        \A i \in Cells(call) :
            IsPool(out[i], PoolScores(call, i \div call.d, i % call.d),
                           PoolValues(call, i \div call.d, i % call.d))

\* Every form of sparse attention is the softmax over its keys and the sink,
\* whichever the dispatcher takes; the torch forms too where there is no sink,
\* or no key.
AttendExact ==
    running = "done" /\ call.kernel \in AttendKernels \cup {"attend_masked"} \cup MlaForms =>
        \A i \in Cells(call) :
            IsAttention(out[i], call.sink, AttendScores(call, i \div call.d, i % call.d),
                                AttendValues(call, i \div call.d))

\* What top-k returns for a row is k of its largest keys, however the row was
\* cut and however each part broke its ties.
TopkExact ==
    running = "done" /\ call.kernel = "topk" =>
        \A n \in Cells(call) : out[n] \in Selections(call, n, 0..(call.d - 1), K(call))

\* The tiled path, the path of one row and the single matrix product give a
\* key the same logit; the fp32 path gives it the stages over exact scores.
LogitsExact ==
    running = "done" /\ call.kernel \in LogitsKernels \ {"logits_fused"} =>
        \A i \in Cells(call) :
            LET n   == i \div call.d
                key == Key(call, n, i % call.d)
            IN  out[i] = IF LogitsPath(call) = "logits_fp32avx"
                         THEN Stages([h \in Heads |-> Query(n, h) * key])
                         ELSE Stages([h \in Heads |-> Bf(Query(n, h)) * Bf(key)])

\* Combine is the weighted sum over the clusters, by tiles or not.
CombineExact ==
    running = "done" /\ call.kernel = "combine" =>
        \A i \in Cells(call) :
            LET m == i \div call.d
            IN  out[i] = MapThenSumSet(LAMBDA k : Pre(call, m, k)
                                          * Xflat(call, m, k * call.d + (i % call.d)),
                                       0..(Clusters - 1))

\* A sinkhorn row has columns that sum to 1 and is a rescaling of the rows
\* and columns of its input: the cross ratio is the input's.
ScalingExact ==
    running = "done" /\ call.kernel = "sinkhorn" =>
        \A r \in Cells(call) :
            LET C == out[r]
            IN  /\ \A j \in Ix : Sum2(C[1][j], C[2][j]) = <<1, 1>>
                /\ Ratio(Product(C[1][1], C[2][2]), Product(C[1][2], C[2][1])) =
                     Fraction(Mix(call, r, 1, 1) * Mix(call, r, 2, 2),
                              Mix(call, r, 1, 2) * Mix(call, r, 2, 1))

\* A query scores a key, turned by different code, by the difference of their
\* positions alone; the inverse takes the query's position out of what it has
\* attended to; and a turn changes neither the norm nor the other dimensions.
RopeExact ==
    running = "done" =>
        \A n \in 0..(call.n - 1), h \in 0..(call.d - 1) :
            LET cell == out[n * call.d + h]
                x    == HeadOf(call, n, h)
                p    == Position(call, n)
                Key1(s) == KNormRope(x, [i \in DOMAIN x |-> NormWeight(i)], s)
            IN  /\ call.kernel = "q_norm_rope" =>
                     /\ Nope(cell.v) = Nope(x) /\ SumSq(cell.v) = cell.ss
                     /\ \A s \in 0..3 :
                           Dot(Turned(cell.v), Turned(Key1(s).v)) =
                             RelativeDot(Turned(x),
                                         Turned([i \in DOMAIN x |-> x[i] * NormWeight(i)]), p - s)
                /\ call.kernel = "rope_inplace" =>
                     \A s \in 0..3 :
                        Dot(cell, RopeInplace(Turned(x), s, FALSE)) =
                          RelativeDot(Turned(x), Turned(x), p - s)
                /\ call.kernel = "rope_inverse" =>
                     cell = Rotate(Turned(x), call.k - p, FALSE)

\* The two copies of a key tell the same, unless the stash is to be exact; it
\* is close to the key, nothing is clamped, and rounding it again changes
\* nothing.
KeysRounded ==
    running = "done" /\ call.kernel = "key_write" =>
        \A i \in Cells(call) :
            LET tile == KeyTile(call, i \div call.d, i % call.d)
                read == Unpack(out[i].paged)
            IN  /\ out[i].stash = IF call.grain = 1 THEN tile ELSE read
                /\ CloseTo(read, tile)
                /\ Roundtrip(read) = read

\* However the pool cuts the loops of a call: each cell of its output is filled
\* once, selection and logits are those of an uncut row, and pooling, attention
\* and combine, in all their forms, return what they stand for.
CutsExact ==
    FilledOnce /\ TopkExact /\ LogitsExact /\ PoolExact /\ AttendExact /\ CombineExact

\* Sinkhorn, and the turns and roundings of queries and keys, return what they
\* stand for.
ValuesExact == ScalingExact /\ RopeExact /\ KeysRounded

=============================================================================
