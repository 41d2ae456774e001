# A TLA+ verification of the SGLang CPU plugin

The repository lets DeepSeek-V4-Flash (DSV4) and GLM-5.3 run on Intel CPUs. It patches a
running SGLang: GPU-only kernels are replaced by Torch and C++ ones, and the result is validated
by long batch jobs. This directory models the parts that keep state from one call to the next, or
that share work among threads, and the programs that decide from files whether a result counts.
There a legal sequence of steps can give a wrong answer without an error, and the tests beside the
code (one call, one request, one run) do not reach it. How close a number is to its reference is
left to the repository's own parity tests.

Paths below are relative to `src/plugin/`; `infra` is `intel_cpu_models/_dsv4_cpu_infra.py`.

## 1. Inventory

| part | code | state it keeps | operations | what is hard | what makes it correct |
|---|---|---|---|---|---|
| paged KV allocator | infra 4195-4329, 4060-4190 | free pages, `req_to_token` | extend, decode, release; metadata of compressed layers | batches that share one array of pages, page boundaries | no slot given twice, offsets kept, no page lost; a block is read where it was written |
| compressed KV | infra 1766-1790, 1984-2006, 3574-3862 | `_COMPRESSED_HANDOFF`, `_COMPRESSED_PERSIST` | compressor (extend, decode), attention | rows reused, chunks, early returns | a query sees the blocks of its own past, and them only |
| key stash, attention masks | infra 1646-1764, 1838-1960, 2172-2272 | `_KV_BUF`, `_KV_VALID` | norm, RoPE, rounding, write, gather, dense attention | growth, slots reused, two forms of the mask | a query reads its own keys |
| indexer | infra 3877-4015 | `_SEL_HOLDER` | index, attend | one holder for all layers, batch columns against request slots | the blocks chosen are the ones kept |
| thread caps | infra 353-399, 1245-1456, 2843-2966 | torch's thread count, `_MOE_DIAG` | forward, dense, MoE, two sweeps | nesting, exceptions, sweeps above the count | the count is put back, caps do not compose |
| weights: MoE, fp8 linear, gates | infra 2474-3060 and others | the form each weight was given at load | load hooks, kernels, two parity probes | several hooks on one weight, probes that keep a copy | a consumer reads the code, order and scale that were stored |
| kernel dispatch | `intel_cpu_models/_dsa_ckernels.py`, its callers, `validate/check_dispatch_provenance.py`, `paired_eval.py`, `paired_analyze.py` | counters, control file, provenance and timing files | enable, mark, sweep, time, gate, compare legs | control file re-read inside one call, kills in a rewrite | a count, a row and a verdict are about what ran |
| C++ kernels | `kernels/dsa_pilot` | buffers of one call | parallel loops | ranges cut by the runtime, blocks, masks | each cell is filled once, with the torch form's value |
| MHC sinkhorn and combine | infra, `sinkhorn.cpp`, `combine.cpp` | none | one call | order of operations | the kernel computes the torch form |
| KDA cache | `intel_cpu_models/kda_linear_attention_cpu.py`, `_glm5_cpu_infra.py` 124-170 | conv and recurrent state by mamba slot | extend, decode, self-test | chunks of any length, slots not cleared | a token is computed from its own request's past |
| gsm8k run, tail re-sharding | `validate/task_gsm8k_chunked.py`, `combine_gsm8k_shards.py`, `reshard_tail.py` | two files per shard | job, kill, resume, re-shard, combine | kill between two writes, reading while jobs write | every question counted once |
| capture hooks | `dsv4_layer_capture`, `gpu_ref_hook`, `validate/diff_fullcap.py` | counters, a dictionary of tensors, files | taps, save, diff | start-up forwards, ranks on one file, tags from counters | what is compared is of the same prompt, pass, step and layer |
| acceptance and promotion gates | `validate/f4_acceptance.py`, `promotion_gate.py` | records, approval file | evaluate cases and seeds, promote | long chain of early returns, a tree that changes between two reads | an exit of 0 rests on every seed and every case the inventory asks for |
| review loop | `tools/review_loop/review_loop.py` | ledger, review files | rounds, verdict, audit | stale files, timeouts | it goes on only when the review says so |
| installation | `intel_cpu_models/__init__.py`, `install` of both infra modules, `_cpu_pin_memory.py`, `_dummy_determinism.py`, the installers of `dsv4_layer_capture` | attributes of SGLang's modules and classes, flags | import, install, retry after a failure | order of some forty installers on shared names, names imported by value, an SGLang that lacks a name | every hook put on stays on, once, and is what callers reach |
| wrappers, all-reduce, quantization | `intel_cpu_models`, `tools` | none that changes | one call | - | - |
| benchmarks, charts, roofline, job scripts, records | `validate`, `tools`, `scripts` | files | sequential | little | - |

How they interact. One forward pass of SGLang's scheduler is: the allocator gives the batch's
tokens slots; then, layer by layer, the key write fills the stash, the compressor publishes a
handoff, the indexer publishes a selection, and the attention call takes both and reads the stash.
The three holders (`_KV_BUF` by slot, `_COMPRESSED_HANDOFF` by layer, `_SEL_HOLDER` for all
layers) are module-level and know nothing of requests; only batch indices, rows and slots tell
requests apart, and SGLang reuses all three. Every hot operator of the layer asks the dispatcher
whether its C++ kernel or its Torch form is to run, and is counted. The thread caps wrap the
forward pass and the operators in it; which of them a MoE layer or a projection reaches depends on
the form its weights were given at load. The KDA cache takes the place of stash and compressor in
GLM's linear-attention layers.

Around the engine, each in processes of its own: the gsm8k jobs run it as a batch and share
nothing but the files that combine and the re-shard read; the sweeps switch the dispatcher by a
file while one engine stays up; the capture legs record two engines whose tensors are diffed
later; the acceptance and the gate judge the kernels from the records of such runs; the review
loop drives the people and agents who change them.

A forward pass runs on one Python thread, so the actions inside it interleave only in the order of
the layers, and what varies is which batch comes next. Real concurrency is in the kernels'
loops, among ranks writing files, and between jobs and the programs that read their files.
`PROJECT.json` lists all components and, under `hazards`, each hazard at its line.

## 2. Modules

| module | models | composed with |
|---|---|---|
| `PagedAlloc` | the allocation kernels and their caller | - |
| `CompressedLocs` | where a compressed block is written and read | extends `PagedAlloc` |
| `KvStash` | the stash and both ways to read it | extends `PagedAlloc`: its slots are the allocator's |
| `CompressedKV` | compressor, handoff, persistence, coverage mask | - |
| `MaskOps` | both forms of the attention mask, as pure operators | - |
| `Indexer` | the indexer, its holder, the attention that takes it | extends `MaskOps` |
| `ThreadCap` | the caps as a stack of wrapped calls | - |
| `WeightForms` | load hooks, the readers of the weights, the parity probes | - |
| `MoeServing` | load, then forwards under the caps | extends `ThreadCap` and `WeightForms` |
| `PairedGate` | the comparison of the legs' answers and its exit status | - |
| `DispatchProvenance` | which implementation runs, the counts, the sweep, the gate | extends `PairedGate` |
| `Timeit` | the phase timers around the operators, and their file | extends `DispatchProvenance` |
| `OnlineSoftmax` | the softmax of the kernels in exact arithmetic | - |
| `KeyForms` | norm, RoPE and fp8 rounding of a key, in both codes | - |
| `ParallelKernels` | one call of any C++ kernel: its loops over threads | extends the two above |
| `KdaCache` | a KDA layer, its states by slot | - |
| `Checkpoint` | what a checkpointing run promises (abstract) | - |
| `Gsm8kRun` | jobs, files, kill and relaunch, tail re-shard, combine | implements `Checkpoint` |
| `Capture` | the taps of both legs, their files, the diff | - |
| `PluginLoad` | the imports, the installers, the hooks on SGLang's names | - |
| `CaptureEngine` | a job: load of the plugin, then the legs under its taps | extends the two above |
| `Acceptance` | the harness and the promotion gate | - |
| `ReviewLoop` | the loop, its agents, its files | - |
| `*Proofs` | theorems and proofs | extend their modules |
| `MC*` | instances for TLC: constants and symmetry | extend their modules |

Operators whose comment starts with "Mutant:" are plausible bugs of the definition below them.
They are not part of the model; `PROJECT.json` pairs each with the property that catches it.
A property that joins several claims is a conjunction of named parts, each with its own comment.

### PagedAlloc and CompressedLocs

A slot is `page * PageSize + offset`. `AllocExtend` and `AllocDecode` are one kernel call each
for a batch of distinct requests: `IsNewPageStart` is the exclusive prefix sum of the page counts,
`ExtendRow` has the three parts of the torch loop, `DecodeRow` the two cases of decode, and
`Commit` is what SGLang does with the result. The order of the free pages is chosen afresh at
each call. `Release` gives back the pages of a request. Pages that two requests share through the
radix cache, and eviction, are not modelled; both are SGLang's.

`CompressedLocs` adds the metadata of the compressed layers as operators on the allocator's state:
the location a block is written to comes from its last token's slot, the one it is read from goes
through the page table. The code has the ratios 4 and 128 fixed; the module has any ratio that
divides the page. The look-up for the indexer's ratio and the clamp of lengths to 1 are left out.

### CompressedKV

Tensors are abstracted to what they are computed from: a block is a request and the range of
positions it pools, a query is its position. The identity of a request, `rid`, exists only for the
properties; the code sees the row and the index in the batch. `CompressExtend`, `CompressNoWindow`
(the early return), `CompressDecode` and `CompressDecodeNothing` are the four ways through the
compressor, `Attend` pops the handoff and applies the mask `Visible`. The scheduler admits
requests with a radix prefix, cuts prompts at `--chunked-prefill-size`, and releases rows without
telling the plugin, as in the deployed configuration (chunk 512, radix cache on for DSV4).

### KvStash, KeyForms and MaskOps

The stash is a function from slots to keys; a key is the row and position it was computed for.
Growth follows the code: at least `MinCap`, then doubled, or more if needed. `AttendIndexed` reads
by indices, which SGLang's metadata supplies (external); `AttendDense` takes the marked slots in
order for the positions. `MaskOps` holds the loop (`LoopMask`) and the vectorized form (`VecMask`)
of the mask; the code calls the second "bit-identical" to the first. `KeyForms` has what happens
to a key before the write: the RMS norm with and without its weight, RoPE by quarter turns, and the
rounding to fp8 with a power-of-two scale per tile, which the code has in three forms (rounded and
scaled back, packed with the scale in a byte, and the query's). The legacy path by paged indices,
`INTEL_CPU_DSV4_KV_BF16_EXACT` and the epsilon of the norm are left out.

### Indexer

Scores are abstracted away: any selection that `torch.topk` could return for some scores is
possible. `Index` publishes `pos_kept` with one column per position of every block of the *batch*,
and `Attend` of whatever layer takes it and clears the holder. Two ghosts serve the properties:
`chosen`, the blocks of the last selection, and `ctx`, what the queries have read since; a new
choice forgets what was read under the one before.

### ThreadCap, WeightForms and MoeServing

`threads` is torch's count; `stack` holds the wrapped calls that run, each with the count its
wrapper will restore. A call may raise at any level. The two sweeps (the isolation probe, and the
search for the MoE cap) run the apply under one count after the other, so every call of theirs is a
step of its own under its own count: `IsoNext` up to twice the count they found or a fixed one,
`TuneNext` up to that count. They have no `finally`: an apply that fails leaves the count it ran
under, and `leaked` records it if that is not the first one.

A weight is its code, its element order, the kind of its scale and the scale's exponent. A load
hook is an action on one layer; a consumer that assumes another code or order reads garbage, and
one that assumes another kind of scale reads another number. `MoeServing` runs them one after the
other: `ServeInit` takes the form of the experts from the mode, and `Effects` says which weights a
returning call has read. Hash ids threading, the tensor-parallel config fix and the diagnostics
(swiglu, expert histogram) are left out.

### DispatchProvenance, Timeit and PairedGate

A worker walks the operators of a layer (`Chain`); each asks `enabled()` (control file, then
overrides, then the master switch), and counts itself before or after the kernel as its code does.
`mark` is three steps: the counter, the `open` that truncates the provenance file (`Truncate`),
and the write (`Dump`). Either of the last two may fail where files can (`opt.faulty`), which the
code swallows, and a kill may come between any two. The worker is killed in the end, so its atexit
handler does not run. A driver rewrites the control file in two steps, runs a
leg, labels a row. Either may be killed. `byhand` lets a person change the file in the middle of a
forward, which the jobs' drivers never do. A counter is kept as whether it is above zero, all the
gate tests. The engine has one worker: every job runs `--tp 1`. `Timeit` adds the timers that
nest around the operators; time passes, by one tick, as the worker leaves an operator.
`PairedGate` is `paired_analyze.py` with McNemar's test in whole numbers.

### OnlineSoftmax and ParallelKernels

A kernel call is one or two parallel loops over tasks; a task fills cells of its output. The
runtime cuts a loop into ranges as `at::parallel_for` does, and the threads run theirs in any
order. Exponentials are powers of two and weights are counted in units of the smallest, so a
running sum and its rescaling are exact fractions and a kernel's result can be compared by
equality with the torch form: scores beyond the mask, blocks all masked, not-a-number from
`-inf - -inf` are values like others. Rounding to bf16, the fast exponentials, `k = 0` and the
sinkhorn epsilon are left out.

### KdaCache

An input is its request and position; the recurrent state is the sequence of tokens absorbed. The
operators of a layer (`kda_layer_forward` and what it calls) have the arguments of the code and
move these instead of numbers. A batch is split into chunks by a budget shared by its requests, so
that any chunk length occurs. A slot keeps what its last request left in it. GLM runs with the
radix cache off, so a request always starts at position 0. `_selftest` is an operator too.

### Gsm8kRun

A job asks a chunk, writes the result file, then the answers file; each write is atomic
(`os.replace`), and `Kill` may come between any two steps. `Checkpoint` states the promise in terms of
questions: which have a saved answer (`saved`), which shards have been given up (`closed`), which have
lost their beginning (`lost`). `Launch` resumes as the program does:
from the answers if that file exists, else from the counts of the result. `Reshard` reads the
answers of all shards, at any moment, and deals what is missing to a second array of jobs, with
their own files. Combine lists the files it is given once, reads them one by one while jobs go on,
and applies all of its checks.

### Capture

A tensor is the forward and layer it was taken from. Each leg runs start-up forwards and then the
requests; the taps count as the code's counters do, save whole dictionaries to files shared by the
ranks, and the diff pairs the keys of the two legs as `diff_fullcap.py` does. The text traces have
one tap per operator with the limit and the batch lengths of its leg, the logits included; that
`hc_pre` runs the sinkhorn on both legs is assumed of SGLang. Magnitude filters, the weight and
attention-input dumps, the `wo_b` tap (which the reference lacks) and boundary capture are left
out; so is a second writer of the full capture's file at more than one rank (`torch.save` there
is not atomic).

### PluginLoad and CaptureEngine

A name of SGLang (`<<module, class, name>>`) is bound to a pile of hooks on SGLang's own function. An
installer is a record: the settings it waits for, the flag it looks at, and groups of steps (assign,
wrap, copy to an importer by value, sweep over all importers) that the code runs in that order;
`Run` folds them over the state, and a name that this SGLang lacks ends a soft group (a `try`) or
raises out of a hard one; an assignment asks for no more than the class. An installer that looks its
originals up before it changes anything begins with steps that only read. Each import of the package
is on its own; a model module whose `install()` raised may be imported again (`Reimport`), and
SGLang goes on importing modules that take names by value at any point between (`ImportOther`). Of
what a hook computes only its kind is kept: it answers for itself, it asks for the platform or
device at each call, or it is a tap that passes on.
`CaptureEngine` lets one job go on from its load to the forwards of `Capture`, if
the piles are those that `Capture`'s actions stand for (`Tapped`). Names the installers read but do
not assign, and the order of Python's own imports inside SGLang, are left out; so is the
reference leg's `gpu_ref_hook`, which another package installs.

### Acceptance and ReviewLoop

`Acceptance` declares the inventory as the program does, apart from the manifest that is compared
with it, and follows the chain of exits; numeric comparison is one verdict per case and seed. The
gate's `decide()` is a step for each thing it reads: HEAD, the state of the tree, policy, queue and
approval (`CallDecide`, `ReadSha` to `ReadQueue`, `Decide`); people edit, approve, commit and restore
files between any two of them. An approval handed over as an argument, which only the gate's self-test
does, is left out. `ReviewLoop`
is the round of executor and reviewer; a review is its verdict and, as a ghost, the round it was
written in.

## 3. Runs

"States" are distinct states; the times are for two workers.

| run | bounds | states | shows |
|---|---|---|---|
| `compressed_kv` | 2 layers (ratios 4 and 6), 2 rows, 5 identities, prompts 3-9, chunk 4, prefix 0 or 4, 2 decode steps | 55 733 | what a query may and must see, in prefill and decode |
| `compressed_leak` | 1 layer of ratio 4, prompts 3-9, chunk 9 | until found | violation: blocks of a row's former request |
| `kv_stash` | 2 requests, 2 pages of 4 slots, length 5, buffer from 3, window 2, ratios 2 and 4 | 986 701 (100 s) | slots are exclusive, compressed blocks are found, a query reads its own keys |
| `indexer` | 3 layers (two with an indexer, one without), ratio 2, top-k 1, window 4, 2 requests, positions to 6, 5 tokens | 12 773 (14 s) | selection taken once and right for one request; both masks agree |
| `thread_cap` | bound 4, all settings, tp 1 and 2; 2 expert layers, 1 row-major linear, 2 projections, 1 gate | 159 092 | the count comes back, what runs above the count is named; weights are read as they were stored; what a probe's verdict means |
| `gsm8k` | 5 layouts: 1-3 shards, chunks 1-3, a short last chunk, an empty shard, a tail for 2 tasks | 39 616 (68 s) | counts exact, saved answers stay saved, what the tail re-shard keeps, liveness |
| `kda` | 2 slots, 4 identities, conv window 4, prompts to 6, chunk 4, 3 decode steps | 53 817 | own inputs only, whatever the chunks; the self-test |
| `dispatch` | 2 forwards a leg, 29 environments (one whose files fail), 8 questions, agreement bounds 98, 25 and 0 % | 280 605 (32 s) | what counts, rows, times and verdicts are worth; the sweep ends |
| `kernels` | 2 rows, 5 columns, vectors, blocks and tiles of 2, 4 threads, scores 0-2, heads of 2 pairs | 588 893 (17 s) | every kernel's result, for every cut of its loops |
| `capture` | 2 layers, decode tags of 3 calls, 2 frozen prompts, 4 forwards, 1 and 2 ranks; 576 jobs: 3 hosts, 8 groups of settings, 12 SGLangs, 2 sets of early imports | 951 594 (100 s) | one prompt, whole files, keys that pair; hooks stand, the engine serves |
| `acceptance` | the program's own inventory and seeds, 2 commits | 78 070 (19 s) | what an exit of 0 covers; the gate promotes only in a race |
| `review_loop` | 2 rounds, the loop run twice | 293 327 (17 s) | records agree, verdicts are obeyed, the user is asked, runs end |

What the properties say, part by part:

- `compressed_kv`: a handoff is the running batch's and layer's (`HandoffFresh`). `VisibleExact`:
  no query sees a block that ends behind it (`NoFutureBlock`), prefill sees its own request only
  (`PrefillIsolated`), and from position 0 in one extend exactly the full windows
  (`PrefillFromZero`). `OnePassDecode`: a prompt of one chunk with a block decodes with its blocks.
- `kv_stash`: `AllocatorExact` (no slot shared, offsets kept, pages conserved), `LocationsExact`
  (both sides of a block's location agree, two live blocks are apart), `StashExact` (the stash
  holds every live key, a gather reads them), `DenseAloneExact` (the only case in which the dense
  form is right), `WriteIsLocal` (a write changes no other request's live key).
- `indexer`: `SelectionStays` (a selection reaches the layer it was made for, others stay dense),
  `MasksAgree`, `SelectionExact` (with one request, or with few blocks, the blocks chosen are kept).
- `thread_cap`: `Restored`, `CapsAreSound` (inside a decode cap the MoE cap does nothing; the count
  is above the bound only in a dense linear, under its cap, and in the isolation sweep, where it is
  at most twice the bound or a fixed candidate), `WeightsKept`, `ProbesTellTheTruth`.
- `gsm8k`: `FilesExact` (the two files of a shard, at every kill point), `CombineExact` (an accepted
  combination counts every question once), `TailExact` (each question of a slow shard is answered
  there or dealt to one task; if the shard is stopped, not both), `ImplementsCheckpoint` (a question
  that has a saved answer keeps it, answers are saved a chunk at a time, and a shard is given up only
  when each of its questions has one, unless it was killed between its first result and its first
  answers), `RunIsCombined`.
- `kda`: `RecurrenceExact` (the recurrent state is the request's own tokens in order),
  `ConvExact` (no foreign input ever; the right window unless a chunk was short; the self-test
  passes for the code as it is).
- `dispatch`: `CountsExact` (a kernel that is counted has returned, but for the call that runs or
  has died; the indexer, its top-k and the sparse attention leave no eager call uncounted),
  `ReadingsExact` (a row is of the implementation its label says; a provenance file that can be
  parsed tells no more than the counters, and no less but for the one call that has counted itself
  and is about to open it, unless the last call failed to open it; with no override, the native MoE
  and the MHC kernels bound, a run that passes the gate ran nothing eager in any leg, if the last
  call could open the file; a strict run that completes had no kernel
  fail; the timing file accounts for every tick of the forwards that ended),
  `PairedGateIsAboutKernels` (the paired gate's exit is about the two implementations), `SweepEnds`.
- `kernels`: `CutsExact` (however the loops are cut, each cell is filled once, a chunked top-k is one
  of the whole row, every path but the fused export gives a key the same logit, and every form of
  pooling, of attention and of combine gives the plain softmax or the weighted sum), `ValuesExact`
  (sinkhorn and the key forms equal the Torch forms).
- `capture`: `FilesSurvive` (a kill never leaves a torn JSON file; what is saved came before),
  `LegsPair` (a leg binds to one prompt; equal keys of the two legs are of the same pass, step and
  layer, and the diff's first difference names the layer where the legs part). `HooksStand`: no tap
  counts twice, no installer takes away what another has put there (`NothingLost` names the
  exceptions), importers by value call what the home module has, and the files are written by
  wrappers outside the binder. `EngineServes`: without CUDA and with nothing missing, both models
  load, and what every pass of theirs calls ends in nothing that only CUDA has, but for DSV4's sparse
  attention (compressor plan, compressor, indexer), which is answered for as far as
  `INTEL_CPU_DSV4_DSA_CPU` or `INTEL_CPU_DSV4_BYPASS_DSA` ask for it (`SparseAsked`); on a GPU the
  plugin answers for nothing but what a setting of its own asks for.
- `acceptance`: `ExitIsHonest` (0 exactly if all coordinates owed qualified; then no case is missing
  but those the inventory does not ask for, `Unasked`; each mishap has its own note),
  `BudgetRestsOnAllSeeds`, `PromotesOnlyInRace` (a promotion had its approval written after the
  tree was found clean, or committed after HEAD was read).
- `review_loop`: `RecordsAgree` (ledger, trail, exit code and the feedback handed on are of the same
  run and rounds), `VerdictIsObeyed` (PASS only when given; the user is asked exactly when a verdict
  other than PASS asks for it or cannot be read, or after the last round; another round only after a
  FAIL), `RunEnds`.

Why the bounds are enough for what they are to show:

- Rows, slots, pages and mamba slots are reused without limit: only concurrency and lengths are
  bounded, not the length of an execution. Identities (`Rid`) serve again once no state bears them.
- A page of four slots with ratios 2 and 4 has one and two blocks; a request of five tokens has an
  old partial page and a new one. Ratio 4 of `compressed_kv` is the one with overlap (the code's
  test is `ratio == 4`); 6 is a second, wider ratio without. With chunk 4 and prompts to 9 there
  are prompts below a block, of one chunk, of two and of three. The buffer of `kv_stash` starts
  smaller than the pool, so it must grow.
- With a conv window of 4, continuing chunks of 1 and 2 tokens are too short and one of 3 is not.
- Two requests suffice for one to disturb another; the theorems below remove the bound for the
  allocator, the stash, the indexer and its masks, prefill and KDA.
- The layers of `indexer` hand the holder from an indexed layer to an indexed one, to one without,
  and to the next pass. Four tokens have two blocks of two, of which top-k keeps one; a fifth is
  past the last block, and a window of four cuts sequences of five and six.
- The kernels' sizes are one, two and two and a half vectors, blocks and tiles, with a last one
  that is short; four threads and five cells give ranges of two, of one and none. The thresholds
  that choose a path (`SmallWork`, `Fp32MaxS`, `MaxTile`) are lowered so that each path is taken.
- Every group of settings that puts hooks on one name is on alone and with all others; every place
  at which an installer raises or gives up is reached by one of the names an SGLang may lack.
- Decode tags of three calls for two layers change in the middle of a step, as 64 does for 43.
- Eight questions are below and above what McNemar's test needs to decide (six one-sided ones).
- Two forwards give the worker a second one in which what the first left could be stale; two
  rounds and two runs do that for the review loop, two commits for the gate.

Deadlock is checked wherever a scheduler, a person or a relaunch always has a next step. It is off
for `kernels`, `capture`, `dispatch` and `review_loop`, which end when their program does.

`MaxLen`, `MaxPrompt`, `MinPrompt`, `MaxGen`, `MaxBatch`, `MaxPos`, `MaxTokens`, `MaxShards`,
`MaxForwards`, `MaxWork`, `MaxCommits`, `MaxRuns`, `MaxN`, `MaxD`, `MaxThreads`, `MaxScore` and
`MaxValue` are bounds of the model; all other constants are parameters of the code, some with smaller
values than its own (`IsoCands` stands for its 8 and 16 threads, one below and one above twice the count).

### Fairness

- `Gsm8kRun`. The operator (or the batch system) relaunches a shard that is not complete: weak
  fairness of `Launch` and `LaunchEmpty`. A job may be killed again and again, so its steps are
  not continuously enabled; strong fairness of `Ask`, `WriteOut` and `WriteGens` says that the
  wall time of a job is enough for a chunk, which is how the chunk size is chosen. Combine is run
  again with `--require-complete` until it accepts: strong fairness of its start, weak fairness of
  its steps. `Kill`, the re-shard and an incomplete combine are never forced.
- `DispatchProvenance` and `Timeit`: weak fairness of the worker and of the driver, that is, a
  process that runs goes on. Kills and a person's rewrite of the control file are never forced.
- `ReviewLoop`: weak fairness of `Agent`, the loop and its agents, which have timeouts, and of
  `Raise`, the reviewer's timeout, when the reviewer is an agent. A person is waited for.

## 4. Findings

| run | the code | what its text says |
|---|---|---|
| `compressed_leak` | infra 3842: a decode step labels whatever is persisted for a row with the row's present request; a prompt without a full window returns (3739) before it overwrites the entry | 3799: masking "prevents a cross-request compressed-KV LEAK" |

Further disagreements and limits met on the way, without a run of their own. Where a passing
property excludes a case because of one of them, the exclusion is part of its statement.

Engine:

- infra 3813 against 3726: each chunk assigns the persisted entry anew, so after chunked prefill
  decode sees the last chunk's blocks only; 3779: a chunk's handoff has no block of earlier
  chunks. `OnePassDecode` and `PrefillFromZero` are about prompts in one extend.
- infra 3979 against 3975: the columns of `pos_kept` number the blocks of the batch and are applied
  to each query's own slots. `SelectionExact` is about one request, or blocks few enough.
- infra 3965: a block is "past" when its *start* is; the attention's own causal bound still holds,
  so only the competition for the top-k is affected.
- infra 2265 against 1924-1933: without indices the marked slots of all requests stand for
  positions. `DenseAloneExact` states the case in which this is right.
- infra 361 against 1356: the decode cap switches the MoE cap off whatever the tp size, and itself
  does nothing at tp > 1. 1278, "tp>1: DO NOT touch the thread count": the dense cap (1433), the
  MoE cap (2957) and the probes (384, 2881) do.
- With mxfp4 or bf16 experts the apply returns before the MoE cap, so `INTEL_CPU_DSV4_MOE_THREADS`
  does nothing in the deployed scripts. The isolation probe runs the original apply on experts
  in fp4 form (comment at 2671-2675), under up to twice the count sglang set, or 8 or 16 threads
  (2881), however few that is; `CapsAreSound` excepts these calls by name. 2503-2512 says that the clamp limit is unset; the mxfp4 call
  passes it.
- Probes: the expert oracle reads integer scale bytes as numbers; the fp8 probe compares the
  weights of the first layer processed with the output of the first applied. `ProbesTellTheTruth`
  says when a verdict can be believed. A scale of 2^-127 in half precision becomes 2^-126; with as
  many experts as hidden units a gate's orientation is ambiguous.
- `INTEL_CPU_DSV4_DENSE_THREADS=0` is taken as a cap (1410), which torch refuses at every call; the
  model takes caps to be positive.
- The stash keeps a key rounded and scaled back while the paged cache packs the exact one.
- infra 1775: the paged slot plan is unused on CPU. 3653-3690 is not reached.
- `kda_linear_attention_cpu.py` 263 against 262 ("the last K-1 raw inputs"): the new conv state is
  cut from the padded chunk, so a chunk shorter than K-1 loses carried inputs; `_selftest` never
  extends with a carried state and cannot see it.
- `indexer_logits.cpp`: "single tiled path for all M" no longer holds, there are two paths. A window
  with every key masked gives 0 where the Torch reference gives not-a-number.

Installation:

- GLM's `mhc_post` replaces DSV4's in every CPU process (GLM infra 230-247 runs behind infra 3485):
  the timer `mhc.post` and `INTEL_CPU_DSV4_MHC_POST_BMM` have no effect there. If DSV4's import failed
  and is tried again, DSV4's form comes back and GLM's is gone.
- After such a retry the debug taps `fqr` and `sink` are lost: what they sit on is assigned anew,
  and their flags say they are installed.
- The sparse attention of DSV4 has a path for the CPU only on request. Without
  `INTEL_CPU_DSV4_DSA_CPU` or `INTEL_CPU_DSV4_BYPASS_DSA` both installers return (infra 3992, 4028),
  the compressor plan, the compressor and the indexer stay SGLang's, and the first pass that makes a
  plan ends in a CUDA JIT, as the comments at 3985-3987 and 4040-4043 say. `EngineServes` claims them
  only as far as the settings ask (`SparseAsked`). That the bypass skips the indexer is taken from the
  comment at 4019-4020; it leaves `forward_c4_indexer` as it is.
- `_install_dsa_cpu_wire` swallows its exception and then logs that it is active (4011).
- GLM's `layer.total` is put outside the full capture and counts its cost, DSV4's is inside. GLM's
  leaves (`_install_glm_timeit`, "NON-overlapping leaf components") overlap the gemm timers that DSV4
  installs in the same process.

Runs and records:

- `task_gsm8k_chunked.py` 145, 358 and 367 against 124-127 ("loses no work", no "double-count"):
  killed between the first result and the first answers, a shard's next job saves answers that lack
  a chunk, and the job after that counts from them. If a further kill leaves the answers behind, the
  file holds some questions twice and others not at all, and the shard may be given up without
  them. `FilesExact` excludes such answers by name (`Spoilt`), `ImplementsCheckpoint` such shards
  (`Lost`).
- `reshard_tail.py` 18, "Combine sums ORIGINAL + phase-2 jsons, disjoint by construction": combine
  refuses both arrays together, for equal shard indices or unequal contracts. A slow shard's result
  may be a chunk ahead of its answers, so that this chunk is asked again; a shard whose
  answers were lost is re-asked whole while its result counts; slow jobs that go on repeat the
  dealt work; answers files of version 2 (a dictionary) stop the program.
- `_dsa_ckernels.py` 94-96, "Write-through": the counter is raised first (97), and what goes wrong in
  `prov_dump` is swallowed (102). A kill in between leaves a file that parses and lacks the last call;
  an `open` that fails leaves an old one, of this run or an earlier one, which the gate takes for the
  run's. The timing file (infra 338) is the same. `ReadingsExact` says what such a file is still
  worth, and makes no claim on the gate when the last `open` failed.
- `check_dispatch_provenance.py` 2 and 48: compressor, sinkhorn, combine and MoE never mark an
  eager call, so a pass says nothing of them (`EagerIsCounted` names the others).
- `run_dsv4_p1_cpu.sbatch` loads with the control file at 0 and then sweeps 0 and 1: after an A/B
  run on one engine the gate always fails. `paired_eval.py` labels its legs `ck0` and `ck1` even
  when no control file is read.
- `paired_analyze.py` 9-11: `--strict-clean` is documented but not there. Below 300 questions
  McNemar's test cannot decide at `--agree-min 0.98`. A leg with fewer questions narrows the set
  compared; commits and gold answers of the legs are not compared; it exits 1 only if both legs
  to compare are named `cpu_c` and `cpu_eager`.
- Timers, infra 38-40 and 307 ("parent excluded to avoid double counting", "OTHER stays honest"):
  `mhc.hc_pre` in its Torch form is a leaf that contains the leaves `mhc.sinkhorn` and
  `mhc.combine`; likewise `mhc.hc_post`. The JSON split has no bucket for the kind `ckernel`. An
  interval is lost on an exception; a kill in the flush leaves a torn file.
- `review_loop.py` 114 against 126 ("fail-closed"): a review file that a former round left is read
  as this round's verdict.
- `review_loop.py` 26 ("or `"surface": true`" ... "loop stops and escalates") and
  `prompts/reviewer_prompt.txt` 27 against 234-235: PASS is tested first, so a PASS with
  `"surface": true` is accepted with exit 0, and neither ledger nor trail keeps the request.
  `PassIsGiven` and `UserIsAsked` are worded accordingly.
- `f4_acceptance.py` 9, "a missing/skipped case ... is a FAILURE, never a silent pass": the inventory
  does not name every case. A manifest ends with 0 without its compressor cases of the path
  `fp32intrin`, one of the two masked compressor cases, all but one of the bf16-KV cases, any case of
  the sparse sweep whose M or path is not required, `k0` and one of the other two cases of
  `indexer_topk`, or one of the two of `combine`; and each may be built in another shape than it
  declares. `OnlyUnaskedIsMissed` says that nothing else may (`Unasked`).
- `promotion_gate.py` 22: an approval in the tree makes it dirty, or names an older commit once it
  is committed, so the gate cannot promote what stands still. It can promote what moves, against
  "fail-closed: anything missing/stale/partial BLOCKS" (11), because 56-60 read one thing after the
  other: an approval written behind the look at the tree and before line 59; or an approval of HEAD
  committed between the two calls in line 56, whereupon the record names a commit that is HEAD no
  longer. `PromotesOnlyInRace` says that there is no third case. The evidence of the acceptance is not
  bound to a commit at all, and `_downstream_budget` counts the records that exist.
- Capture: `logits.n` counts every forward, start-up included, and decode tags group 64 layer
  calls, so a decode tag mixes steps: `DiffNamesLayer` is about prefill and the first decode tag.
  `diff_fullcap.py` sorts four operators behind all layers. `compare_layers` never compares token
  ids, `compare_moe_topk` does. A kill in `torch.save` loses the capture saved before.

## 5. Proofs

Checked by TLAPS for every value of the constants that the named assumptions allow:
`PagedAllocAssumption`, `KvStashAssumption`, `CompressedKVAssumption`, `KdaCacheAssumption` and
`ThreadCapAssumption` (positive sizes; `NoRid` is no identity, `NoRow` no request),
`CompressedLocsAssumption` (a ratio divides the page), `WeightAssumption` (a layer is of one kind,
and a checkpoint holds for it what that kind may hold), `Gsm8kRunAssumption` (chunks are not empty,
every question of a layout is graded), `AcceptanceAssumption` (the seeds are a sequence of groups,
the sweeps are not empty, shapes are numbered from 1), `ReviewLoopAssumption` (a round, a run),
`CaptureAssumption` (a layer, no more layers than layer calls to a decode tag, forwards of at least a
token, one rank or two; the start-up forwards are dummy batches, none of which is taken for a frozen
prompt), `LimitsAssumption` (each trace tap has a limit), `JobsAssumption` (on a host without CUDA
the engine is one for the CPU), `IndexerAssumption` and `DispatchAssumption` (toggles
are unset, 0 or 1; a sweep has a leg, a generate a forward; the frozen set of questions is finite and
not empty, an answer is the gold one, another or none), `OnlineSoftmaxAssumption` and
`ParallelKernelsAssumption` (vectors, tiles, grains and shapes are not empty).

| module | theorem | property |
|---|---|---|
| `KvPoolProofs` | `PageTableInvariant`, `TypeCorrect`, `AllocatorIsExact` | `TypeOK`, `AllocatorExact` |
| `KvPoolProofs` | `LocationsAreExact` | `LocationsExact` |
| `CompressedKVProofs` | `TypeCorrect`, `HandoffIsFresh`, `VisibleIsExact` | `TypeOK`, `HandoffFresh`, `VisibleExact` |
| `CompressedKVProofs` | `DecodeIsExact` | `OnePassDecode` |
| `KvPoolProofs` | `StashRunsAllocator`, `StashIsExact`, `WritesAreLocal` | `StashExact`, `WriteIsLocal` |
| `KvPoolProofs` | `DenseAloneIsExact` | `DenseAloneExact` |
| `IndexerProofs` | `SelectionReachesItsLayer`, `MasksAreEqual`, `SelectionIsExact` | `SelectionStays`, `MasksAgree`, `SelectionExact` |
| `KdaCacheProofs` | `RecurrenceIsExact`, `ConvIsExact` | `RecurrenceExact`, `ConvExact` |
| `EngineProofs` | `CountIsRestored`, `CapsNeverCompose` | `Restored`, `CapsAreSound` |
| `EngineProofs` | `WeightsAreKept`, `VerdictsAreTrue` | `WeightsKept`, `ProbesTellTheTruth` |
| `EngineProofs` | `CapturedFilesSurvive`, `LegsArePaired` | `FilesSurvive`, `LegsPair` |
| `EngineProofs` | `EveryEngineServes` | `EngineServes` |
| `Gsm8kRunProofs` | `FilesAreExact`, `RunImplementsCheckpoint` | `FilesExact`, `ImplementsCheckpoint` |
| `Gsm8kRunProofs` | `CombineIsExact`, `TailIsExact` | `CombineExact`, `TailExact` |
| `DispatchProofs` | `CountsAreExact`, `ReadingsAreExact` | `CountsExact`, `ReadingsExact` |
| `DispatchProofs` | `PairedGateIsExact` | `PairedGateIsAboutKernels` |
| `DispatchProofs` | `CutsAreExact` | `CutsExact` |
| `AcceptanceProofs` | `ExitCodeIsHonest` | `ExitIsHonest` |
| `AcceptanceProofs` | `GatePromotesOnlyInRace`, `BudgetIsComplete` | `PromotesOnlyInRace`, `BudgetRestsOnAllSeeds` |
| `AcceptanceProofs` | `ReviewRecordsAgree`, `ReviewVerdictIsObeyed` | `RecordsAgree`, `VerdictIsObeyed` |

**The allocator** (`KvPoolProofs`). That no slot is shared is not inductive: that a fresh page
collides with no slot needs to know which pages are free. The inductive invariant is

    PageTable == Types /\ Offsets /\ PagesTaken /\ BlockIsPage /\ NoPageLost

each position sits at its own offset of its page; the page of a live position is not free; two
positions share a page exactly when they are of one request and one block; a page not free has a
live position. Both kernels give rows of one shape (`RowSpec`, lemmas `ExtendRowSpec` and
`DecodeRowSpec`): block `b` of the row lies in page `pages[nps + b - CeilDiv(pre)]`, or in the old
page. The prefix sum gives the rows disjoint ranges that cover the pages taken (`RowRanges`).
`CallPreserves` is proved once from these and used for both kernels. From `PageTable` follow
`TypeCorrect` (in particular no index outside the pool) and `AllocatorIsExact`.

**Locations of compressed blocks** (`KvPoolProofs`) need nothing but `PageTable`: slots of
one block lie in one page at their own offsets, so that dividing the last one's slot by the ratio
(`BlockLocation`) and looking the page up in the table (`LookUp`) give one number, and two blocks
give two because the slots behind them differ.

**Compressed KV** (`CompressedKVProofs`). The inductive invariant is

    Inv == Types /\ BatchOK /\ Published /\ Seen

a batch names distinct rows of live requests; a handoff that exists is that of the running batch
and layer and holds exactly what the compressor publishes for them; a context has seen exactly the
visible ones of these blocks. It gives `HandoffIsFresh`, `VisibleIsExact` and `TypeCorrect`. The
part of `VisibleIsExact` on prompts from 0 needs `FullBlocks` (which windows are
complete) and holds for every ratio, chunk and number of requests.

`DecodeIsExact` is about what lasts from the prefill of a prompt to its decode, while other
requests come and go in the same batches and rows:

    OnePassInv == Inv /\ LengthsOK /\ BatchFits /\ Kept /\ SeenDecode

a prompt of one pass is not begun or done, so its extend runs from 0 to its end; from the moment its
layer is compressed its row holds exactly `PromptBlocks`, the blocks of that prompt (`Kept`); a
decode sees what is persisted, as its mask lets it. `Kept` excepts the layers the running extend has
yet to reach (`Pending`), where the entry is still the one of the row's former request: it is there
that a prompt below one block, which the property excludes, meets the leak of section 4.

**The key stash** (`KvPoolProofs`). `StashRunsAllocator` shows that every step of the stash is a
step of `PagedAlloc` or leaves the allocator alone, so `PageTable` holds in its states too. On top
of it

    StashInv == StashTypeOK /\ BatchLive /\ StashHoldsLive /\ GatherExact

is inductive; `BatchLive` says that a batch names live requests and ends at their last positions.
The one place where the allocator matters is a write: it replaces what its slots held, and that is
nobody's live key because no two live positions share a slot (`KeyIsOwn`, from `ExclusiveSlots`).
The same fact, on a release, keeps the ghost `stale` off the slots of the other requests.
`StashIsExact` and `WritesAreLocal` follow; besides `PagedAllocAssumption` they use only that
`MinCap` is positive.

`DenseAloneIsExact` compares a count with a place: without indices the code takes the marked slots
in the order of their numbers for positions. `AloneInv` adds that the rows of a batch differ and that
nothing is read before a batch is attended; the counting is in lemmas on the marked slots: with one
request alone they are as many as its positions, and a window of them is the window of its own.

**The indexer and the masks** (`IndexerProofs`). Everything here is about places: a token's row, a
block's columns, a slot's key, a column's rank after the compaction. Each is the number of members
before one in a finite ordered set, and one lemma (`Places`: such numbers are the initial segment of
the naturals, each once) serves all four. `FormsAgree` needs nothing else: the loop compacts the
row and keeps ranks, the vectorized form keeps columns by their ranks, and column and rank are
inverse to each other (`ColumnOfRank`), whatever the call. About a call of the batch, `ReadsKept`
says which positions a row of the mask stands for, because no two positions share a slot.

    IndexerInv == BatchOK /\ Control /\ Holder /\ ReadsTyped
                  /\ OthersStayDense /\ FewBlocksDropNothing /\ OneRequestExact

`Holder` is the strengthening: between an indexer and the attention of the same layer the holder has
`PosKept(chosen)`, or nothing if the batch forms no block, and everywhere else nothing. Assumed is,
besides `IndexerAssumption`, that `None` is not a tensor (`NoKeptAssumption`). The attempt to prove
`OneRequestExact` corrected the model: with two indexed layers in a row it had compared what one
layer read with what the next one chose.

**KDA** (`KdaCacheProofs`). The inductive invariant is

    IInv == SlotsOK /\ SlotsShaped /\ SlotsGoOn /\ RecurrenceExact /\ WindowExact /\ NoForeignInput

`SlotsOK` gives the types of slots and states; `SlotsShaped` says that what a slot holds has its
shape, whoever left it there; `SlotsGoOn` is the strengthening, what the slot of a
live request holds between its calls: its recurrent state is its own tokens in order, its carried
inputs are its own or zeros, and the right ones unless a chunk was short. The argument has two
layers. About one call of the layer, without any state: `LayerTokens` (what each token's
convolution and recurrence see) and `LayerStates` (what is handed on), from lemmas on the
convolution over carried inputs and fresh tokens (`LayerWindow`, `LayerConv`) and on the scan
(`LayerScan`, `AbsorbedGrows`). About the slots: `SeedIsOwn` (the seed a call takes is what
`SlotsGoOn` says, or the beginning) and `Serve`, which joins both and is used by extend and
decode alike. `ConvExact` excludes requests with a short chunk from the exact window because the code does.

The other half of `ConvIsExact` is the module's self-test: one call over a batch and the same
requests alone, chunk by chunk, give the same outputs and states. The scan is a recursive function
over the tokens, so "the same" is that such a recursion has one solution, shown by the least token
at which two of them would differ (`UpTo`, `ScanAgrees`); `ConvAgrees` and `LayerAgrees` lift this
to the layer, `GlueAgrees` to the chunks that are put together.

**The thread caps** (`EngineProofs`). `Restored` says nothing while calls run, so the inductive
invariant follows the stack:

    CapInv == Types /\ Nested(stack) /\ Settled(stack, env)
              /\ (~leaked => Undoes(stack, threads) /\ (moeCap # NoCap => moeCap <= Bound))

at most a forward and one operator run (`Nested`); undoing their frames gives the bound back, and on
the way no count but that of a dense linear or of a sweep is above it (`Undoes`), where what a sweep
may run under follows from the count it has to restore (`Bounded`, `TriedTypes`); a capped decode and a
capped MoE call exclude each other by their settings (`Settled`). `NoCall`, `OneCall` and `TwoCalls`
turn it into statements about the frames, so that each action is a step from one of these shapes to
another; a sweep has a lemma for its start, its steps and its end (`SweepStartsKeeps`,
`SweepNextKeeps`, `SweepEndsKeeps`). It
is proved of `ServeSpec`, in which the load of the weights is a stutter of the caps. Assumed of a
setting is only that a dense cap is positive.

**The weights** (in the same module, of the same specification). Hooks run in any order, each on one
layer, so the invariant follows the layers one by one:

    WeightInv == Settings /\ FormsDone /\ MoeProbeOK /\ Fp8ProbeOK

a layer still to be processed has the checkpoint's form, a processed one the form its kind and the
mode give it; a probe's copy is of what was loaded, its verdict the comparison of that copy with what
the consumer reads now, which is why the verdict stays true while other layers are processed. That
`Fp8ProbeOK` says of a failed probe only that it had a reason is the probe's own flaw, which section
4 names.

**The captured files** (in the same module, of `CaptureSpec`; the composed `EngineSpec`, which the run
checks, only adds guards to its steps). Two ranks write the same JSON file through one temporary name.

    DumpInv == RankOK /\ RaceOK /\ BoundOK /\ WrittenOK

`RaceOK` is what makes the race harmless: a torn file, under either name, is being written by a rank
that still has it open there; and a rank whose file was moved under it, so that it writes the final
name, is the last one at this file, because the one that moved it is through. From it follow that no
handle outlives both names and that the final file is whole behind the forward (`WrittenOK`), but for
`.qfinal`, which the handler of the rank that lost the race for `.attnout` skips. `SavedOK` is the full
capture's: what the file holds is the dictionary up to the forward under way.

**What the legs pair** (the same module and specification). `LegsPair` compares what two engines left,
which have run different start-ups and may have died at different points, so the invariant gives what
a leg has recorded in closed form, of how far it is:

    RunOK /\ SavedOK /\ BindOK /\ KeysOK /\ TraceOK

A leg's forwards are counted with its start-ups behind zero, so that forward `e` is item `e` of the work
on either leg (`RunOK`). `BindOK`: nothing is bound while nothing of the work was a prompt, else the
first one is, with the layers it has come to. `KeysOK`: the counters are those of the layer calls so
far, and a dictionary is exactly the keys that these calls give, each with its first giver (`FirstOK`),
the saved one that of an earlier point. `TraceOK`: line `x` of a trace is of the layer whose lines `x`
is among (`Lines`), up to the tap's limit. The two legs' counts agree on the work when no start-up
forward is one that is counted (`LegsAlike`, `SeenAlike`), so a shared key has the same first giver on
both (`SharedGiver`) and a line number is of the same layer on both (`LineOfWork`). A tag stands for
`Group` layer calls and may span two steps; `TagsAgree` holds because for one layer a tag has one first
giver (`FirstForward`, `GivenFirst`), which rests on there being no more layers than calls to a tag.
`DiffNamesLayer` is about the order: a key of the first prompt or step was recorded where its first
giver was (`EarlyKeys`), and the layer's output, which the diff knows, comes last in it (`OpPlace`), so
no key the diff puts before it can be of a later layer. Minima replace induction (`LeastElement`).

**The load of the plugin** (the same module). `EngineServes` is about every set of settings, missing
names and early imports, and about any order in which SGLang imports and a program repeats an import.
What a step of an installer does to the piles is a fold over a table of some forty installers; the fold
is a recursive function, of which all that is used is that it walks through the sequence (`FoldsWalk`).
So the invariant is one about single steps:

    LoadInv == job \in Jobs /\ mod \in 1..Up /\ ran \in Nat /\ Sound(Now) /\ (Whole => Carried)

`Sound`: off the CPU every hook in a pile is one that passes on, or one that a setting asks for, and
the grouped top-k is the same under both its names. `Carried`, for an SGLang that lacks nothing: a flag
is up only where what it goes with is bound (`FlagsHold`); the imports are registered in their order;
whatever an installer that has run gives a binding still answers for it, and from GLM's fourth
installer on its `mhc_post` is the one in force. A step keeps all of that whether it is taken or not
(`StepKeeps`), because no step takes away but one that puts an answer there, and a module that takes a
name by value later takes what the home then has. It carries over to groups and installers along the
walk (`WalkLeads`); that each installer of the table is one of such steps (`GoodInstaller`) and what it
gives (`TableGives`) is read off it, for the sparse attention under the setting that asks for it
(`WireGives`, `BypassGives`). Only `MhcCpu` may put another `mhc_post` there, and it runs
before.

**The gsm8k run** (`Gsm8kRunProofs`).

    RunInv == OptOK /\ Shapes /\ TailOK /\ ReaderOK
              /\ \A s \in Shard : TaskOK(s, out[s], gens[s], job[s])

`TaskOK` is about one task's two files and its job, wherever the job is between its writes. It has
two layers: `FilesSane` and `JobSane` hold at every kill point and from every file the job may have
resumed; `FilesSound` and `JobSound` (a result counts exactly the first questions, the answers are
the first ones too and at most a chunk behind) hold unless the answers lack their beginning, which is
the case section 4 describes (`SpoiltBy`). A job's steps touch its own files only, so each action is
proved for one task; `Reshard` alone makes tasks, whose questions are in sequence and differ
(`TailOK`). `FilesAreExact` follows, and so does `RunImplementsCheckpoint`: each step of the run is
a step of `Checkpoint` or changes nothing it sees. The writes are the steps that matter: answers that
are written hold those the file held, since a job has begun with them, and at most a chunk more
(`WriteGensSaves`); a result without answers loses the beginning only if its job goes before it writes
them (`Lost`, `EndSaves`); and a job that finds nothing left to ask closes a shard whose questions are
all among the answers, unless it is a lost one. Fairness is no part of either.

`CombineIsExact` needs that a record keeps its meaning after it was read: `CombineInv` says of every
record read so far (`ReadOK`) that it is a result of its task and, unless the answers of the task are
spoilt by now, counts its first questions. A spoilt file stays spoilt (`SpoiltStays`, from
`AnswersGrow`), so the files need be sound only at the end. What is left is arithmetic: the library's
sum over a function is the size of a disjoint union (`SumFunctionIs`: a fold is a recursive function,
whose value is fixed by a least counterexample on the size of the set), and the slices of the shards
are each question once (`SlicesApart`, `SlicesCover`).

`TailIsExact` rests on `TailInv`: what was dealt out are the questions that were left then, and the
answers file of a slow shard still begins with what it held. `DealtAll` and `DealtApart` give each of
them to one task. The bound on the results is an injection (`ResultsBound`): every question a result
counts goes to itself, except those by which the result of a stopped shard is ahead of its answers,
which go to one of a chunk's places of that shard.

**Dispatch** (`DispatchProofs`). The claims look back at a whole run, the code asks its toggles call by
call, so the inductive invariant follows the worker inside an operator and the driver between rows:

    DispatchInv == TypeOK /\ Control /\ Asked /\ CountedInC /\ CountedEager /\ Uncounted
                   /\ Clean /\ FileIsCurrent /\ LabelHeld /\ RowSoFar /\ RowsOK

`FileIsCurrent` is said for each step of `mark`: between the counter and the `open` the file may be
behind by that one call, from the `open` on by nothing, and a file that could not be opened is never
ahead (`TruncateKeeps`);
what the worker found a toggle to be (`Asked`) is still so where it acts on it, because the control
file changes between generates only (`Control`) and holds what the running row will be labelled with
(`LabelHeld`); `RowOK` is what a row with a label may have run, said of the running row too.
`Uncounted` is about the four operators that never count their eager code: why each of them can only
have run it where the gate's conditions fail, or where the sparse attention of the same layer has
counted, or is about to count, its own. That the gate of a finished sweep reads no file in the middle
of a rewrite is in `Control`: a `mark` is over before its forward is. `AccountedKeeps` has what every step inside an operator keeps;
each action then has a lemma. A hand at the control file (`byhand`) is allowed; the parts that it
could break are stated for runs without it, as the properties are.

`PairedGateIsExact` is about any answers to any finite set of questions and any `--agree-min`. `Attended`
says that no forward passes over its sparse attention, so that every row has run it in one form
(`RowsAttended`); with what `RowOK` rules out that is the one form its label names (`RowsRan`), so the
records of the two legs are the answers of the two implementations. What is left is McNemar's tail.
The library's factorial is a recursion: the function that satisfies it is put together of its initial
segments, each obtained by a least counterexample (`FactorialIs`). A tail of fewer than six discordant
questions is at least its first binomial, 1, against at most 32 (`TailIs`); of six or more, all on one
side, it is 1 against at least 64, which is the number of subsets of six elements (`PowersOfTwo`).
`VerdictIs` and `PairOfLegs` carry that to the verdict and to the four orders of the legs.

The timers are proved of `TimedSpec`, whose runs are runs of `Spec` (`TimedIsRun`). `View` is what they
would have counted if they stopped before the running operator ends; `TimeInv` says that the total in
it is the phase's ticks and the sum of the five leaves, but for the interval of an attention that
raised (`Balanced`, `Lost`). A file that could not be opened stays an old balanced one, whose totals
only fall behind (`TotalsGrow`, `JsonStays`). A tick adds one to the total and to one leaf (`BalanceTicks`), whichever
operator it leaves. That the chart's sums over a set of timers are sums term by term (`SumIsTerms`) is
a least counterexample on the size of the set, as in the combination.

**The kernels** (the same module). `CutsAreExact` is about any kernel, shape, thread count and constants.
The ranges of `at::parallel_for` are intervals that cover the tasks, each once (`RangesPartition`), and
the tasks of the loop that writes the output are the tiles of its rows (`TasksAreTiles`), which partition
its cells whatever their width (`TilesPartition`: division with remainder is unique). So `Over`, the tasks
that the positions of the threads have passed, tells the whole state:

    Progress /\ Filling /\ Handed /\ TopkHeld /\ LogitsHeld /\ CellsHeld

the cells that are filled are those of the tasks in `Over`, once each (`Filling`), and what the first
loop leaves is there for each of its tasks (`Handed`): a selection of each chunk (`TopkHeld`), a row's
packed queries (`LogitsHeld`). That the best `k` of the chunks' bests are a best `k` of the row
(`BestOfBests`) is an exchange: a key that no chunk selected is below `k` selected ones of its chunk, of
which the merge has either taken all or left one.

`CellsHeld` says what a filled cell of a pool, of an attention and of combine is worth; a step keeps it
because of what a task fills its cells with (`PoolOfTask`, `AttendOfTask`, `CombineOfTask`). Those rest
on one lemma for each form of the kernel (`AttendIs` for one pass with the sink, up to `BlockwiseIs`
and, for the torch forms, `LoopSoftmaxIs`; `PoolResultIs`, `CombineRowIs`). A fold is walked step by
step (`Walk`, `Climb`); since no lemma can have an operator as a parameter, the steps of all the folds
are cases of one operator `Do`, which a record chooses. What is kept along the walk is `Carries`: the
running sums are those of the plain softmax at the scale of the running maximum, so a new maximum may
rescale them, and a block with nothing in it leaves the state of an empty row. Splitting a row into
lanes or blocks is a sum over parts (`LaneSums`, `CutSum`). The prover knows nothing of powers; that
`2^(n+1)` is twice `2^n` is taken from the sizes of powersets (`PowerStep`).

**The gate** (`AcceptanceProofs`).

    GateInv == RecordIsOlder /\ GateReads /\ PromotesOnlyInRace

The approval record which HEAD holds names an earlier commit than HEAD (`RecordIsOlder`), because it
was written before the commit was made. `GateReads` carries that along the gate's reads: once the tree
was found clean, at a commit that may be later than the sha read before it, what the record says, in
HEAD and in the tree, is older than that commit, whatever is committed or restored since, unless an
approval is written. The people's steps keep it (`PeopleKeep`), and at the last read it leaves the two
races of section 4 (`DecideRaces`).

`BudgetIsComplete` is the loop over the seeds: `BudgetInv` says that the first `k` seeds are over and
`left` has the others in order, and that as long as no failure is on the list there is a record
without a mismatch of every case for each of the `k`.

**The exit code** (the same module). `ExitCodeIsHonest` has two halves. About one evaluation, without
any state: `run_case` is a list of checks whose first failure gives the note, so the note is worked out
list by list (`First` of one list behind another, `FirstBehind`), then kind by kind, for each mishap
that a kind can have; `EveryNoteRight` is the result: the note that mishap must give, and "ok" for a
sound case and for a selection among masked logits. About the run:

    HarnessInv == ... /\ (pc = "evaluate" => Started /\ \E k : Over(k) /\ EvaluatedFor(k)) /\ ...

`EvaluatedFor(k)` says that `done` and `failures` are those of every case under the first `k` seeds and
no others, and `Started` that the inventory was complete and the coordinates it requires are bound to
what their builders made. Both directions of the exit code then need what the manifests look like
(`ManifestsFormed`): 0 means everything owed because each list the inventory compares covers what is
owed; and nothing sound is refused because a bound case that is built otherwise has left its coordinate
without a declared case (`QualifiedIsZero`). That with 0 nothing is missing but `Unasked` (`ZeroMissesUnasked`)
is a case analysis over what a manifest may lack: a kind or a path that is asked for is still there
only if some other case has it, so where it has but one case that one cannot be missing
(`OneOfAKind`). The proof found two things about the model: a label's
number 0, "none", must be no shape, which is now assumed, and a case built otherwise had been allowed
for any operator with the indexer's path name.

**The review loop** (in the same module, which extends both judges of a gate; the names of `ReviewLoop`
are apart from those of `Acceptance`, so its specification is `LoopSpec`).

    LoopInv == Control /\ ReviewsOK /\ RoundsOK /\ FilesOK

`ReviewsOK`: from the moment it is parsed the output is of this run and round, and a file of one round
was written for that round, by whichever run. `RoundsOK`: the entries are those of the rounds so far,
all FAIL up to the one that is decided. `FilesOK` is the strengthening: which of ledger and trail are
of this run at which step, and that what is left of earlier ones bears an earlier number; that is what
makes a ledger older than its trail, after a run that died, recognisable. When the user is asked
(`UserIsAsked`) follows from `LoopInv` too; the action property in `VerdictIsObeyed` needs no more
than what a verdict decides (`VerdictDecides`).

Only model-checked: `ValuesExact` (sinkhorn on fractions reduced by a recursive divisor, the turns and
the rounding of keys; a key is rounded as the torch form does only while its scale fits into a byte,
which the constants of the run see to and no assumption does), and `HooksStand`, which depends on which
names are missing and on every pair of installers that meet at one name: a finite table, which TLC
walks through outright. Liveness (`RunIsCombined`, `SweepEnds`, `RunEnds`) is out of the prover's
reach, and so is what a recursive definition computes for every input, but where a least
counterexample does (sums, the folds of the kernels, the factorial); no module declares a RECURSIVE
operator, the folds and recursive functions of the kernels and of KDA stand in their place.

## 6. Not modelled

- Model wrappers, quantization, the values of dummy weights: adapters and numeric passes without
  state. Of the gloo all-reduce only its installation is modelled; it is one blocking collective per
  call, whose hazards are inside torch.
- Parity, benchmark and chart scripts, roofline tools, job scripts, certificates: they measure,
  draw or record.
- Numerical error anywhere. The models of kernels and key forms are exact; what rounding does to
  a result is what the parity tests and the acceptance budgets are for.
- Of modelled parts, what section 2 names, and: radix-shared pages in the allocator (so `Release`
  frees whole pages), a change of model or chunk size between two gsm8k jobs of one tag.

## 7. Plan

1. Compose: `ForwardPass`, one layer's key write, compressor, indexer and attention over the
   allocator, to state that what a query reads (window, blocks, selection together) is of its own
   request; today each is shown alone.
2. Proofs: the hooks that stand when the installers have run.
3. `Gsm8kRun`: chunk size or model changed between jobs of one tag.
4. Allocator: pages shared through the radix cache.
5. Abstract specifications: a request-indexed store that `KvStash` and `KdaCache` implement.
6. Capture: boundary capture, and more than one writer of the full capture.
