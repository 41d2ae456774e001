----------------------------- MODULE PluginLoad -----------------------------
(***************************************************************************)
(* How the plugin gets into an engine process: SGLang's registry imports   *)
(* the package, then its model modules, and every import runs a list of    *)
(* installers that assign attributes of SGLang's modules and classes.      *)
(*                                                                         *)
(* A binding is <<module, class, name>>, with class "module" for a global  *)
(* of the module.  Its value is a pile of hooks on SGLang's own function:  *)
(* <<>> is that function, the last hook is called first.  A hook either    *)
(* answers for itself, wherever it runs; or asks the platform, or the      *)
(* device, at each call and passes on what is not for the CPU; or it is a  *)
(* tap: it passes everything on and counts, times or records.  Modules     *)
(* that import a global by value have a binding of their own, which is     *)
(* what the home module's was when they were imported.                     *)
(*                                                                         *)
(* An SGLang of another version may lack a name: then an installer raises, *)
(* the module it runs in fails, and the others go on without it.           *)
(***************************************************************************)
EXTENDS Naturals, Sequences, FiniteSets, SequencesExt

CONSTANT Jobs   \* [env, lacks, live]: the settings, the names that SGLang
                \* has not (as beginnings of bindings), the modules imported

\* An engine on a host without CUDA is one for the CPU.
ASSUME JobsAssumption == \A j \in Jobs : "no_cuda" \in j.env => "cpu" \in j.env

VARIABLES
    job,        \* what the process was started with
    live,       \* the importers by value that are imported
    bind,       \* the pile of every binding that has one
    flags,      \* attributes that say a hook is installed
    placed,     \* history: what an installer has put where
    mod, ran,   \* the import that is under way, and the installers it has run
    registered, \* imports that came to their end
    again       \* model modules that were imported twice

pluginVars == <<job, live, bind, flags, placed, mod, ran, registered, again>>

-----------------------------------------------------------------------------
(* Hooks and steps. *)

\* A binding: the name n of the class c, or of the module m itself.
At(m, c, n) == <<m, c, n>>

Answer(n) == [kind |-> "answer", name |-> n]
Adjust(n) == [kind |-> "adjust", name |-> n]
Tap(n)    == [kind |-> "tap", name |-> n]

\* Put replaces the pile, Wrap puts a hook on it; Maybe* only if the name is
\* there; Copy gives an importer by value what its home has, if it can be
\* imported; Sweep wraps the home, and what is imported and still the same.
\* Read only looks a name up, as an import does its module.
StepOf(d, b, h) == [do |-> d, at |-> b, hook |-> h, on |-> {}]
Put(b, h)      == StepOf("put", b, h)
MaybePut(b, h) == StepOf("maybe_put", b, h)
Wrap(b, h)     == StepOf("wrap", b, h)
Maybe(b, h)    == StepOf("maybe_wrap", b, h)
Copy(b)        == StepOf("copy", b, Tap("none"))
Sweep(b, h)    == StepOf("sweep", b, h)
Read(b)        == StepOf("read", b, Tap("none"))
Import(m)      == Read(At(m, "module", "module"))

\* A step that a setting asks for; _timed, which is the identity without
\* INTEL_CPU_DSV4_TIMEIT.
If(setting, s) == [s EXCEPT !.on = @ \cup {setting}]
Timed(b, n)    == If("TIMEIT", Wrap(b, Tap(n)))

\* Steps under one flag: skipped if it is up, "none" for no flag.  Where a name
\* is missing, a soft group is given up and a hard one raises.
Hard(f, steps) == [flag |-> f, soft |-> FALSE, steps |-> steps]
Soft(f, steps) == [flag |-> f, soft |-> TRUE, steps |-> steps]

\* An installer returns unless the settings `when` are on; if it `needs` what
\* is missing; if the flag `guard` is up.
Installer(when, needs, guard, groups) ==
    [when |-> when, needs |-> needs, guard |-> guard, groups |-> groups]

V4(n)      == At("v4", "module", n)
Layer4(n)  == At("v4", "DecoderLayer", n)
Mqa(n)     == At("v4", "MQALayer", n)
Model4(n)  == At("v4", "ForCausalLM", n)
Moe2(n)    == At("v2", "MoE", n)
Mhc(n)     == At("mhc", "module", n)
Backend(n) == At("backend", "Backend", n)
Fp8(n)     == At("fp8", "Fp8LinearMethod", n)
Bf16(n)    == At("unquant", "UnquantizedLinearMethod", n)
Glm(n)     == At("glm5", "DecoderLayer", n)
Torch(n)   == At("torch", "module", n)
TopK       == At("topk", "TopK", "forward")
HashTopK(n) == At("hash_topk", "HashTopK", n)
LogitsProcessor == At("logits", "LogitsProcessor", "forward")

\* What is imported by value, and from where.
Copied ==
    {<<V4("get_rope_wrapper"), At("rope", "module", "get_rope_wrapper")>>,
     <<At("model_runner", "module", "adjust_config"), At("update_config", "module", "adjust_config")>>,
     <<At("model_runner", "module", "free_memory"), At("common", "module", "free_memory")>>,
     <<At("allocation", "module", "support_triton"), At("common", "module", "support_triton")>>,
     <<At("batch_info", "module", "support_triton"), At("common", "module", "support_triton")>>,
     <<At("loader", "module", "dummy_weights"), At("weight_utils", "module", "dummy_weights")>>,
     <<At("v2", "module", "silu_clamp"), At("dsv4_moe", "module", "silu_clamp")>>,
     <<At("topk", "module", "grouped_topk"), At("topk", "module", "grouped_topk_cpu")>>}

CopyOf == [c \in {p[1] : p \in Copied} |-> (CHOOSE p \in Copied : p[1] = c)[2]]

Importers == {c[1] : c \in DOMAIN CopyOf}

-----------------------------------------------------------------------------
(* What a step does to [live, bind, flags, placed, ok]. *)

Pile(f, b) == IF b \in DOMAIN f THEN f[b] ELSE <<>>

\* The bindings of f, and those of g that f has not.
Over(f, g) == [b \in DOMAIN f \cup DOMAIN g |-> IF b \in DOMAIN f THEN f[b] ELSE g[b]]

Assign(f, b, pile) == Over([c \in {b} |-> pile], f)

Missing(b) == \E k \in 1..3 : SubSeq(b, 1, k) \in job.lacks

\* What a step asks for is missing.  An assignment asks for no more than the
\* class, and the name is there from then on.
Lacking(s, t) ==
    \E k \in 1..3 : /\ SubSeq(t.at, 1, k) \in job.lacks
                    /\ k = 3 => t.do # "put" /\ t.at \notin DOMAIN s.bind

\* An importer by value takes what its homes have at that time.
Imported(s, m) ==
    IF m \in s.live \/ m \notin Importers THEN s
    ELSE [s EXCEPT !.live = @ \cup {m},
                   !.bind = Over([c \in {d \in DOMAIN CopyOf : d[1] = m /\ CopyOf[d] \in DOMAIN @}
                                     |-> @[CopyOf[c]]], @)]

PutAt(s, b, pile, h) == [s EXCEPT !.bind = Assign(@, b, pile), !.placed = @ \cup {<<b, h>>}]

\* Mutant: importers by value keep what they have.
DoStepHomeOnly(s, t) ==
    LET old == Pile(s.bind, t.at)
    IN  IF ~s.ok \/ ~(t.on \subseteq job.env) THEN s
        ELSE IF Lacking(s, t) THEN [s EXCEPT !.ok = t.do \in {"maybe_put", "maybe_wrap", "copy"}]
        ELSE CASE t.do \in {"put", "maybe_put"} -> PutAt(Imported(s, t.at[1]), t.at, <<t.hook>>, t.hook)
               [] t.do \in {"wrap", "maybe_wrap", "sweep"} ->
                     PutAt(Imported(s, t.at[1]), t.at, Append(old, t.hook), t.hook)
               [] OTHER -> Imported(s, t.at[1])

DoStep(s, t) ==
    LET u   == Imported(s, t.at[1])
        old == Pile(u.bind, t.at)
        Same == {c \in DOMAIN CopyOf : /\ CopyOf[c] = t.at /\ c[1] \in u.live
                                       /\ Pile(u.bind, c) = old}
    IN  IF ~s.ok \/ ~(t.on \subseteq job.env) THEN s
        ELSE IF Lacking(s, t) THEN [s EXCEPT !.ok = t.do \in {"maybe_put", "maybe_wrap", "copy"}]
        ELSE CASE t.do \in {"put", "maybe_put"} -> PutAt(u, t.at, <<t.hook>>, t.hook)
               [] t.do \in {"wrap", "maybe_wrap"} -> PutAt(u, t.at, Append(old, t.hook), t.hook)
               [] t.do = "copy" -> [u EXCEPT !.bind = Assign(@, t.at, Pile(@, CopyOf[t.at]))]
               [] t.do = "sweep" -> PutAt([u EXCEPT !.bind = Over([c \in Same |-> Append(old, t.hook)], @)],
                                          t.at, Append(old, t.hook), t.hook)
               [] OTHER -> u

\* Mutant: a flag is not looked at.
DoGroupAlways(s, g) ==
    IF ~s.ok THEN s
    ELSE LET end == FoldLeft(DoStep, s, g.steps)
         IN  [end EXCEPT !.ok = @ \/ g.soft, !.flags = IF end.ok THEN @ \cup {g.flag} ELSE @]

DoGroup(s, g) ==
    IF ~s.ok \/ (g.flag # "none" /\ g.flag \in s.flags) THEN s
    ELSE LET end == FoldLeft(DoStep, s, g.steps)
         IN  [end EXCEPT !.ok = @ \/ g.soft, !.flags = IF end.ok THEN @ \cup {g.flag} ELSE @]

Now == [live |-> live, bind |-> bind, flags |-> flags, placed |-> placed, ok |-> TRUE]

Run(i) ==
    IF \/ ~(i.when \subseteq job.env)
       \/ \E p \in i.needs : p \in job.lacks
       \/ i.guard # "none" /\ i.guard \in flags
    THEN Now ELSE FoldLeft(DoGroup, Now, i.groups)

-----------------------------------------------------------------------------
(* Imports of the package: each is on its own, and may fail. *)

PinMemory == Installer({"no_cuda"}, {}, "pin_memory",
    <<Hard("pin_memory", <<Put(Torch("Tensor.pin_memory"), Answer("pageable"))>> \o
        [i \in 1..7 |-> Maybe(Torch(<<"tensor", "empty", "zeros", "ones", "full", "empty_strided",
                                      "as_tensor">>[i]), Answer("unpinned"))])>>)

ResolutionGuards == Installer({"no_cuda"}, {}, "capability",
    <<Hard("capability", <<Put(Torch("capability"), Answer("hopper"))>>),
      Soft("none", <<Wrap(At("mamba_hook", "module", "validate_no_buffer"), Adjust("no_page_size"))>>),
      Soft("none", <<Wrap(At("amx_utils", "module", "process_weight"), Answer("conv_logical"))>>)>>)

DeterministicDummy == Installer({"DETERMINISTIC_DUMMY"}, {<<"weight_utils">>}, "dummy",
    <<Hard("dummy", <<Put(At("weight_utils", "module", "dummy_weights"), Answer("by_name")),
                      Copy(At("loader", "module", "dummy_weights"))>>)>>)

\* The binder must be the first to wrap the model's forward.
LayerCapture == Installer({"LAYER_CAPTURE"}, {<<"v4">>}, "layer_capture",
    <<Hard("layer_capture", <<Read(Model4("forward")), Wrap(Layer4("forward"), Tap("layer_states")),
                              Wrap(Model4("forward"), Tap("binder"))>>)>>)

AttnIoCapture == Installer({"ATTNIO"}, {<<"v4">>, <<"v4", "MQALayer">>}, "attnio",
    <<Hard("attnio", <<Maybe(Mqa("compute_q_b"), Tap("io_q")), Wrap(Mqa("forward"), Tap("io")),
                       Maybe(Layer4("forward"), Tap("io_layer"))>>)>>)

MoeTopkCapture == Installer({"LAYER_CAPTURE"}, {<<"v2">>, <<"topk">>}, "moe_topk",
    <<Hard("moe_topk", <<Wrap(TopK, Tap("ids")), Maybe(HashTopK("forward"), Tap("ids")),
                         Wrap(Moe2("forward"), Tap("experts")),
                         Maybe(Model4("forward"), Tap("dump_moe"))>>)>>)

AttnOutCapture == Installer({"LAYER_CAPTURE"}, {<<"v4">>, <<"v4", "MQALayer">>}, "attnout",
    <<Hard("attnout", <<Wrap(Mqa("forward"), Tap("attn_out")), Maybe(Mqa("compute_q_b"), Tap("q_final")),
                        Maybe(Model4("forward"), Tap("dump_attn"))>>)>>)

-----------------------------------------------------------------------------
(* _dsv4_cpu_infra.install *)

Configure == Installer({}, {}, "none",
    <<Hard("none", <<Import("topk"), Import("v2"), Import("v4"), Put(At("kcc", "Configurator", "configure"), Adjust("no_fp8_guard"))>>)>>)

MlaTpConfig == Installer({"cpu"}, {}, "mla_tp",
    <<Hard("mla_tp", <<Wrap(At("update_config", "module", "adjust_config"), Answer("latent_head")),
                       Copy(At("model_runner", "module", "adjust_config"))>>)>>)

\* Mutant: it asks whether the engine is on the CPU when it installs, and then
\* no more.
RopeNoDevice == Installer({}, {}, "none",
    <<Hard("none", <<Wrap(At("rope", "module", "get_rope_wrapper"), Answer("plain_rope")),
                 Copy(V4("get_rope_wrapper"))>>)>>)

RopeFix == Installer({}, {}, "none",
    <<Hard("none", <<Wrap(At("rope", "module", "get_rope_wrapper"), Adjust("plain_rope")),
                 Copy(V4("get_rope_wrapper"))>>)>>)

PagedAllocator == Installer({"cpu"}, {}, "none",
    <<Hard("none", <<Put(At("paged", "module", "alloc_extend"), Answer("extend")),
                 Put(At("paged", "module", "alloc_decode"), Answer("decode"))>>),
      Soft("none", <<Put(At("sub_pool", "module", "alloc_extend"), Answer("extend")),
                 Put(At("sub_pool", "module", "alloc_decode"), Answer("decode"))>>),
      Hard("none", <<Sweep(At("common", "module", "support_triton"), Adjust("no_triton")),
                 Wrap(At("allocation", "module", "get_last_loc"), Adjust("torch_last_loc"))>>)>>)

DsaCpuKernels == Installer({"cpu"}, {}, "none",
    <<Hard("none", <<Put(At("metadata_kernel", "module", "compressed_metadata"), Answer("metadata")),
                 Put(At("backend", "module", "flashmla_metadata"), Answer("none")),
                 Wrap(At("topk_backend", "DSATopKBackend", "use_v2"), Adjust("no_v2"))>>)>>)

\* Mutant: the timers are put on before the C kernels.
MhcTimerFirst == Installer({"cpu"}, {}, "none",
    <<Hard("none", <<Put(Mhc("sinkhorn"), Answer("torch_sinkhorn")), Timed(Mhc("sinkhorn"), "mhc.sinkhorn"),
                 Put(Mhc("combine"), Answer("torch_combine")), Timed(Mhc("combine"), "mhc.combine"),
                 If("CKERNEL", Put(Mhc("sinkhorn"), Answer("C_sinkhorn"))),
                 If("CKERNEL", Put(Mhc("combine"), Answer("C_combine"))),
                 MaybePut(Mhc("post"), Answer("post")), Timed(Mhc("post"), "mhc.post")>>),
      Soft("none", <<Put(At("mhc_head", "module", "fused_hc_head"), Answer("torch_head"))>>)>>)

MhcCpu == Installer({"cpu"}, {}, "none",
    <<Hard("none", <<Put(Mhc("sinkhorn"), Answer("torch_sinkhorn")), Timed(Mhc("sinkhorn"), "mhc.sinkhorn"),
                 Put(Mhc("combine"), Answer("torch_combine")), Timed(Mhc("combine"), "mhc.combine"),
                 If("CKERNEL", Put(Mhc("sinkhorn"), Answer("C_sinkhorn"))),
                 If("CKERNEL", Timed(Mhc("sinkhorn"), "mhc.sinkhorn")),
                 If("CKERNEL", Put(Mhc("combine"), Answer("C_combine"))),
                 If("CKERNEL", Timed(Mhc("combine"), "mhc.combine")),
                 MaybePut(Mhc("post"), Answer("post")), Timed(Mhc("post"), "mhc.post")>>),
      Soft("none", <<Put(At("mhc_head", "module", "fused_hc_head"), Answer("torch_head"))>>)>>)

CoreKernels == Installer({"cpu"}, {}, "none",
    <<Hard("none", <<Put(V4("fused_q_norm_rope"), Answer("q_rope")), Put(V4("fused_rope_inplace"), Answer("rope")),
                 Put(V4("FP8_WO_A_GEMM"), Answer("bf16")),
                 Put(At("memory_pool", "module", "k_norm_rope"), Answer("k_rope")),
                 Put(At("accessor", "SetKAndS", "execute"), Answer("torch_write"))>>)>>)

AttentionCpu == Installer({"cpu"}, {}, "none",
    <<Soft("none", <<Put(At("backend", "module", "large_query"), Answer("never"))>>),
      Hard("none", <<Put(At("flash_mla", "module", "with_kvcache"), Answer("torch_mla")),
                 Timed(At("flash_mla", "module", "with_kvcache"), "dsa.mla_attention")>>)>>)

MoeGateFix == Installer({"cpu"}, {}, "none",
    <<Hard("none", <<Wrap(At("v2", "MoEGate", "forward"), Adjust("transposed"))>>)>>)

MoeHashFix == Installer({"cpu"}, {}, "hash",
    <<Hard("hash", <<Read(Moe2("forward_cpu")),
                     Wrap(Moe2("forward"), Adjust("ids")), Timed(Moe2("forward"), "moe.forward"),
                     Wrap(Moe2("forward_cpu"), Adjust("ids")),
                     Timed(Moe2("forward_cpu"), "moe.forward_cpu")>>)>>)

Fp4Expert == Installer({"cpu"}, {}, "fp4",
    <<Hard("fp4", <<Read(At("fp8", "Fp8MoEMethod", "apply")),
                    Wrap(At("fp8", "Fp8MoEMethod", "process_weights"), Answer("fp4")),
                    Wrap(At("fp8", "Fp8MoEMethod", "apply"), Answer("fp4")),
                    Timed(At("fp8", "Fp8MoEMethod", "apply"), "moe.expert_apply")>>)>>)

\* Mutant: the plan is taken away where it is defined, not where it was
\* imported by value.
DsaWireHomeOnly == Installer({"cpu", "DSA_CPU"}, {}, "none",
    <<Soft("none", <<Put(At("compressor_v2", "module", "paged_plan"), Answer("no_plan")),
                 Put(Backend("core_compressor"), Answer("cpu_compressor")),
                 Timed(Backend("core_compressor"), "dsa.compressor"),
                 Put(Backend("c4_indexer"), Answer("cpu_indexer")),
                 Timed(Backend("c4_indexer"), "dsa.indexer")>>)>>)

DsaWire == Installer({"cpu", "DSA_CPU"}, {}, "none",
    <<Soft("none", <<Put(At("compressor_v2", "module", "paged_plan"), Answer("no_plan")),
                 Put(At("backend", "module", "paged_plan"), Answer("no_plan")),
                 Put(Backend("core_compressor"), Answer("cpu_compressor")),
                 Timed(Backend("core_compressor"), "dsa.compressor"),
                 Put(Backend("c4_indexer"), Answer("cpu_indexer")),
                 Timed(Backend("c4_indexer"), "dsa.indexer")>>)>>)

ProfileBypass == Installer({"cpu", "BYPASS_DSA"}, {}, "none",
    <<Hard("none", <<Wrap(Backend("metadata_prefill"), Answer("no_compress")),
                 MaybePut(Backend("metadata_decode"), Answer("no_compress")),
                 MaybePut(Backend("core_compressor"), Answer("no_compressor"))>>)>>)

PhaseTag == Installer({"cpu", "TIMEIT", "PHASE"}, {}, "phase",
    <<Hard("phase", <<Wrap(Model4("forward"), Tap("phase"))>>)>>)

HcPreTimers == Installer({"cpu", "TIMEIT", "HCPRE"}, {}, "hc_pre",
    <<Hard("hc_pre", <<Wrap(Layer4("hc_pre"), Answer("timed_parts"))>>)>>)

\* TIMEIT, or a cap for the dense GEMMs.
GemmTimeit == Installer({"gemm_hook"}, {}, "none",
    <<Soft("gemm_fp8", <<Wrap(Fp8("apply"), Tap("gemm"))>>),
      Soft("gemm_bf16", <<Wrap(Bf16("apply"), Tap("gemm"))>>)>>)

LayerTimeit == Installer({"cpu", "TIMEIT"}, {}, "layer_timeit",
    <<Hard("layer_timeit", <<Wrap(Layer4("forward"), Tap("layer.total")),
                             Maybe(Layer4("hc_pre"), Tap("mhc.hc_pre")),
                             Maybe(Layer4("hc_post"), Tap("mhc.hc_post"))>>),
      Soft("lm_head", <<Wrap(LogitsProcessor, Tap("step.lm_head"))>>),
      Soft("model", <<Wrap(At("v4", "Model", "forward"), Tap("step.model_total"))>>)>>)

DecodeThreadCap == Installer({"DECODE_THREADS"}, {}, "decode_cap",
    <<Hard("decode_cap", <<Wrap(Model4("forward"), Tap("decode_cap"))>>)>>)

InterleaveMem == Installer({"INTERLEAVE"}, {}, "none",
    <<Hard("none", <<Wrap(At("common", "module", "free_memory"), Adjust("whole_node")),
                 Copy(At("model_runner", "module", "free_memory"))>>)>>)

GlooAllreduce == Installer({"TP_GLOO"}, {}, "none",
    <<Soft("none", <<Put(At("parallel_state", "module", "is_shm_available"), Answer("gloo"))>>)>>)

\* The taps inside one model; two of them have a flag on the module, and sit
\* on what MhcCpu and CoreKernels assign.
HiddenDebugTaps ==
    <<Hard("hid", <<Wrap(Layer4("forward"), Tap("hid_layer"))>>),
      Hard("woafn", <<Maybe(V4("wo_a_matmul"), Tap("woafn"))>>),
      Soft("none", <<Read(Bf16("__class__")), Wrap(Fp8("apply"), Tap("wob")), Wrap(Bf16("apply"), Tap("wob"))>>),
      Hard("none", <<Maybe(Layer4("hc_pre"), Tap("hid_hc_pre")), Maybe(Layer4("hc_post"), Tap("hid_hc_post")),
                 Maybe(Mqa("forward"), Tap("hid_attn")), Maybe(Mqa("compute_q_b"), Tap("qb")),
                 Maybe(Mqa("compute_kv"), Tap("kv"))>>)>>

HiddenDebug == Installer({"HID_DEBUG"}, {}, "hid",
    HiddenDebugTaps \o
    <<Hard("fqr", <<Maybe(V4("fused_q_norm_rope"), Tap("fqr"))>>),
      Soft("sink", <<Wrap(Mhc("sinkhorn"), Tap("sink"))>>),
      Soft("hid_logits", <<Wrap(LogitsProcessor, Tap("hid_logits"))>>)>>)

Fp8Parity == Installer({"FP8_PARITY"}, {<<"fp8">>}, "parity",
    <<Hard("parity", <<Read(Fp8("apply")), Wrap(Fp8("process_weights"), Tap("parity")),
                       Wrap(Fp8("apply"), Tap("parity"))>>)>>)

Fp8ForceBf16 == Installer({"FP8_BF16"}, {<<"fp8">>}, "bf16",
    <<Hard("bf16", <<Read(Fp8("apply")), Wrap(Fp8("process_weights"), Tap("bf16_store")),
                     Wrap(Fp8("apply"), Answer("bf16_matmul"))>>)>>)

WoaUnpack == Installer({"cpu"}, {}, "none",
    <<Hard("woa_tag", <<Maybe(Mqa("init"), Adjust("tag"))>>),
      Soft("wkv_tag", <<Maybe(At("compressor", "Compressor", "init"), Adjust("tag"))>>),
      Soft("woa_bf16", <<Wrap(Bf16("process_weights"), Answer("row_major"))>>),
      Soft("woa_fp8", <<Wrap(Fp8("process_weights"), Answer("row_major"))>>)>>)

\* The checkpoint's index is there.
RealRouter == Installer({"cpu", "REAL_ROUTER"}, {}, "none",
    <<Hard("gate_tag", <<Wrap(At("v2", "MoEGate", "init"), Adjust("number"))>>),
      Hard("real_gate", <<Wrap(At("amx_utils", "PackWeightMethod", "process_weights"), Answer("real_gate"))>>),
      Soft("real_hash", <<Wrap(HashTopK("init"), Answer("real_table"))>>)>>)

\* The last call of the one above.
ExpertHist == Installer({"cpu", "REAL_ROUTER", "EXPERT_HIST"}, {}, "none",
    <<Soft("hist", <<Wrap(TopK, Tap("hist")), Maybe(HashTopK("forward"), Tap("hist"))>>)>>)

FullCapture == Installer({"FULLCAP"}, {}, "fullcap",
    <<Hard("fullcap", <<Wrap(Layer4("forward"), Tap("cap_hidden")), Maybe(Mqa("forward"), Tap("cap_attn")),
                        Maybe(Layer4("run_moe"), Tap("cap_moe"))>>),
      Soft("cap_core", <<Wrap(Backend("forward"), Tap("cap_core"))>>),
      Hard("none", <<Maybe(V4("fused_rope_inplace"), Tap("cap_rope"))>>),
      Soft("cap_logits", <<Wrap(LogitsProcessor, Tap("cap_logits"))>>)>>)

-----------------------------------------------------------------------------
(* _glm5_cpu_infra.install: behind the first, each part is on its own. *)

GlmKda == Installer({"cpu"}, {}, "none",
    <<Hard("none", <<Put(At("kda", "KDAAttnBackend", "init"), Answer("no_Triton")),
                 Put(At("kda", "KDAAttnBackend", "decode"), Answer("torch")),
                 Put(At("kda", "KDAAttnBackend", "extend"), Answer("torch"))>>)>>)

GlmGatedNorm == Installer({"cpu"}, {}, "none",
    <<Soft("none", <<Wrap(At("norm_gate", "FusedRMSNormGated", "forward"), Adjust("sigmoid"))>>)>>)

GlmMhcPost == Installer({"cpu"}, {}, "none",
    <<Soft("none", <<Put(Mhc("post"), Answer("adaptive_post"))>>)>>)

GlmSiluClamp == Installer({"cpu"}, {}, "none",
    <<Soft("none", <<Put(At("dsv4_moe", "module", "silu_clamp"), Answer("torch_silu")), Import("v2"),
                 Copy(At("v2", "module", "silu_clamp"))>>)>>)

GlmIndexer == Installer({"cpu"}, {}, "none",
    <<Soft("none", <<Put(At("forward_mha", "module", "dsa_indexer"), Answer("no_indexer"))>>)>>)

\* Mutant: the name that select_experts calls stays with the kernel.
GlmTopkNoAlias == Installer({"cpu"}, {}, "none",
    <<Soft("none", <<Wrap(At("topk", "module", "grouped_topk_cpu"), Adjust("torch_if_refused"))>>)>>)

GlmGroupedTopk == Installer({"cpu"}, {}, "none",
    <<Soft("none", <<Sweep(At("topk", "module", "grouped_topk_cpu"), Adjust("torch_if_refused"))>>)>>)

GlmNopeMla == Installer({"cpu"}, {}, "none",
    <<Soft("none", <<Wrap(At("mla_fused_rope_cpu", "Mixin", "init"), Answer("logical"))>>),
      Soft("none", <<Wrap(At("backend_handler", "module", "dispatch_mla"), Answer("generic"))>>)>>)

GlmRunIndexer == Installer({"cpu"}, {}, "none",
    <<Soft("none", <<Wrap(At("v2", "AttentionMLA", "should_run_indexer"), Adjust("dense"))>>)>>)

GlmFullCapture == Installer({"cpu", "GLM_FULLCAP"}, {<<"glm5">>}, "glm_fullcap",
    <<Hard("glm_fullcap", <<Wrap(Glm("forward"), Tap("cap_glm")), Maybe(Glm("hc_post"), Tap("cap_hcpost"))>>),
      Soft("cap_glm_logits", <<Wrap(LogitsProcessor, Tap("cap_glm_logits"))>>)>>)

GlmTimeit == Installer({"cpu", "TIMEIT"}, {<<"glm5">>}, "glm_timeit",
    <<Hard("glm_timeit",
        <<Wrap(Glm("forward"), Tap("glm_layer")), Maybe(Glm("hc_post"), Tap("glm_hc_post")),
          Maybe(At("glm5", "LinearAttention", "forward"), Tap("attn.kda")),
          Maybe(At("glm5", "MoE", "forward"), Tap("moe")), Maybe(At("glm5", "MLP", "forward"), Tap("dense.mlp")),
          Maybe(At("v2", "AttentionMLA", "forward"), Tap("attn.mla")),
          Maybe(At("glm5", "Model", "forward"), Tap("flush"))>>)>>)

-----------------------------------------------------------------------------
(* The imports. *)

\* Mutant: the file taps of the attention are installed before the binder.
CaptureInstallersReversed == <<AttnOutCapture, MoeTopkCapture, AttnIoCapture, LayerCapture>>

CaptureInstallers == <<LayerCapture, AttnIoCapture, MoeTopkCapture, AttnOutCapture>>

Dsv4Installers ==
    <<Configure, MlaTpConfig, RopeFix, PagedAllocator, DsaCpuKernels, MhcCpu, CoreKernels,
      AttentionCpu, MoeGateFix, MoeHashFix, Fp4Expert, DsaWire, ProfileBypass, PhaseTag,
      HcPreTimers, GemmTimeit, LayerTimeit, DecodeThreadCap, InterleaveMem, GlooAllreduce,
      HiddenDebug, Fp8Parity, Fp8ForceBf16, WoaUnpack, RealRouter, ExpertHist, FullCapture>>

\* The model module imports SGLang's model, which imports DeepSeek-V2's.
GlmImports == Installer({}, {}, "none", <<Hard("none", <<Import("topk"), Import("v2"), Import("glm5")>>)>>)

GlmInstallers ==
    <<GlmImports, GlmKda, GlmGatedNorm, GlmMhcPost, GlmSiluClamp, GlmIndexer, GlmGroupedTopk, GlmNopeMla,
      GlmRunIndexer, GlmFullCapture, GlmTimeit>>

\* In the order of the package, and then of the registry.
Imports == <<"pin", "guards", "dummy", "capture", "dsv4", "glm">>
Up == Len(Imports) + 1

Installers(m) ==
    CASE m = 1 -> <<PinMemory>>
      [] m = 2 -> <<ResolutionGuards>>
      [] m = 3 -> <<DeterministicDummy>>
      [] m = 4 -> CaptureInstallers
      [] m = 5 -> Dsv4Installers
      [] m = 6 -> GlmInstallers

\* A model module that was imported again leads back.
AfterImport == IF again = {} THEN mod + 1 ELSE Up

\* One installer; if it raises, the import of the module is over.
Install ==
    /\ mod < Up /\ ran < Len(Installers(mod))
    /\ LET end == Run(Installers(mod)[ran + 1])
       IN  /\ live' = end.live /\ bind' = end.bind /\ flags' = end.flags /\ placed' = end.placed
           /\ mod' = IF end.ok THEN mod ELSE AfterImport
           /\ ran' = IF end.ok THEN ran + 1 ELSE 0
    /\ UNCHANGED <<job, registered, again>>

EndImport ==
    /\ mod < Up /\ ran = Len(Installers(mod))
    /\ registered' = registered \cup {Imports[mod]}
    /\ mod' = AfterImport /\ ran' = 0
    /\ UNCHANGED <<job, live, bind, flags, placed, again>>

\* Mutant: install() does not look at _INSTALLED.
ReimportRuns(m) ==
    /\ mod = Up /\ Imports[m] \notin again
    /\ again' = again \cup {Imports[m]}
    /\ mod' = m /\ ran' = 0
    /\ UNCHANGED <<job, live, bind, flags, placed, registered>>

\* A program imports a model module again: install() returns at once if it has
\* been through, and starts over if it has not.
Reimport(m) ==
    /\ mod = Up /\ Imports[m] \notin again
    /\ again' = again \cup {Imports[m]}
    /\ mod' = m
    /\ ran' = IF Imports[m] \in registered THEN Len(Installers(m)) ELSE 0
    /\ UNCHANGED <<job, live, bind, flags, placed, registered>>

\* SGLang goes on importing, between the plugin's modules and behind them.
ImportOther(m) ==
    /\ ran = 0 /\ m \notin live /\ ~Missing(At(m, "module", "module"))
    /\ live' = Imported(Now, m).live
    /\ bind' = Imported(Now, m).bind
    /\ UNCHANGED <<job, flags, placed, mod, ran, registered, again>>

PluginInit ==
    /\ job \in Jobs
    /\ live = job.live
    /\ bind = <<>> /\ flags = {} /\ placed = {}
    /\ mod = 1 /\ ran = 0
    /\ registered = {} /\ again = {}

PluginNext ==
    \/ Install \/ EndImport
    \/ \E m \in {5, 6} : Reimport(m)
    \/ \E m \in Importers : ImportOther(m)

PluginSpec == PluginInit /\ [][PluginNext]_pluginVars

-----------------------------------------------------------------------------
(* Properties. *)

\* No tap is twice on a pile, so that nothing is counted or timed twice, even
\* if an import failed half-way and was tried again.
TapsOnce ==
    \A b \in DOMAIN bind : \A i, j \in DOMAIN bind[b] :
        bind[b][i].kind = "tap" /\ bind[b][i] = bind[b][j] => i = j

\* What stands in for another hook: the C kernels, the profiling bypass, and
\* GLM's mhc_post, which takes the timer away with it.
StandIns ==
    {<<Answer("torch_sinkhorn"), Answer("C_sinkhorn")>>, <<Answer("torch_combine"), Answer("C_combine")>>,
     <<Answer("post"), Answer("adaptive_post")>>, <<Tap("mhc.post"), Answer("adaptive_post")>>,
     <<Answer("cpu_compressor"), Answer("no_compressor")>>,
     <<Tap("dsa.compressor"), Answer("no_compressor")>>}

\* When no import is under way, what an installer has put somewhere is there, or
\* what stands in for it: no later installer has assigned over it.  If the import of DSV4 fails and is tried
\* again, three go: two debug taps whose flags stay up, and GLM's mhc_post, over
\* which DSV4 assigns its own.
NothingLost ==
    ran = 0 => \A p \in placed :
        \/ p[2] \in ToSet(Pile(bind, p[1]))
        \/ \E h \in ToSet(Pile(bind, p[1])) : <<p[2], h>> \in StandIns
        \/ "dsv4" \in again /\ p[2] \in {Tap("fqr"), Tap("sink"), Answer("adaptive_post")}

\* Every importer by value calls what its home has, whenever it was imported.
CopiesAgree ==
    \A c \in DOMAIN CopyOf :
        c[1] \in live /\ ~Missing(c) => Pile(bind, c) = Pile(bind, CopyOf[c])

\* The files are written by wrappers outside the binder, which find its data.
DumpsOutside ==
    LET pile == Pile(bind, Model4("forward"))
    IN  \A i, j \in DOMAIN pile :
            pile[i] = Tap("binder") /\ pile[j] \in {Tap("dump_moe"), Tap("dump_attn")} => i < j

HooksStand == TapsOnce /\ NothingLost /\ CopiesAgree /\ DumpsOutside

\* What every pass calls and has no path for the CPU in SGLang, by family.
CudaOnly ==
    [dsv4 |-> {At("kcc", "Configurator", "configure"), V4("get_rope_wrapper"), V4("fused_q_norm_rope"),
               V4("fused_rope_inplace"), At("memory_pool", "module", "k_norm_rope"),
               At("accessor", "SetKAndS", "execute"), At("paged", "module", "alloc_extend"),
               At("paged", "module", "alloc_decode"), At("allocation", "module", "get_last_loc"),
               At("metadata_kernel", "module", "compressed_metadata"), At("backend", "module", "flashmla_metadata"),
               At("topk_backend", "DSATopKBackend", "use_v2"), Mhc("sinkhorn"), Mhc("combine"), Mhc("post"),
               At("mhc_head", "module", "fused_hc_head"), At("flash_mla", "module", "with_kvcache"),
               Moe2("forward_cpu"), At("fp8", "Fp8MoEMethod", "process_weights")},
     glm |-> {Mhc("sinkhorn"), Mhc("combine"), Mhc("post"), At("kda", "KDAAttnBackend", "decode"),
              At("kda", "KDAAttnBackend", "extend"), At("norm_gate", "FusedRMSNormGated", "forward"),
              At("v2", "module", "silu_clamp"), At("forward_mha", "module", "dsa_indexer"), At("topk", "module", "grouped_topk"),
              At("backend_handler", "module", "dispatch_mla"), At("v2", "AttentionMLA", "should_run_indexer"),
              Torch("capability"), Torch("empty")}]

\* DSV4's sparse attention, of which the plan is made on the device (a JIT for
\* CUDA), and the compressor and the indexer rest on it.  DSA_CPU puts something
\* else in the place of each; BYPASS_DSA has metadata made that ask for no plan,
\* whereupon the indexer is skipped, and empties the compressor, which is not.
SparseChain ==
    {At("compressor_v2", "module", "paged_plan"), At("backend", "module", "paged_plan"),
     Backend("core_compressor"), Backend("c4_indexer")}

SparseBypass == {Backend("metadata_prefill"), Backend("metadata_decode"), Backend("core_compressor")}

\* Without either setting they stay SGLang's: DSV4 loads, and the first pass
\* that makes a plan ends in it.
SparseAsked ==
    (IF "DSA_CPU" \in job.env THEN SparseChain ELSE {})
      \cup (IF "BYPASS_DSA" \in job.env THEN SparseBypass ELSE {})

\* On a host without CUDA, an engine for which SGLang lacks nothing comes up
\* with both models, and no call of theirs ends in what only CUDA has, the
\* sparse attention of DSV4 apart; that too is answered for as far as a setting
\* asks for it.  GLM's mhc_post, which takes either form of post, is the one in
\* force.
ServesOnCpu ==
    mod = Up /\ {"cpu", "no_cuda"} \subseteq job.env /\ job.lacks = {} =>
        /\ ToSet(Imports) \subseteq registered
        /\ \A b \in CudaOnly["dsv4"] \cup CudaOnly["glm"] \cup SparseAsked :
               \E h \in ToSet(Pile(bind, b)) : h.kind # "tap"
        /\ Head(Pile(bind, Mhc("post"))) = Answer("adaptive_post")

\* The reference engine loads the same package: on a GPU nothing is answered
\* by the plugin but what a setting of its own asks for.
OffCpuUntouched ==
    "cpu" \notin job.env =>
        \A b \in DOMAIN bind : \A h \in ToSet(bind[b]) :
            h.kind = "answer" =>
                h.name \in (IF "TP_GLOO" \in job.env THEN {"gloo"} ELSE {})
                             \cup (IF "FP8_BF16" \in job.env THEN {"bf16_matmul"} ELSE {})
                             \cup (IF "DETERMINISTIC_DUMMY" \in job.env THEN {"by_name"} ELSE {})

EngineServes == ServesOnCpu /\ OffCpuUntouched

=============================================================================
