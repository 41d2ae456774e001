----------------------------- MODULE MCCapture -----------------------------
(* Two layers, and decode tags that change in the middle of a step; two    *)
(* frozen prompts of four tokens, the second of which is asked for, beside *)
(* another as long, a long prompt and decode steps.                        *)
(* The plugin loads under every group of settings that puts its hooks on   *)
(* the same names, on SGLangs that lack one name or another, for a CPU     *)
(* engine on a host without CUDA, one on a host with it, and a GPU engine. *)
EXTENDS CaptureEngine

MCFrozen == <<"a", "b">>
MCTokensIn ==
    [a |-> 4, b |-> 4, c |-> 4, long |-> 64, token |-> 1, dummy |-> 4, profile |-> 64]
MCStarts == [gpu : {<<>>, <<"token">>}, cpu : {<<>>, <<"dummy">>, <<"profile">>}]
MCOptions ==
    [family : {"dsv4", "glm"}, ranks : {1}, start : MCStarts]
        \cup [family : {"dsv4"}, ranks : {2}, start : [gpu : {<<>>}, cpu : {<<>>}]]
MCLimits ==
    [gpu |-> [layer |-> 3, hcpre |-> 3, hcpost |-> 4, attn |-> 3, woa |-> 4, qb |-> 6,
              kv |-> 3, fqr |-> 4, woafn |-> 2, sink |-> 3, lp |-> 3],
     cpu |-> [layer |-> 3, hcpre |-> 3, hcpost |-> 4, attn |-> 3, woa |-> 4, qb |-> 3,
              kv |-> 3, fqr |-> 4, woafn |-> 2, sink |-> 3, lp |-> 3]]

Timers == {"TIMEIT", "PHASE", "HCPRE", "gemm_hook"}
Captures == {"LAYER_CAPTURE", "ATTNIO", "FULLCAP", "GLM_FULLCAP"}
Debug == {"HID_DEBUG", "FP8_PARITY", "FP8_BF16"}
Modes == {"DETERMINISTIC_DUMMY", "REAL_ROUTER", "EXPERT_HIST", "DSA_CPU", "BYPASS_DSA", "CKERNEL",
          "DECODE_THREADS", "INTERLEAVE", "TP_GLOO"}
MCHosts == {{"cpu", "no_cuda"}, {"cpu"}, {}}
MCSettings ==
    {{}, Timers, Captures, Debug, Modes, {"DSA_CPU"}, {"BYPASS_DSA"}, Timers \cup Captures \cup Debug \cup Modes}
MCLacks ==
    {{}} \cup {{b} : b \in {<<"v4">>, <<"v4", "MQALayer">>, <<"mhc">>, <<"fp8">>, <<"glm5">>, <<"kda">>,
                            <<"backend">>, <<"hash_topk">>, <<"amx_utils", "PackWeightMethod">>,
                            <<"v2", "MoE", "forward_cpu">>, <<"fp8", "Fp8LinearMethod", "apply">>}}
MCJobs ==
    [env : {host \cup set : host \in MCHosts, set \in MCSettings}, lacks : MCLacks,
     live : {{}, {"model_runner", "allocation", "loader"}}]
MCCaptureJob == [env |-> {"cpu", "no_cuda"} \cup Captures, lacks |-> {}, live |-> {}]

=============================================================================
