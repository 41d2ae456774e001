--------------------------- MODULE CaptureEngine ---------------------------
(***************************************************************************)
(* A capture job: its CPU engine loads the plugin, and then both legs run  *)
(* under the taps.  Every other job is followed to the end of its load.    *)
(***************************************************************************)
EXTENDS Capture, PluginLoad

CONSTANT CaptureJob     \* the job whose work is followed

\* The actions of Capture are what these hooks do, outermost last: a forward
\* binds, its layers record, and the dumps find what was recorded.
Tapped ==
    /\ Pile(bind, Model4("forward")) = <<Tap("binder"), Tap("dump_moe"), Tap("dump_attn")>>
    /\ Tap("experts") \in ToSet(Pile(bind, Moe2("forward")))
    /\ Tap("ids") \in ToSet(Pile(bind, TopK))
    /\ {Tap("io"), Tap("attn_out"), Tap("cap_attn")} \subseteq ToSet(Pile(bind, Mqa("forward")))
    /\ {Tap("layer_states"), Tap("cap_hidden")} \subseteq ToSet(Pile(bind, Layer4("forward")))
    /\ {Tap("cap_logits"), Tap("cap_glm_logits")} \subseteq ToSet(Pile(bind, LogitsProcessor))

\* The scheduler runs forwards once everything is imported.
Serving == mod = Up /\ again = {} /\ Importers \subseteq live

EngineInit ==
    /\ PluginInit /\ CaptureInit
    /\ job # CaptureJob => opt = CHOOSE o \in Options : TRUE

EngineNext ==
    \/ leg = "gpu" /\ at = 0 /\ PluginNext /\ UNCHANGED captureVars
    \/ job = CaptureJob /\ Serving /\ Tapped /\ CaptureNext /\ UNCHANGED pluginVars

EngineSpec == EngineInit /\ [][EngineNext]_<<captureVars, pluginVars>>

=============================================================================
