---------------------------- MODULE WeightForms ----------------------------
(***************************************************************************)
(* What becomes of the weights behind the checkpoint load, and what their  *)
(* consumers then read.  The plugin wraps process_weights_after_loading of *)
(* the fp4 experts, of the linear layers and of the MoE gates: a weight is *)
(* kept as it is, converted or packed (VNNI), and each consumer assumes    *)
(* one code, one order of the elements and one kind of scale.              *)
(*                                                                         *)
(* A tensor is abstracted to those three and to the exponent of its        *)
(* power-of-two scale; a consumer that assumes another code or order reads *)
(* garbage.  Two probes compare a kernel, once, with an oracle that they   *)
(* compute from a copy made before the conversion.                         *)
(***************************************************************************)
EXTENDS Integers, FiniteSets

CONSTANTS
    Experts,     \* MoE layers with fp4 experts
    RowMajor,    \* linears read by a plain product: wo_a, wkv_gate (tagged)
    Projections, \* linears read by their quantization method
    Gates,       \* MoE gates
    Modes,       \* the settings considered, see TypeMode
    Checkpoints, \* what the loader may deliver, by layer
    NoLayer

\* bf16moe, mxfp4: how the experts are kept; moeParity, fp8Parity: the probes;
\* fp8Bf16: projections in bf16; realRouter: gates from the checkpoint though
\* the load is a dummy one; square: as many experts as hidden units.
TypeMode == [bf16moe : BOOLEAN, mxfp4 : BOOLEAN, moeParity : BOOLEAN, fp8Parity : BOOLEAN,
             fp8Bf16 : BOOLEAN, realRouter : BOOLEAN, square : BOOLEAN]

Layers == Experts \cup RowMajor \cup Projections \cup Gates

\* What the loader delivers is in rows; the experts are fp4 with a scale of
\* any type, the linears bf16 or fp8, and a scale 2^e has -127 <= e <= 127.
Scale == -127..127

ExpertTensors == [code : {"fp4"}, order : {"row"}, kind : {"f32", "u8", "i8", "half"}, exp : Scale]
LinearTensors == [code : {"bf16", "fp8", "fp8 bytes"}, order : {"row"}, kind : {"f32"}, exp : Scale]
GateTensors   == [code : {"f32", "bf16"}, order : {"row"}, kind : {"dummy"}, exp : Scale]

ASSUME WeightAssumption ==
    /\ Modes \subseteq TypeMode
    /\ NoLayer \notin Layers
    /\ Experts \cap (RowMajor \cup Projections \cup Gates) = {}
    /\ RowMajor \cap (Projections \cup Gates) = {} /\ Projections \cap Gates = {}
    /\ \A c \in Checkpoints :
          /\ DOMAIN c = Layers
          /\ \A l \in Experts : c[l] \in ExpertTensors
          /\ \A l \in RowMajor \cup Projections : c[l] \in LinearTensors
          /\ \A l \in Gates : c[l] \in GateTensors

VARIABLES
    mode,     \* the settings of this process
    loaded,   \* what the loader has delivered
    form,     \* the layer's tensor now
    todo,     \* layers still to be processed
    broken,   \* row-major linears whose conversion raised (a ghost)
    store,    \* _store: projections with a bf16 copy
    moeRef,   \* the layer that has _mxfp4_ref, and the tensor copied
    moeProbe, \* verdict of the expert probe
    fp8Ref,   \* _st["ref"]
    fp8Probe  \* verdict of the projection probe, and the layer it ran on

weightVars == <<mode, loaded, form, todo, broken, store, moeRef, moeProbe, fp8Ref, fp8Probe>>

\* What a consumer reads that assumes another code or order: no exponent.
Garbled == 1000
NoTensor == [code |-> "none", order |-> "none", kind |-> "none", exp |-> 0]
NoRef == [layer |-> NoLayer, tensor |-> NoTensor]
NoVerdict == [verdict |-> "none", layer |-> NoLayer]

-----------------------------------------------------------------------------
(* Experts. *)

\* Mutant: the four bytes of a float32 scale are taken for four scales.
ScaleByteView(kind, e) == IF kind = "f32" THEN (e + 127) % 2 ELSE e + 127

\* _scale_to_e8m0, the byte b of a scale 2^e, to mean 2^(b - 127): a byte as it
\* is, the exponent field of a float32 (0 below the normal range), or the
\* rounded logarithm of a half-precision or e8m0 float, raised to 2^-126 first.
ScaleByte(kind, e) ==
    CASE kind \in {"u8", "i8"} -> e + 127
      [] kind = "f32" -> IF e >= -126 THEN e + 127 ELSE 0
      [] OTHER -> (IF e >= -126 THEN e ELSE -126) + 127

\* convert_weight_packed goes by the type of the elements.
Packed(elements) == IF elements = "i8" THEN "vnni w8a8" ELSE "vnni"

\* Mutant: the fp4 bytes are packed as the signed bytes they are loaded as.
PackExpertSigned(t) ==
    [code |-> "fp4", order |-> Packed("i8"), kind |-> "byte", exp |-> ScaleByte(t.kind, t.exp) - 127]

\* The MXFP4 branch: the bytes are viewed as unsigned before they are packed.
PackExpert(t) ==
    [code |-> "fp4", order |-> Packed("u8"), kind |-> "byte", exp |-> ScaleByte(t.kind, t.exp) - 127]

\* Plan A: cast to fp8 without loss, with a float32 scale, and packed by the
\* method that the plugin has wrapped.
CastExpert(t) == [code |-> "fp8", order |-> "vnni", kind |-> "f32", exp |-> t.exp]

\* The branches of _patched_pwal, in their order; _patched_apply has the same,
\* as it goes by the flags that these leave on the layer.
ExpertBranch == IF mode.bf16moe THEN "bf16" ELSE IF mode.mxfp4 THEN "mxfp4" ELSE "native"

\* Mutant: the probe copies the weights behind the packing.
StashPacked(l) == form'[l]

\* What the expert probe copies.
Stash(l) == form[l]

LoadExpert(l) ==
    /\ l \in todo \cap Experts
    /\ form' = [form EXCEPT ![l] =
          CASE ExpertBranch = "bf16" -> @ [] ExpertBranch = "mxfp4" -> PackExpert(@) [] OTHER -> CastExpert(@)]
    /\ moeRef' = IF ExpertBranch = "mxfp4" /\ mode.moeParity /\ moeRef = NoRef /\ moeProbe = NoVerdict
                 THEN [layer |-> l, tensor |-> Stash(l)] ELSE moeRef
    /\ todo' = todo \ {l}
    /\ UNCHANGED <<mode, loaded, broken, store, moeProbe, fp8Ref, fp8Probe>>

\* _torch_fp4_moe_apply, the MXFP4 kernel, and the native fp8 kernel.
ReadExpert(t) ==
    CASE ExpertBranch = "bf16" -> IF t.code = "fp4" /\ t.order = "row" THEN t.exp ELSE Garbled
      [] ExpertBranch = "mxfp4" ->
            IF t.code = "fp4" /\ t.order = "vnni" /\ t.kind = "byte" THEN t.exp ELSE Garbled
      [] OTHER -> IF t.code = "fp8" /\ t.order = "vnni" /\ t.kind = "f32" THEN t.exp ELSE Garbled

\* The oracle takes the copied scale for a number: a scale that was loaded as
\* bytes is 127 too high and more, in no way the exponent.
ReadMoeRef(t) ==
    IF t.code = "fp4" /\ t.order = "row" /\ t.kind \notin {"u8", "i8"} THEN t.exp ELSE Garbled

\* An apply of the experts; the layer with the copy is compared once.
RunExpert(l) ==
    /\ l \in Experts
    /\ IF moeRef.layer = l
       THEN /\ moeRef' = NoRef
            /\ moeProbe' = [layer |-> l,
                  verdict |-> IF ReadMoeRef(moeRef.tensor) = ReadExpert(form[l]) /\ ReadExpert(form[l]) # Garbled
                              THEN "PASS" ELSE "FAIL"]
       ELSE UNCHANGED <<moeRef, moeProbe>>
    /\ UNCHANGED <<mode, loaded, form, todo, broken, store, fp8Ref, fp8Probe>>

-----------------------------------------------------------------------------
(* Linears.  The wrapper of wo_a is outermost, then the forced bf16, the   *)
(* probe, and sglang's own packing.                                        *)

Fp8Codes == {"fp8", "fp8 bytes"}

Rows(t) == [t EXCEPT !.code = "bf16", !.order = "row"]

\* Mutant: only wo_a is kept from the packing.
KeepsRowMajorFirst(l) == l \in RowMajor /\ loaded[l].code = "bf16"

\* _keep_wo_a_rowmajor goes by the tag given at construction.
KeepsRowMajor(l) == l \in RowMajor

\* A conversion that raises is logged and the layer packed like any other.
LoadLinear(l, raises) ==
    /\ l \in todo \cap (RowMajor \cup Projections)
    /\ raises => l \in RowMajor
    /\ LET t == form[l]
           passed == ~KeepsRowMajor(l) \/ raises
           fp8 == passed /\ t.code \in Fp8Codes
       IN  /\ form' = [form EXCEPT ![l] = IF passed THEN [@ EXCEPT !.order = "vnni"] ELSE Rows(@)]
           /\ store' = IF fp8 /\ mode.fp8Bf16 THEN store \cup {l} ELSE store
           /\ fp8Ref' = IF fp8 /\ mode.fp8Parity /\ fp8Ref = NoRef
                        THEN [layer |-> l, tensor |-> t] ELSE fp8Ref
    /\ broken' = IF raises THEN broken \cup {l} ELSE broken
    /\ todo' = todo \ {l}
    /\ UNCHANGED <<mode, loaded, moeRef, moeProbe, fp8Probe>>

\* The plain products read rows of bf16; the others the bf16 copy, or by AMX.
ReadLinear(l) ==
    LET t == form[l]
    IN  IF l \in RowMajor THEN (IF t.code = "bf16" /\ t.order = "row" THEN t.exp ELSE Garbled)
        ELSE IF l \in store THEN loaded[l].exp
        ELSE IF t.order = "vnni" THEN t.exp ELSE Garbled

\* The oracle does not view bytes as fp8 before it scales them.
ReadFp8Ref(t) == IF t.code = "fp8" THEN t.exp ELSE Garbled

\* The probe is behind the forced bf16, runs once, and takes whatever layer is
\* applied first.
ProbeRuns(l) == l \notin store /\ fp8Ref # NoRef /\ fp8Probe = NoVerdict

\* Fp8LinearMethod.apply.
RunLinear(l) ==
    /\ l \in Projections
    /\ loaded[l].code \in Fp8Codes
    /\ fp8Probe' =
          IF ~ProbeRuns(l) THEN fp8Probe
          ELSE [layer |-> l,
                verdict |-> IF fp8Ref.layer = l /\ ReadFp8Ref(fp8Ref.tensor) = ReadLinear(l)
                               /\ ReadLinear(l) # Garbled
                            THEN "PASS" ELSE "FAIL"]
    /\ UNCHANGED <<mode, loaded, form, todo, broken, store, moeRef, moeProbe, fp8Ref>>

-----------------------------------------------------------------------------
(* Gates: kind is the source of the values, "dummy" or "real".             *)

\* PackWeightMethod: a float32 gate comes out transposed, a bf16 one packed.
PackGate(t) == [t EXCEPT !.order = IF t.code = "f32" THEN "transposed" ELSE "vnni"]

\* The values of the checkpoint, which has this gate in this shape, as rows.
Inject(t) == IF mode.realRouter THEN [t EXCEPT !.kind = "real", !.order = "row"] ELSE t

\* Mutant: the real gate is copied in behind the packing.
GateFormBehind(t) == Inject(PackGate(t))

\* The real gate goes in before the packing.
GateForm(t) == PackGate(Inject(t))

LoadGate(l) ==
    /\ l \in todo \cap Gates
    /\ form' = [form EXCEPT ![l] = GateForm(@)]
    /\ todo' = todo \ {l}
    /\ UNCHANGED <<mode, loaded, broken, store, moeRef, moeProbe, fp8Ref, fp8Probe>>

\* MoEGate.forward: a float32 weight whose rows are hidden units, and not at
\* the same time experts, is turned back; else it is read as rows of experts.
ReadGate(l) ==
    LET t == form[l]
        assumed == IF t.code # "f32" THEN "vnni" ELSE IF mode.square THEN "row" ELSE "transposed"
    IN  IF t.order = assumed THEN t.exp ELSE Garbled

LoadInit ==
    /\ mode \in Modes /\ loaded \in Checkpoints
    /\ form = loaded
    /\ todo = Layers
    /\ broken = {} /\ store = {}
    /\ moeRef = NoRef /\ fp8Ref = NoRef
    /\ moeProbe = NoVerdict /\ fp8Probe = NoVerdict

LoadNext ==
    \/ \E l \in Layers : LoadExpert(l) \/ LoadGate(l)
    \/ \E l \in Layers, raises \in BOOLEAN : LoadLinear(l, raises)

-----------------------------------------------------------------------------
(* Properties. *)

\* Once a layer is processed, its consumer reads the weights that were loaded,
\* in every mode, whatever type the scales come in: but for 2^-127 in a float
\* of half precision, a row-major linear whose conversion raised, and a square
\* float32 gate.
WeightsKept ==
    /\ \A l \in Experts \ todo :
          ReadExpert(form[l]) =
              IF ExpertBranch = "mxfp4" /\ loaded[l].kind = "half" /\ loaded[l].exp < -126
              THEN -126 ELSE loaded[l].exp
    /\ \A l \in (RowMajor \cup Projections) \ (todo \cup broken) : ReadLinear(l) = loaded[l].exp
    /\ \A l \in Gates \ todo :
          /\ (loaded[l].code = "f32" /\ mode.square) \/ ReadGate(l) = loaded[l].exp
          /\ mode.realRouter => form[l].kind = "real"

\* The verdict of a probe is about the layer it ran on.  A PASS is only given
\* to a layer that reads what was loaded.  A FAIL means one that does not: in
\* the experts when the scales came as floats above 2^-127, in the projections
\* when the first layer processed was the first one applied and its weights
\* came as floats.
ProbesTellTheTruth ==
    /\ moeProbe.verdict = "PASS" => ReadExpert(form[moeProbe.layer]) = loaded[moeProbe.layer].exp
    /\ moeProbe.verdict = "FAIL" =>
          loaded[moeProbe.layer].kind \in {"u8", "i8"} \/ loaded[moeProbe.layer].exp < -126
    /\ fp8Probe.verdict = "PASS" => ReadLinear(fp8Probe.layer) = loaded[fp8Probe.layer].exp
    /\ fp8Probe.verdict = "FAIL" =>
          fp8Probe.layer # fp8Ref.layer \/ loaded[fp8Probe.layer].code = "fp8 bytes"

=============================================================================
