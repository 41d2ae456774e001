---------------------------- MODULE MCThreadCap ----------------------------
(* Instances of MoeServing for TLC. *)
EXTENDS MoeServing

\* Every combination of the settings, at tp=1 and tp=2, with a dense cap
\* below the bound and one above it.
AllEnvs == [decode : BOOLEAN, world : {1, 2}, moe : {"none", "fixed", "auto"},
            dense : {NoCap, 2, 6}, iso : BOOLEAN, native : BOOLEAN]

\* What the decode settings may ask for, 0 and more than the bound included.
AllWants == -1..5

\* Every way of keeping the experts and the projections, with its probe on.
AllModes ==
    {m \in TypeMode :
        m.moeParity = m.mxfp4 /\ (m.bf16moe => ~m.mxfp4 \/ ~m.fp8Bf16)}

\* Two layers of experts, a row-major linear and two projections, with every
\* type of scale and code; the experts' exponents differ, and reach the least.
Expert(kind, e) == [code |-> "fp4", order |-> "row", kind |-> kind, exp |-> e]
Linear(code, e) == [code |-> code, order |-> "row", kind |-> "f32", exp |-> e]
Gate(code) == [code |-> code, order |-> "row", kind |-> "dummy", exp |-> 0]
AllCheckpoints ==
    {[l \in Layers |->
        CASE l = "e1" -> Expert(kind, -127) [] l = "e2" -> Expert(kind, -7)
          [] l = "wo_a" -> Linear(IF code = "fp8" THEN "bf16" ELSE code, 1)
          [] l = "q" -> Linear(code, 2) [] l = "o" -> Linear(code, 3)
          [] OTHER -> Gate(IF kind = "f32" THEN "f32" ELSE "bf16")] :
        kind \in {"f32", "u8", "i8", "half"}, code \in {"fp8", "fp8 bytes"}}

\* The thread settings are all tried with plain modes of either kind, the
\* modes and checkpoints all with few thread settings.
FewEnvs == {e \in AllEnvs : ~e.decode /\ e.world = 1 /\ e.moe = "fixed" /\ e.dense = 2 /\ ~e.iso}
PlainModes == {m \in AllModes : ~m.bf16moe /\ ~m.moeParity /\ ~m.fp8Parity /\ ~m.realRouter /\ ~m.square}

MCInit ==
    /\ ServeInit
    /\ env \in FewEnvs \/ (mode \in PlainModes /\ loaded = CHOOSE c \in AllCheckpoints : TRUE)
MCSpec == MCInit /\ [][ServeNext]_<<vars, weightVars>>

=============================================================================
