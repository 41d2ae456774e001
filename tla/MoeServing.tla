----------------------------- MODULE MoeServing -----------------------------
(***************************************************************************)
(* An engine process: the weights are loaded, then forwards are served     *)
(* under the thread caps.  The form the experts were given decides whether *)
(* their apply reaches the MoE cap, the form of a projection whether its   *)
(* product is under the dense cap, and the probes compare at the first     *)
(* calls that return.                                                      *)
(***************************************************************************)
EXTENDS ThreadCap, WeightForms

ServeInit ==
    /\ Init /\ LoadInit
    /\ env.native = (ExpertBranch = "native")

\* The weights are processed, in any order, before the first forward.
Load == LoadNext /\ UNCHANGED vars

\* What a call that returns does beside the thread count.
Effects ==
    LET returns(op) == stack # <<>> /\ stack' = Pop /\ ~raising' /\ Top.op = op
    IN  IF returns("moe.apply") THEN \E l \in Experts : RunExpert(l)
        ELSE IF returns("dense.bf16") THEN \E l \in store : RunLinear(l)
        ELSE IF returns("dense")
        THEN UNCHANGED weightVars \/ \E l \in Projections \ store : RunLinear(l)
        ELSE UNCHANGED weightVars

Serve ==
    /\ todo = {}
    /\ Next
    /\ stack' # stack /\ stack' # <<>> /\ stack'[Len(stack')].op = "dense.bf16" => store # {}
    /\ Effects

ServeNext == Load \/ Serve

ServeSpec == ServeInit /\ [][ServeNext]_<<vars, weightVars>>

=============================================================================
