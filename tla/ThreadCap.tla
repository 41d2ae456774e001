----------------------------- MODULE ThreadCap -----------------------------
(***************************************************************************)
(* The thread caps.  torch has one thread count; sglang sets it to the     *)
(* rank's bound cores, and four wrappers of the plugin change it around a  *)
(* call and put it back: the decode forward (tp=1 only), a dense GEMM, the *)
(* native MoE apply, and, once per process, the MoE sweeps (the isolation  *)
(* probe, and the sweep that picks the MoE cap), which run the apply under *)
(* one count after the other.  The wrappers nest: the operators run inside *)
(* a forward.  A call may raise at any level.                              *)
(***************************************************************************)
EXTENDS Integers, Sequences

CONSTANTS
    Bound,      \* the thread count sglang sets
    Env,        \* the settings considered, see TypeEnv
    Wants,      \* what the decode settings or the control file may ask for
    MoeFixed,   \* INTEL_CPU_DSV4_MOE_THREADS, when a number
    Cands,      \* thread counts the =auto sweep tries, besides the current one
    IsoCands,   \* fixed thread counts of the isolation sweep
    NoCap       \* no cap, no saved thread count

\* decode: a decode cap is configured; world: the tp size; moe: the MoE
\* setting; dense: the dense cap (with 0, which torch refuses, no projection
\* ever runs); iso: the isolation probe is on; native: the experts are in the
\* form of sglang's own apply.
TypeEnv == [decode : BOOLEAN, world : Nat \ {0}, moe : {"none", "fixed", "auto"},
            dense : (Nat \ {0}) \cup {NoCap}, iso : BOOLEAN, native : BOOLEAN]

ASSUME ThreadCapAssumption ==
    /\ Bound \in Nat \ {0} /\ MoeFixed \in Nat
    /\ Env \subseteq TypeEnv
    /\ Wants \subseteq Int /\ Cands \cup IsoCands \subseteq Nat \ {0}
    /\ NoCap \notin Int

VARIABLES
    env,      \* the settings of this process
    threads,  \* torch.get_num_threads()
    moeCap,   \* _MOE_DIAG["cap"], or NoCap
    isoDone,  \* _MOE_DIAG["iso"]
    stack,    \* the wrapped calls running, outermost first
    raising,  \* an exception is on its way up
    leaked    \* a sweep was cut short at another count than its first (a ghost)

vars == <<env, threads, moeCap, isoDone, stack, raising, leaked>>

MinOf(a, b) == IF a < b THEN a ELSE b

MaxOf(a, b) == IF a > b THEN a ELSE b

\* A running call: what it is, and the thread count its wrapper restores.
Frame(op, prev) == [op |-> op, prev |-> prev]

Top == stack[Len(stack)]

Pop == SubSeq(stack, 1, Len(stack) - 1)

\* _DECODE_CAP_ACTIVE, set when the cap is installed, whatever the tp size.
DecodeCapActive == env.decode

-----------------------------------------------------------------------------
(* _fwd of _install_decode_thread_cap. *)

\* Not a decode, no cap installed, or tp > 1: the count is left alone.
ForwardUncapped(decode) ==
    /\ stack = <<>> /\ ~raising
    /\ ~(env.decode /\ env.world = 1 /\ decode)
    /\ stack' = <<Frame(IF decode THEN "decode" ELSE "prefill", NoCap)>>
    /\ UNCHANGED <<env, threads, moeCap, isoDone, raising, leaked>>

\* Mutant: nothing keeps the cap at 1 or more.
ForwardCappedNoFloor(want) ==
    /\ stack = <<>> /\ ~raising
    /\ env.decode /\ env.world = 1
    /\ stack' = <<Frame("decode", threads)>>
    /\ threads' = MinOf(want, threads)
    /\ UNCHANGED <<env, moeCap, isoDone, raising, leaked>>

\* Mutant: the cap is what was asked for, at least 1.
ForwardCappedAtWant(want) ==
    /\ stack = <<>> /\ ~raising
    /\ env.decode /\ env.world = 1
    /\ stack' = <<Frame("decode", threads)>>
    /\ threads' = MaxOf(1, want)
    /\ UNCHANGED <<env, moeCap, isoDone, raising, leaked>>

\* A decode at tp=1 runs under what was asked for, at least 1 and at most the
\* count it is entered with.
ForwardCapped(want) ==
    /\ stack = <<>> /\ ~raising
    /\ env.decode /\ env.world = 1
    /\ stack' = <<Frame("decode", threads)>>
    /\ threads' = MinOf(MaxOf(1, want), threads)
    /\ UNCHANGED <<env, moeCap, isoDone, raising, leaked>>

-----------------------------------------------------------------------------
(* Operators, called by a forward. *)
InForward == Len(stack) = 1 /\ ~raising

\* _apply of _install_gemm_timeit.
Dense ==
    /\ InForward
    /\ stack' = Append(stack, Frame("dense", IF env.dense = NoCap THEN NoCap ELSE threads))
    /\ threads' = IF env.dense = NoCap THEN threads ELSE env.dense
    /\ UNCHANGED <<env, moeCap, isoDone, raising, leaked>>

\* A projection forced to bf16: its wrapper is outside of the cap's and does
\* not call it.
DenseForced ==
    /\ InForward
    /\ stack' = Append(stack, Frame("dense.bf16", NoCap))
    /\ UNCHANGED <<env, threads, moeCap, isoDone, raising, leaked>>

\* _patched_apply: the MoE operator is entered; it first runs the isolation
\* probe, if that has not been done yet.
Moe ==
    /\ InForward
    /\ stack' = Append(stack, Frame(IF env.iso /\ ~isoDone THEN "moe.iso" ELSE "moe", NoCap))
    /\ UNCHANGED <<env, threads, moeCap, isoDone, raising, leaked>>

\* What the isolation sweep entered with count n tries, and what the one for
\* the cap does.
IsoCounts(n) == IsoCands \cup {n, 2 * n}
TuneCounts(n) == {c \in Cands \cup {n} : 1 <= c /\ c <= n}

\* n is the first of the counts C above m, in order.
NextCount(C, m, n) == n \in C /\ n > m /\ \A c \in C : c > m => n <= c

\* A sweep that was entered with count n has the calls of the apply run under
\* its first count, and then under the next: the count is set before a call,
\* and nothing restores it between them.
SweepStarts(op, C, n) ==
    /\ stack' = Append(Pop, Frame(op, threads))
    /\ NextCount(C, 0, n)
    /\ threads' = n

SweepNext(op, C, n) ==
    /\ stack # <<>> /\ ~raising /\ Top.op = op
    /\ NextCount(C, threads, n)
    /\ threads' = n
    /\ UNCHANGED <<env, moeCap, isoDone, stack, raising, leaked>>

\* The sweep ends behind its last count, and restores the first one.
SweepEnds(op, C) ==
    /\ stack # <<>> /\ ~raising /\ Top.op = op
    /\ \A c \in C : c <= threads
    /\ threads' = Top.prev

\* The apply fails under some count, which stays: there is no finally.
SweepFails(op) ==
    /\ stack # <<>> /\ ~raising /\ Top.op = op
    /\ leaked' = (leaked \/ threads # Top.prev)
    /\ UNCHANGED <<env, threads, moeCap, isoDone>>

\* The isolation probe: the process has it behind it once it has begun.  Two
\* of its counts are the current one and twice that, the others are fixed.
IsoStarts(n) ==
    /\ stack # <<>> /\ ~raising /\ Top.op = "moe.iso"
    /\ isoDone' = TRUE
    /\ SweepStarts("moe.sweep", IsoCounts(threads), n)
    /\ UNCHANGED <<env, moeCap, raising, leaked>>

IsoNext(n) == stack # <<>> /\ SweepNext("moe.sweep", IsoCounts(Top.prev), n)

\* Mutant: the probe leaves its last count in force.
IsoEndsAtLast ==
    /\ stack # <<>> /\ ~raising /\ Top.op = "moe.sweep"
    /\ \A c \in IsoCounts(Top.prev) : c <= threads
    /\ stack' = Append(Pop, Frame("moe", NoCap))
    /\ UNCHANGED <<env, threads, moeCap, isoDone, raising, leaked>>

IsoEnds ==
    /\ stack # <<>> /\ SweepEnds("moe.sweep", IsoCounts(Top.prev))
    /\ stack' = Append(Pop, Frame("moe", NoCap))
    /\ UNCHANGED <<env, moeCap, isoDone, raising, leaked>>

\* The exception is logged and dropped.
IsoFails ==
    /\ SweepFails("moe.sweep")
    /\ stack' = Append(Pop, Frame("moe", NoCap))
    /\ UNCHANGED raising

\* Mutant: the per-op cap does not ask for the decode cap.
MoeCapAppliesAlways == env.native /\ env.moe # "none"

\* _resolve_moe_thread_cap gives a cap at all; experts kept in fp4 return
\* before it is asked.
MoeCapApplies == env.native /\ env.moe # "none" /\ ~DecodeCapActive

\* The MoE apply, uncapped.
MoeUncapped ==
    /\ stack # <<>> /\ ~raising /\ Top.op = "moe"
    /\ ~MoeCapApplies
    /\ stack' = Append(Pop, Frame("moe.apply", NoCap))
    /\ UNCHANGED <<env, threads, moeCap, isoDone, raising, leaked>>

\* The MoE apply, under the cap found earlier, or the fixed one.
MoeCapped ==
    /\ stack # <<>> /\ ~raising /\ Top.op = "moe"
    /\ MoeCapApplies
    /\ moeCap # NoCap \/ env.moe = "fixed"
    /\ LET cap == IF moeCap # NoCap THEN moeCap ELSE MaxOf(1, MinOf(MoeFixed, threads))
       IN  /\ moeCap' = cap
           /\ threads' = cap
    /\ stack' = Append(Pop, Frame("moe.apply", threads))
    /\ UNCHANGED <<env, isoDone, raising, leaked>>

\* =auto: the candidates up to the current count are tried, the fastest is the
\* cap, and the operator goes on to run under it.
TuneStarts(n) ==
    /\ stack # <<>> /\ ~raising /\ Top.op = "moe"
    /\ MoeCapApplies /\ moeCap = NoCap /\ env.moe = "auto"
    /\ SweepStarts("moe.tune", TuneCounts(threads), n)
    /\ UNCHANGED <<env, moeCap, isoDone, raising, leaked>>

TuneNext(n) == stack # <<>> /\ SweepNext("moe.tune", TuneCounts(Top.prev), n)

TuneEnds(best) ==
    /\ stack # <<>> /\ SweepEnds("moe.tune", TuneCounts(Top.prev))
    /\ best \in TuneCounts(Top.prev)
    /\ moeCap' = best
    /\ stack' = Append(Pop, Frame("moe", NoCap))
    /\ UNCHANGED <<env, isoDone, raising, leaked>>

\* The exception leaves the operator.
TuneFails ==
    /\ SweepFails("moe.tune")
    /\ raising' = TRUE
    /\ stack' = Pop

\* Every count a running sweep may try.
SweepCounts ==
    IF stack = <<>> \/ Top.prev = NoCap THEN {}
    ELSE IsoCounts(Top.prev) \cup TuneCounts(Top.prev)

-----------------------------------------------------------------------------
(* The end of a call. *)

\* Mutant: an exception skips the restore (no finally).
LeaveNoFinally ==
    /\ stack' = Pop
    /\ threads' = IF Top.prev = NoCap \/ raising' THEN threads ELSE Top.prev

\* The wrapper of the innermost call restores what it saved, finally.
Leave ==
    /\ stack' = Pop
    /\ threads' = IF Top.prev = NoCap THEN threads ELSE Top.prev

Return ==
    /\ stack # <<>> /\ ~raising
    /\ Top.op \notin {"moe", "moe.iso", "moe.sweep", "moe.tune"}
    /\ raising' = FALSE
    /\ Leave
    /\ UNCHANGED <<env, moeCap, isoDone, leaked>>

\* The wrapped call raises, or the exception of an inner one goes through it.
Raise ==
    /\ stack # <<>>
    /\ raising \/ Top.op \notin {"moe", "moe.iso", "moe.sweep", "moe.tune"}
    /\ raising' = TRUE
    /\ Leave
    /\ UNCHANGED <<env, moeCap, isoDone, leaked>>

\* sglang drops the forward and serves the next one.
Caught ==
    /\ stack = <<>> /\ raising
    /\ raising' = FALSE
    /\ UNCHANGED <<env, threads, moeCap, isoDone, stack, leaked>>

Init ==
    /\ env \in Env
    /\ threads = Bound
    /\ moeCap = NoCap
    /\ isoDone = FALSE
    /\ stack = <<>>
    /\ raising = FALSE
    /\ leaked = FALSE

Next ==
    \/ \E decode \in BOOLEAN : ForwardUncapped(decode)
    \/ \E want \in Wants : ForwardCapped(want)
    \/ Dense
    \/ DenseForced
    \/ Moe
    \/ \E n \in IsoCounts(threads) : IsoStarts(n)
    \/ \E n \in SweepCounts : IsoNext(n)
    \/ IsoEnds
    \/ IsoFails
    \/ MoeUncapped
    \/ MoeCapped
    \/ \E n \in TuneCounts(threads) : TuneStarts(n)
    \/ \E n \in SweepCounts : TuneNext(n)
    \/ \E best \in SweepCounts : TuneEnds(best)
    \/ TuneFails
    \/ Return
    \/ Raise
    \/ Caught

Spec == Init /\ [][Next]_vars

-----------------------------------------------------------------------------
(* Properties. *)

TypeOK ==
    /\ env \in Env
    /\ threads \in Nat \ {0}
    /\ moeCap \in (Nat \ {0}) \cup {NoCap}
    /\ Len(stack) <= 2
    /\ raising \in BOOLEAN /\ isoDone \in BOOLEAN /\ leaked \in BOOLEAN

\* Between forwards the thread count is what sglang set, however the calls
\* of the earlier forwards nested and wherever they raised, unless a sweep
\* was cut short at another count than the one it was entered with.
Restored == stack = <<>> /\ ~leaked => threads = Bound

\* "a per-op MoE cap on top CONFLICTS": the MoE cap is never in force inside
\* a capped decode forward.
CapsDoNotCompose ==
    ~ /\ Len(stack) = 2
      /\ stack[1].op = "decode" /\ stack[1].prev # NoCap
      /\ stack[2].op = "moe.apply" /\ stack[2].prev # NoCap

\* A forward runs with at most the bound count, and a capped one no more than
\* it was entered with: "fixed-cap sweep is monotonic up to bound-2 then
\* cliffs at the bound".  The MoE cap, once found, is at most the bound too.
\* Two calls run above it: a dense linear, when its cap is, and those of the
\* isolation sweep, under at most twice the bound or one of its fixed counts.
NeverAboveBound ==
    ~leaked =>
        /\ moeCap # NoCap => moeCap <= Bound
        /\ stack # <<>> /\ Top.op \notin {"dense", "moe.sweep"} => threads <= Bound
        /\ stack # <<>> /\ Top.op = "moe.sweep" => threads <= 2 * Bound \/ threads \in IsoCands

\* Nested caps lower the thread count once, and only a dense linear and the
\* isolation sweep run above the bound.
CapsAreSound == TypeOK /\ CapsDoNotCompose /\ NeverAboveBound

=============================================================================
