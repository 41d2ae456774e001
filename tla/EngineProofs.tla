---------------------------- MODULE EngineProofs ----------------------------
(***************************************************************************)
(* The thread count comes back to what sglang set, and the caps do not     *)
(* compose, while an engine loads its weights and serves: for every bound, *)
(* cap, setting and candidate, whichever calls nest and wherever one       *)
(* raises.  In the same engine every consumer reads the weights that were  *)
(* loaded and the probes tell the truth: for every mode, any set of layers *)
(* and whatever checkpoint, in whatever order the layers are processed.    *)
(* And the files of the taps around an engine's forward survive: for every *)
(* number of layers and start-up, whichever way its ranks interleave while *)
(* they write, and wherever the engine is killed.                          *)
(*                                                                         *)
(* Last, what the two legs captured is laid side by side rightly.  The     *)
(* forwards of a leg are counted with its start-ups behind zero, so that   *)
(* forward e is that of item e of the work on either leg.  RunOK says      *)
(* which forward is being run, BindOK which one the bound taps hold, and   *)
(* KeysOK and TraceOK give the captured keys and the traces in closed form *)
(* of how far the leg is.                                                  *)
(*                                                                         *)
(* The engine also comes up: the plugin's load answers for all that only   *)
(* CUDA has, and off the CPU for nothing.  Sound says what any pile may    *)
(* hold; Carried, where SGLang lacks nothing, that a flag is up only where *)
(* its hook is, that what the installers run so far have put somewhere     *)
(* still stands, and that GLM's mhc_post is the one in force.              *)
(***************************************************************************)
EXTENDS MoeServing, CaptureEngine, SequenceTheorems, FiniteSetTheorems,
        WellFoundedInduction, TLAPS

Counts == Nat \ {0}

Outer == [op : {"decode", "prefill"}, prev : Counts \cup {NoCap}]

InnerOps == {"dense", "dense.bf16", "moe", "moe.iso", "moe.sweep", "moe.tune", "moe.apply"}

Inner == [op : InnerOps, prev : Counts \cup {NoCap}]

\* What an operator may run under, while the forward around it has the bound
\* or less.
Bounded(op, t) ==
    /\ op \notin {"dense", "moe.sweep"} => t <= Bound
    /\ op = "moe.sweep" => t <= 2 * Bound \/ t \in IsoCands

\* The count after the wrapper of frame f has restored its own.
Undone(t, f) == IF f.prev = NoCap THEN t ELSE f.prev

\* The running calls s are a forward, and in it at most one operator.
Nested(s) ==
    \/ s = <<>>
    \/ \E f \in Outer : s = <<f>>
    \/ \E f \in Outer, g \in Inner : s = <<f, g>>

\* With count t, undoing the frames of s gives the bound back, and on the way
\* no count is above it but the one a dense linear or a sweep runs under.
Undoes(s, t) ==
    /\ s = <<>> => t = Bound
    /\ \A f \in Outer : s = <<f>> => Undone(t, f) = Bound /\ t <= Bound
    /\ \A f \in Outer, g \in Inner : s = <<f, g>> =>
          /\ Undone(Undone(t, g), f) = Bound
          /\ Undone(t, g) <= Bound
          /\ Bounded(g.op, t)

\* Which settings the capped calls of s run under, and that the MoE operator
\* has no count of its own to restore before it has entered the apply, unless
\* it is in a sweep.
Settled(s, e) ==
    /\ \A f \in Outer : s = <<f>> => (f.prev # NoCap => e.decode)
    /\ \A f \in Outer, g \in Inner : s = <<f, g>> =>
          /\ f.prev # NoCap => e.decode
          /\ g.op \in {"moe", "moe.iso"} => g.prev = NoCap
          /\ g.op \in {"moe.sweep", "moe.tune"} => g.prev # NoCap
          /\ g.op = "moe.apply" /\ g.prev # NoCap => ~e.decode

Types ==
    /\ env \in Env /\ threads \in Counts
    /\ moeCap \in Counts \cup {NoCap}
    /\ raising \in BOOLEAN /\ isoDone \in BOOLEAN /\ leaked \in BOOLEAN

\* The inductive invariant.  Once a sweep was cut short at another count than
\* its first, nothing is known of the count.
CapInv ==
    /\ Types /\ Nested(stack) /\ Settled(stack, env)
    /\ ~leaked => Undoes(stack, threads) /\ (moeCap # NoCap => moeCap <= Bound)

-----------------------------------------------------------------------------
(* Constants, and the stack. *)

LEMMA CapConstants ==
    /\ Bound \in Counts /\ MoeFixed \in Nat /\ Wants \subseteq Int
    /\ Cands \subseteq Counts /\ IsoCands \subseteq Counts /\ NoCap \notin Int
    /\ \A e \in Env : e.dense \in Counts \cup {NoCap}
  BY ThreadCapAssumption DEF TypeEnv, Counts

LEMMA FirstOfTwo ==
    ASSUME NEW S, NEW f \in S, NEW g \in S
    PROVE  SubSeq(<<f, g>>, 1, 1) = <<f>>
<1> DEFINE s == SubSeq(<<f, g>>, 1, 1)
           t == <<f>>
<1>1. <<f, g>> \in Seq(S) /\ Len(<<f, g>>) = 2 /\ <<f, g>>[1] = f
  OBVIOUS
<1>2. s \in Seq(S) /\ Len(s) = 1 /\ s[1] = f
  BY <1>1
<1>3. t \in Seq(S) /\ Len(t) = 1 /\ t[1] = f
  OBVIOUS
<1> HIDE DEF s, t
<1>4. \A i \in 1..Len(s) : s[i] = t[i]
  BY <1>2, <1>3
<1>5. s = t
  BY <1>2, <1>3, <1>4, SeqEqual
<1> QED
  BY <1>5 DEF s, t

LEMMA OneAndOne ==
    ASSUME NEW S, NEW f \in S, NEW h \in S
    PROVE  Append(<<f>>, h) = <<f, h>>
<1> DEFINE s == Append(<<f>>, h)
           t == <<f, h>>
<1>1. <<f>> \in Seq(S) /\ Len(<<f>>) = 1 /\ <<f>>[1] = f
  OBVIOUS
<1>2. s \in Seq(S) /\ Len(s) = 2 /\ s[1] = f /\ s[2] = h
  BY <1>1
<1>3. t \in Seq(S) /\ Len(t) = 2 /\ t[1] = f /\ t[2] = h
  OBVIOUS
<1> HIDE DEF s, t
<1>4. \A i \in 1..Len(s) : s[i] = t[i]
  BY <1>2, <1>3
<1>5. s = t
  BY <1>2, <1>3, <1>4, SeqEqual
<1> QED
  BY <1>5 DEF s, t

LEMMA NoneOfOne ==
    ASSUME NEW f
    PROVE  SubSeq(<<f>>, 1, 0) = <<>>
  OBVIOUS

\* What the stack operations give, by the number of calls that run.
LEMMA StackOps ==
    ASSUME NEW f \in Outer, NEW g \in Inner, NEW h \in Inner
    PROVE  /\ stack = <<>> => Len(stack) = 0
           /\ stack = <<f>> =>
                 Len(stack) = 1 /\ Top = f /\ Pop = <<>> /\ Append(stack, h) = <<f, h>>
           /\ stack = <<f, g>> =>
                 /\ Len(stack) = 2 /\ stack[1] = f /\ Top = g
                 /\ Pop = <<f>> /\ Append(Pop, h) = <<f, h>>
<1>0. f \in Outer \cup Inner /\ g \in Outer \cup Inner /\ h \in Outer \cup Inner
  OBVIOUS
<1>1. ASSUME stack = <<f>>
      PROVE  Len(stack) = 1 /\ Top = f /\ Pop = <<>> /\ Append(stack, h) = <<f, h>>
  <2>1. Len(stack) = 1 /\ stack[1] = f
    BY <1>1
  <2>2. Append(stack, h) = <<f, h>>
    BY <1>0, <1>1, OneAndOne
  <2> QED
    BY <1>1, <2>1, <2>2, NoneOfOne DEF Top, Pop
<1>2. ASSUME stack = <<f, g>>
      PROVE  /\ Len(stack) = 2 /\ stack[1] = f /\ Top = g
             /\ Pop = <<f>> /\ Append(Pop, h) = <<f, h>>
  <2>1. Len(stack) = 2 /\ stack[1] = f /\ stack[2] = g
    BY <1>2
  <2>2. Pop = <<f>>
    <3>1. SubSeq(<<f, g>>, 1, 1) = <<f>>
      BY <1>0, FirstOfTwo
    <3>2. Len(stack) - 1 = 1
      BY <2>1
    <3> QED
      BY <1>2, <3>1, <3>2 DEF Pop
  <2>3. Append(<<f>>, h) = <<f, h>>
    BY <1>0, OneAndOne
  <2> QED
    BY <2>1, <2>2, <2>3 DEF Top
<1>3. stack = <<>> => Len(stack) = 0
  OBVIOUS
<1> QED
  BY <1>1, <1>2, <1>3

LEMMA OneRunning ==
    ASSUME NEW f \in Outer, stack = <<f>>
    PROVE  Top = f /\ Pop = <<>>
<1>1. Len(stack) = 1 /\ stack[1] = f
  OBVIOUS
<1> QED
  BY <1>1, NoneOfOne DEF Top, Pop

LEMMA Running ==
    /\ Len(<<>>) = 0
    /\ \A f : Len(<<f>>) = 1
    /\ \A f, g : Len(<<f, g>>) = 2
  OBVIOUS

LEMMA FrameTypes ==
    ASSUME NEW p \in Counts \cup {NoCap}
    PROVE  /\ \A op \in {"decode", "prefill"} :
                 Frame(op, p) \in Outer /\ Frame(op, p).op = op /\ Frame(op, p).prev = p
           /\ \A op \in InnerOps :
                 Frame(op, p) \in Inner /\ Frame(op, p).op = op /\ Frame(op, p).prev = p
  BY DEF Frame, Outer, Inner, InnerOps

\* The invariant of a stack without calls, with one and with two.
LEMMA Apart ==
    /\ \A f, g : <<f>> # <<>> /\ <<f, g>> # <<>>
    /\ \A f, g, h : <<f, g>> # <<h>>
    /\ \A f, h : <<f>> = <<h>> => f = h
    /\ \A f, g, h, k : <<f, g>> = <<h, k>> => f = h /\ g = k
  OBVIOUS

LEMMA NoCall ==
    ASSUME NEW t, NEW e
    PROVE  /\ Nested(<<>>) /\ Settled(<<>>, e)
           /\ Undoes(<<>>, t) <=> t = Bound
  BY Apart DEF Nested, Settled, Undoes

LEMMA OneCall ==
    ASSUME NEW f \in Outer, NEW t, NEW e
    PROVE  /\ Nested(<<f>>)
           /\ Settled(<<f>>, e) <=> (f.prev # NoCap => e.decode)
           /\ Undoes(<<f>>, t) <=> Undone(t, f) = Bound /\ t <= Bound
  BY Apart DEF Nested, Settled, Undoes

LEMMA TwoCalls ==
    ASSUME NEW f \in Outer, NEW g \in Inner, NEW t, NEW e
    PROVE  /\ Nested(<<f, g>>)
           /\ Settled(<<f, g>>, e) <=>
                 /\ f.prev # NoCap => e.decode
                 /\ g.op \in {"moe", "moe.iso"} => g.prev = NoCap
                 /\ g.op \in {"moe.sweep", "moe.tune"} => g.prev # NoCap
                 /\ g.op = "moe.apply" /\ g.prev # NoCap => ~e.decode
           /\ Undoes(<<f, g>>, t) <=>
                 /\ Undone(Undone(t, g), f) = Bound
                 /\ Undone(t, g) <= Bound
                 /\ Bounded(g.op, t)
  BY Apart DEF Nested, Settled, Undoes

\* What a new count does to the types: all of them are positive.
LEMMA CountTypes ==
    ASSUME Types
    PROVE  /\ \A want \in Wants : MinOf(MaxOf(1, want), threads) \in Counts
           /\ \A want \in Wants : MinOf(MaxOf(1, want), threads) <= threads
           /\ MaxOf(1, MinOf(MoeFixed, threads)) \in Counts
           /\ MaxOf(1, MinOf(MoeFixed, threads)) <= threads
  BY CapConstants DEF Types, Counts, MinOf, MaxOf

\* What a sweep that was entered with count p tries: its own counts, and those
\* up to twice p, or up to p.
LEMMA TriedTypes ==
    ASSUME NEW p \in Counts
    PROVE  /\ \A n \in IsoCounts(p) : n \in Counts /\ (n <= 2 * p \/ n \in IsoCands)
           /\ \A n \in TuneCounts(p) : n \in Counts /\ n <= p
           /\ p <= Bound =>
                 /\ \A n \in IsoCounts(p) : Bounded("moe.sweep", n)
                 /\ \A n \in TuneCounts(p) : Bounded("moe.tune", n)
  BY CapConstants DEF Counts, IsoCounts, TuneCounts, Bounded

-----------------------------------------------------------------------------
(* Every step keeps the invariant. *)

LEMMA InitCaps == Init => CapInv
  BY NoCall, CapConstants DEF Init, CapInv, Types

\* A forward is entered, capped or not.
LEMMA ForwardKeeps ==
    CapInv /\ (\/ \E decode \in BOOLEAN : ForwardUncapped(decode)
               \/ \E want \in Wants : ForwardCapped(want)) => CapInv'
<1> SUFFICES ASSUME CapInv
             PROVE  (\/ \E decode \in BOOLEAN : ForwardUncapped(decode)
                     \/ \E want \in Wants : ForwardCapped(want)) => CapInv'
  OBVIOUS
<1>1. ASSUME stack = <<>>, ~leaked
      PROVE  threads = Bound
  BY <1>1, NoCall DEF CapInv
<1>2. ASSUME NEW decode \in BOOLEAN, ForwardUncapped(decode)
      PROVE  CapInv'
  <2>1. PICK f \in Outer : f.prev = NoCap /\ stack' = <<f>>
    BY <1>2, FrameTypes DEF ForwardUncapped
  <2>2. Undone(threads, f) = threads
    BY <2>1 DEF Undone
  <2> QED
    BY <1>1, <1>2, <2>1, <2>2, OneCall, CapConstants DEF ForwardUncapped, CapInv, Types, Counts
<1>3. ASSUME NEW want \in Wants, ForwardCapped(want)
      PROVE  CapInv'
  <2>1. PICK f \in Outer : f.prev = threads /\ stack' = <<f>>
    BY <1>3, FrameTypes DEF ForwardCapped, CapInv, Types
  <2>2. Undone(threads', f) = threads
    BY <2>1, CapConstants DEF Undone, CapInv, Types, Counts
  <2>3. threads' \in Counts /\ threads' <= threads
    BY <1>3, CountTypes DEF ForwardCapped, CapInv
  <2>4. env.decode /\ env' = env /\ stack = <<>>
        /\ UNCHANGED <<moeCap, isoDone, raising, leaked>>
    BY <1>3 DEF ForwardCapped
  <2> QED
    BY <1>1, <2>1, <2>2, <2>3, <2>4, OneCall, CapConstants DEF CapInv, Types, Counts
<1> QED
  BY <1>2, <1>3

\* An operator is entered inside a forward.
LEMMA OperatorKeeps == CapInv /\ (Dense \/ DenseForced \/ Moe) => CapInv'
<1> SUFFICES ASSUME CapInv, Dense \/ DenseForced \/ Moe
             PROVE  CapInv'
  OBVIOUS
<1>1. PICK f \in Outer : stack = <<f>>
  BY Running DEF CapInv, Nested, Dense, DenseForced, Moe, InForward
<1>2. /\ f.prev # NoCap => env.decode
      /\ ~leaked => Undone(threads, f) = Bound /\ threads <= Bound
  BY <1>1, OneCall DEF CapInv
<1>3. PICK g \in Inner :
        /\ stack' = <<f, g>>
        /\ g.op \in {"moe", "moe.iso"} => g.prev = NoCap
        /\ g.op \notin {"moe.apply", "moe.sweep", "moe.tune"}
        /\ g.op # "dense" => threads' = threads
        /\ Undone(threads', g) = threads
  <2>1. CASE Dense /\ env.dense = NoCap
    BY <1>1, <2>1, FrameTypes, StackOps DEF Dense, Undone, InnerOps
  <2>2. CASE Dense /\ env.dense # NoCap
    BY <1>1, <2>2, FrameTypes, StackOps, CapConstants DEF Dense, Undone, CapInv, Types, Counts, InnerOps
  <2>3. CASE DenseForced
    BY <1>1, <2>3, FrameTypes, StackOps DEF DenseForced, Undone, InnerOps
  <2>4. CASE Moe
    BY <1>1, <2>4, FrameTypes, StackOps DEF Moe, Undone, InnerOps
  <2> QED
    BY <2>1, <2>2, <2>3, <2>4
<1>4. UNCHANGED <<env, moeCap, isoDone, raising, leaked>> /\ threads' \in Counts
  BY CapConstants DEF Dense, DenseForced, Moe, CapInv, Types
<1> QED
  BY <1>2, <1>3, <1>4, TwoCalls DEF CapInv, Types, Bounded

\* The innermost call is the MoE operator, with nothing to restore of its own.
LEMMA InMoe ==
    ASSUME CapInv, stack # <<>>, Top.op \in {"moe", "moe.iso"}
    PROVE  \E f \in Outer, g \in Inner :
              /\ stack = <<f, g>> /\ Pop = <<f>>
              /\ f.prev # NoCap => env.decode
              /\ ~leaked => Undone(threads, f) = Bound /\ threads <= Bound
<1>1. ASSUME NEW f \in Outer, stack = <<f>>
      PROVE  FALSE
  BY <1>1, OneRunning DEF Outer
<1>2. PICK f \in Outer, g \in Inner : stack = <<f, g>>
  BY <1>1 DEF CapInv, Nested
<1>3. Top = g /\ Pop = <<f>>
  BY <1>2, StackOps
<1>4. g.prev = NoCap /\ Undone(threads, g) = threads
  BY <1>2, <1>3, TwoCalls DEF CapInv, Undone
<1> QED
  BY <1>2, <1>3, <1>4, TwoCalls DEF CapInv

\* The innermost call is a sweep, which has the operator's count to restore.
LEMMA InSweep ==
    ASSUME CapInv, stack # <<>>, Top.op \in {"moe.sweep", "moe.tune"}
    PROVE  \E f \in Outer, g \in Inner :
              /\ stack = <<f, g>> /\ Pop = <<f>> /\ Top = g
              /\ f.prev # NoCap => env.decode
              /\ g.prev \in Counts
              /\ ~leaked => Undone(g.prev, f) = Bound /\ g.prev <= Bound
<1>1. ASSUME NEW f \in Outer, stack = <<f>>
      PROVE  FALSE
  BY <1>1, OneRunning DEF Outer
<1>2. PICK f \in Outer, g \in Inner : stack = <<f, g>>
  BY <1>1 DEF CapInv, Nested
<1>3. Top = g /\ Pop = <<f>>
  BY <1>2, StackOps
<1>4. g.prev \in Counts /\ Undone(threads, g) = g.prev
  BY <1>2, <1>3, TwoCalls DEF CapInv, Undone, Inner
<1> QED
  BY <1>2, <1>3, <1>4, TwoCalls DEF CapInv

\* What follows the question for a cap: the operator goes on as the apply h,
\* under a count that is at most the one it restores.
LEMMA MoeGoesOn ==
    ASSUME CapInv, stack # <<>>, Top.op \in {"moe", "moe.iso"},
           NEW h \in Inner, stack' = Append(Pop, h), h.op = "moe.apply",
           h.prev = NoCap \/ (h.prev = threads /\ ~env.decode),
           Types', env' = env, leaked' = leaked,
           ~leaked' => /\ h.prev = NoCap => threads' = threads
                       /\ threads' <= Bound
                       /\ moeCap' # NoCap => moeCap' <= Bound
    PROVE  CapInv'
<1>1. PICK f \in Outer, g \in Inner :
        /\ stack = <<f, g>> /\ Pop = <<f>>
        /\ f.prev # NoCap => env.decode
        /\ ~leaked => Undone(threads, f) = Bound /\ threads <= Bound
  BY InMoe
<1>2. stack' = <<f, h>>
  BY <1>1, StackOps
<1>3. Settled(stack', env') /\ Nested(stack')
  BY <1>1, <1>2, TwoCalls
<1>4. ASSUME ~leaked'
      PROVE  Undoes(stack', threads')
  <2>1. Undone(threads', h) = threads
    BY <1>4, CapConstants DEF Undone, CapInv, Types, Counts
  <2> QED
    BY <1>1, <1>2, <1>4, <2>1, TwoCalls DEF CapInv, Types, Bounded
<1> QED
  BY <1>3, <1>4 DEF CapInv

\* The apply is entered, uncapped or under the cap.
LEMMA MoeKeeps == CapInv /\ (MoeUncapped \/ MoeCapped) => CapInv'
<1> SUFFICES ASSUME CapInv
             PROVE  MoeUncapped \/ MoeCapped => CapInv'
  OBVIOUS
<1>1. ASSUME stack # <<>>, Top.op \in {"moe", "moe.iso"}, ~leaked
      PROVE  threads <= Bound /\ (moeCap # NoCap => moeCap <= Bound)
  BY <1>1, InMoe DEF CapInv
<1>2. Types /\ threads \in Counts /\ moeCap \in Counts \cup {NoCap}
  BY DEF CapInv, Types
<1>5. CASE MoeUncapped
  <2>1. PICK h \in Inner : h = Frame("moe.apply", NoCap) /\ h.op = "moe.apply" /\ h.prev = NoCap
    BY FrameTypes DEF InnerOps
  <2>2. /\ stack # <<>> /\ Top.op = "moe" /\ stack' = Append(Pop, h)
        /\ UNCHANGED <<env, threads, moeCap, isoDone, raising, leaked>>
    BY <1>5, <2>1 DEF MoeUncapped
  <2>3. Types'
    BY <1>2, <2>2 DEF Types
  <2> QED
    BY <1>1, <2>1, <2>2, <2>3, MoeGoesOn
<1>6. CASE MoeCapped
  <2>1. PICK h \in Inner : h = Frame("moe.apply", threads) /\ h.op = "moe.apply" /\ h.prev = threads
    BY <1>2, FrameTypes DEF InnerOps
  <2>2. /\ stack # <<>> /\ Top.op = "moe" /\ ~env.decode /\ stack' = Append(Pop, h)
        /\ UNCHANGED <<env, isoDone, raising, leaked>>
        /\ moeCap' = threads'
    BY <1>6, <2>1 DEF MoeCapped, MoeCapApplies, DecodeCapActive
  <2>3. threads' \in Counts /\ (~leaked => threads' <= Bound)
    <3>1. CASE moeCap # NoCap
      BY <1>1, <1>2, <1>6, <2>2, <3>1 DEF MoeCapped
    <3>2. CASE moeCap = NoCap
      <4>1. threads' = MaxOf(1, MinOf(MoeFixed, threads))
        BY <1>6, <3>2 DEF MoeCapped
      <4>2. threads' \in Counts /\ threads' <= threads
        BY <1>2, <4>1, CountTypes
      <4> QED
        BY <1>1, <1>2, <2>2, <4>2, CapConstants DEF Counts
    <3> QED
      BY <3>1, <3>2
  <2>4. Types'
    BY <1>2, <2>2, <2>3 DEF Types
  <2> QED
    BY <1>2, <2>1, <2>2, <2>3, <2>4, CapConstants, MoeGoesOn DEF Counts
<1> QED
  BY <1>5, <1>6

\* A sweep begins, as frame h with the current count to restore.
LEMMA SweepStartsKeeps ==
    CapInv /\ (\/ \E n \in IsoCounts(threads) : IsoStarts(n)
               \/ \E n \in TuneCounts(threads) : TuneStarts(n)) => CapInv'
<1> SUFFICES ASSUME CapInv, NEW n,
                    \/ n \in IsoCounts(threads) /\ IsoStarts(n)
                    \/ n \in TuneCounts(threads) /\ TuneStarts(n)
             PROVE  CapInv'
  OBVIOUS
<1>1. Types /\ threads \in Counts
  BY DEF CapInv, Types
<1>2. PICK f \in Outer, g \in Inner :
        /\ stack = <<f, g>> /\ Pop = <<f>>
        /\ f.prev # NoCap => env.decode
        /\ ~leaked => Undone(threads, f) = Bound /\ threads <= Bound
  BY InMoe DEF IsoStarts, TuneStarts
<1>3. PICK h \in Inner :
        /\ h.op \in {"moe.sweep", "moe.tune"} /\ h.prev = threads /\ stack' = <<f, h>>
        /\ threads' = n /\ n \in Counts
        /\ ~leaked => Bounded(h.op, n)
  <2>1. CASE n \in IsoCounts(threads) /\ IsoStarts(n)
    BY <1>1, <1>2, <2>1, FrameTypes, StackOps, TriedTypes DEF IsoStarts, SweepStarts, InnerOps
  <2>2. CASE n \in TuneCounts(threads) /\ TuneStarts(n)
    BY <1>1, <1>2, <2>2, FrameTypes, StackOps, TriedTypes DEF TuneStarts, SweepStarts, InnerOps
  <2> QED
    BY <2>1, <2>2
<1>4. UNCHANGED <<env, moeCap, raising, leaked>> /\ isoDone' \in BOOLEAN
  BY <1>1 DEF IsoStarts, TuneStarts, Types
<1>5. h.prev # NoCap /\ Undone(threads', h) = threads
  BY <1>1, <1>3, CapConstants DEF Counts, Undone
<1>6. Types'
  BY <1>1, <1>3, <1>4 DEF Types
<1> QED
  BY <1>2, <1>3, <1>4, <1>5, <1>6, TwoCalls DEF CapInv

\* The next count of a sweep.
LEMMA SweepNextKeeps == CapInv /\ (\E n \in SweepCounts : IsoNext(n) \/ TuneNext(n)) => CapInv'
<1> SUFFICES ASSUME CapInv, NEW n \in SweepCounts, IsoNext(n) \/ TuneNext(n)
             PROVE  CapInv'
  OBVIOUS
<1>1. /\ stack # <<>> /\ Top.op \in {"moe.sweep", "moe.tune"} /\ threads' = n
      /\ UNCHANGED <<env, moeCap, isoDone, stack, raising, leaked>>
      /\ Top.op = "moe.sweep" => n \in IsoCounts(Top.prev)
      /\ Top.op = "moe.tune" => n \in TuneCounts(Top.prev)
  BY DEF IsoNext, TuneNext, SweepNext, NextCount
<1>2. PICK f \in Outer, g \in Inner :
        /\ stack = <<f, g>> /\ Pop = <<f>> /\ Top = g
        /\ f.prev # NoCap => env.decode
        /\ g.prev \in Counts
        /\ ~leaked => Undone(g.prev, f) = Bound /\ g.prev <= Bound
  BY <1>1, InSweep
<1>3. n \in Counts /\ (~leaked => Bounded(g.op, n))
  BY <1>1, <1>2, TriedTypes
<1>4. Undone(n, g) = g.prev
  BY <1>2, CapConstants DEF Undone, Counts
<1>5. Settled(stack, env) /\ Nested(stack)
  BY DEF CapInv
<1>6. Types'
  BY <1>1, <1>3 DEF CapInv, Types
<1>7. ~leaked => Undoes(stack, n)
  BY <1>2, <1>3, <1>4, TwoCalls
<1> QED
  BY <1>1, <1>5, <1>6, <1>7 DEF CapInv

\* A sweep ends, or fails: the isolation probe's failure is dropped, the other
\* one's leaves the operator.
LEMMA SweepEndsKeeps ==
    CapInv /\ (\/ IsoEnds \/ IsoFails \/ TuneFails
               \/ \E best \in SweepCounts : TuneEnds(best)) => CapInv'
<1> SUFFICES ASSUME CapInv, \/ IsoEnds \/ IsoFails \/ TuneFails
                            \/ \E best \in SweepCounts : TuneEnds(best)
             PROVE  CapInv'
  OBVIOUS
<1>1. stack # <<>> /\ Top.op \in {"moe.sweep", "moe.tune"}
  BY DEF IsoEnds, IsoFails, TuneFails, TuneEnds, SweepEnds, SweepFails
<1>2. PICK f \in Outer, g \in Inner :
        /\ stack = <<f, g>> /\ Pop = <<f>> /\ Top = g
        /\ f.prev # NoCap => env.decode
        /\ g.prev \in Counts
        /\ ~leaked => Undone(g.prev, f) = Bound /\ g.prev <= Bound
  BY <1>1, InSweep
<1>3. /\ env' = env /\ threads' \in Counts
      /\ raising' \in BOOLEAN /\ isoDone' \in BOOLEAN /\ leaked' \in BOOLEAN
      /\ ~leaked' => ~leaked /\ threads' = g.prev
  <2>1. CASE IsoEnds
    BY <1>2, <2>1 DEF IsoEnds, SweepEnds, CapInv, Types
  <2>2. CASE IsoFails
    BY <1>2, <2>2 DEF IsoFails, SweepFails, CapInv, Types
  <2>3. CASE TuneFails
    BY <1>2, <2>3 DEF TuneFails, SweepFails, CapInv, Types
  <2>4. CASE \E best \in SweepCounts : TuneEnds(best)
    BY <1>2, <2>4 DEF TuneEnds, SweepEnds, CapInv, Types
  <2> QED
    BY <2>1, <2>2, <2>3, <2>4
<1>4. /\ moeCap' \in Counts \cup {NoCap}
      /\ ~leaked' => (moeCap' # NoCap => moeCap' <= Bound)
  <2>1. CASE moeCap' = moeCap
    BY <1>3, <2>1 DEF CapInv, Types
  <2>2. ASSUME NEW best \in SweepCounts, TuneEnds(best)
        PROVE  /\ moeCap' \in Counts \cup {NoCap}
               /\ ~leaked' => (moeCap' # NoCap => moeCap' <= Bound)
    <3>1. moeCap' = best /\ best \in TuneCounts(g.prev)
      BY <1>2, <2>2 DEF TuneEnds
    <3>2. best \in Counts /\ best <= g.prev
      BY <1>2, <3>1, TriedTypes
    <3> QED
      BY <1>2, <1>3, <3>1, <3>2, CapConstants DEF Counts
  <2> QED
    BY <2>1, <2>2 DEF IsoEnds, IsoFails, TuneFails, SweepFails
<1>5. Types'
  BY <1>3, <1>4 DEF CapInv, Types
<1>6. CASE stack' = Append(Pop, Frame("moe", NoCap))
  <2>1. PICK h \in Inner : h = Frame("moe", NoCap) /\ h.op = "moe" /\ h.prev = NoCap
    BY FrameTypes DEF InnerOps
  <2>2. stack' = <<f, h>>
    BY <1>2, <1>6, <2>1, StackOps
  <2>3. Undone(threads', h) = threads'
    BY <2>1 DEF Undone
  <2> QED
    BY <1>2, <1>3, <1>4, <1>5, <2>1, <2>2, <2>3, TwoCalls DEF CapInv, Bounded
<1>7. CASE stack' = Pop
  BY <1>2, <1>3, <1>4, <1>5, <1>7, OneCall DEF CapInv
<1> QED
  BY <1>6, <1>7 DEF IsoEnds, IsoFails, TuneFails, TuneEnds

\* A call ends, by returning or by raising.
LEMMA LeaveKeeps == CapInv /\ (Return \/ Raise) => CapInv'
<1> SUFFICES ASSUME CapInv, Return \/ Raise
             PROVE  CapInv'
  OBVIOUS
<1>1. /\ stack # <<>> /\ stack' = Pop /\ threads' = Undone(threads, Top)
      /\ raising' \in BOOLEAN /\ UNCHANGED <<env, moeCap, isoDone, leaked>>
  BY DEF Return, Raise, Leave, Undone
<1>2. ASSUME NEW f \in Outer, stack = <<f>>
      PROVE  CapInv'
  <2>1. Top = f /\ stack' = <<>>
    BY <1>1, <1>2, OneRunning
  <2>2. threads' \in Counts
    BY <1>1, <2>1 DEF Undone, Outer, CapInv, Types
  <2>3. ~leaked => threads' = Bound
    BY <1>1, <1>2, <2>1, OneCall DEF CapInv
  <2> QED
    BY <1>1, <2>1, <2>2, <2>3, NoCall DEF CapInv, Types
<1>3. ASSUME NEW f \in Outer, NEW g \in Inner, stack = <<f, g>>
      PROVE  CapInv'
  <2>1. Top = g /\ stack' = <<f>>
    BY <1>1, <1>3, StackOps
  <2>2. threads' \in Counts
    BY <1>1, <2>1 DEF Undone, Inner, CapInv, Types
  <2>3. /\ f.prev # NoCap => env.decode
        /\ ~leaked => Undone(threads', f) = Bound /\ threads' <= Bound
    BY <1>1, <1>3, <2>1, TwoCalls DEF CapInv
  <2> QED
    BY <1>1, <2>1, <2>2, <2>3, OneCall DEF CapInv, Types
<1> QED
  BY <1>1, <1>2, <1>3 DEF CapInv, Nested

LEMMA CaughtKeeps == CapInv /\ Caught => CapInv'
<1> SUFFICES ASSUME CapInv, Caught
             PROVE  CapInv'
  OBVIOUS
<1>1. stack' = <<>> /\ stack = <<>> /\ raising' = FALSE
      /\ UNCHANGED <<env, threads, moeCap, isoDone, leaked>>
  BY DEF Caught
<1>2. ~leaked => threads' = Bound
  BY <1>1, NoCall DEF CapInv
<1> QED
  BY <1>1, <1>2, NoCall DEF CapInv, Types

LEMMA StutterKeeps == CapInv /\ UNCHANGED vars => CapInv'
  BY DEF vars, CapInv, Types

LEMMA NextKeeps == CapInv /\ [Next]_vars => CapInv'
<1> SUFFICES ASSUME CapInv, [Next]_vars
             PROVE  CapInv'
  OBVIOUS
<1> QED
  BY ForwardKeeps, OperatorKeeps, MoeKeeps, SweepStartsKeeps, SweepNextKeeps, SweepEndsKeeps,
     LeaveKeeps, CaughtKeeps, StutterKeeps DEF Next

-----------------------------------------------------------------------------
(* What the invariant gives. *)

LEMMA CapInvRestores == CapInv => Restored
  BY NoCall DEF CapInv, Restored

LEMMA CapInvIsSound == CapInv => CapsAreSound
<1> SUFFICES ASSUME CapInv
             PROVE  CapsAreSound
  OBVIOUS
<1>1. ASSUME stack = <<>>
      PROVE  Len(stack) = 0
  BY <1>1, Running
<1>2. ASSUME NEW f \in Outer, stack = <<f>>
      PROVE  Len(stack) = 1 /\ (~leaked => threads <= Bound) /\ Top.op # "moe.sweep"
  BY <1>2, Running, OneCall, OneRunning DEF CapInv, Outer
<1>3. ASSUME NEW f \in Outer, NEW g \in Inner, stack = <<f, g>>
      PROVE  /\ Len(stack) = 2
             /\ ~leaked => Bounded(Top.op, threads)
             /\ ~ (stack[1].prev # NoCap /\ stack[2].op = "moe.apply" /\ stack[2].prev # NoCap)
  <2>1. Len(stack) = 2 /\ Top = g /\ stack[1] = f /\ stack[2] = g
    BY <1>3, StackOps
  <2> QED
    BY <1>3, <2>1, TwoCalls DEF CapInv
<1>4. TypeOK
  <2>1. Len(stack) <= 2
    <3>1. CASE stack = <<>>
      BY <1>1, <3>1
    <3>2. CASE \E f \in Outer : stack = <<f>>
      BY <1>2, <3>2
    <3>3. CASE \E f \in Outer, g \in Inner : stack = <<f, g>>
      BY <1>3, <3>3
    <3> QED
      BY <3>1, <3>2, <3>3 DEF CapInv, Nested
  <2> QED
    BY <2>1 DEF TypeOK, CapInv, Types, Counts
<1>5. CapsDoNotCompose
  BY <1>1, <1>2, <1>3 DEF CapsDoNotCompose, CapInv, Nested
<1>6. NeverAboveBound
  BY <1>1, <1>2, <1>3 DEF NeverAboveBound, CapInv, Nested, Bounded
<1> QED
  BY <1>4, <1>5, <1>6 DEF CapsAreSound

\* Loading leaves the caps alone, and serving makes their steps.
LEMMA ServingKeeps == CapInv /\ [ServeNext]_<<vars, weightVars>> => CapInv'
<1>1. [ServeNext]_<<vars, weightVars>> => [Next]_vars
  BY DEF ServeNext, Load, Serve, vars
<1> QED
  BY <1>1, NextKeeps

LEMMA CapInvariant == ServeSpec => []CapInv
<1>1. ServeInit => CapInv
  BY InitCaps DEF ServeInit
<1> QED
  BY <1>1, ServingKeeps, PTL DEF ServeSpec

\* Between forwards the thread count is the one sglang set, whatever the
\* wrappers of the engine nested and wherever a call raised, until a sweep is
\* cut short at another count than the one it was entered with.
THEOREM CountIsRestored == ServeSpec => []Restored
  BY CapInvariant, CapInvRestores, PTL

\* The MoE cap is not in force inside a capped decode, and outside of a dense
\* linear and of the isolation sweep no count exceeds the one sglang set; the
\* sweep stays within twice that, or at a fixed count of its own.
THEOREM CapsNeverCompose == ServeSpec => []CapsAreSound
  BY CapInvariant, CapInvIsSound, PTL


-----------------------------------------------------------------------------
(* The weights. *)

Settings == mode \in Modes /\ loaded \in Checkpoints /\ todo \subseteq Layers /\ DOMAIN form = Layers

\* What a processed layer has become.
ExpertDone(l) ==
    CASE ExpertBranch = "bf16" -> form[l] = loaded[l]
      [] ExpertBranch = "mxfp4" ->
            /\ form[l].code = "fp4" /\ form[l].order = "vnni" /\ form[l].kind = "byte"
            /\ form[l].exp = ScaleByte(loaded[l].kind, loaded[l].exp) - 127
      [] OTHER ->
            /\ form[l].code = "fp8" /\ form[l].order = "vnni" /\ form[l].kind = "f32"
            /\ form[l].exp = loaded[l].exp

RowsDone(l) == form[l].code = "bf16" /\ form[l].order = "row" /\ form[l].exp = loaded[l].exp

ProjectionDone(l) == form[l].order = "vnni" /\ form[l].exp = loaded[l].exp

GateDone(l) ==
    /\ form[l].exp = loaded[l].exp /\ form[l].code = loaded[l].code
    /\ form[l].order = IF loaded[l].code = "f32" THEN "transposed" ELSE "vnni"
    /\ mode.realRouter => form[l].kind = "real"

FormsDone ==
    /\ \A l \in todo : form[l] = loaded[l]
    /\ \A l \in Experts \ todo : ExpertDone(l)
    /\ \A l \in RowMajor \ (todo \cup broken) : RowsDone(l)
    /\ \A l \in Projections \ todo : ProjectionDone(l)
    /\ \A l \in Gates \ todo : GateDone(l)
    /\ broken \subseteq RowMajor

\* The expert probe keeps a copy of what was loaded, and its verdict stays
\* true of the layer it was given to.
MoeAgrees(l) == ReadMoeRef(loaded[l]) = ReadExpert(form[l]) /\ ReadExpert(form[l]) # Garbled

MoeProbeOK ==
    /\ moeRef = NoRef \/ (/\ moeRef.layer \in Experts \ todo /\ ExpertBranch = "mxfp4"
                          /\ moeRef.tensor = loaded[moeRef.layer])
    /\ moeProbe = NoVerdict \/ (/\ moeProbe.layer \in Experts \ todo /\ ExpertBranch = "mxfp4"
                                /\ moeProbe.verdict = IF MoeAgrees(moeProbe.layer) THEN "PASS" ELSE "FAIL")

\* So does the probe of the projections, whose copy is never replaced.
Fp8RefOK(r) ==
    /\ r.layer \in (RowMajor \cup Projections) \ todo
    /\ r.tensor = loaded[r.layer] /\ loaded[r.layer].code \in Fp8Codes

Fp8ProbeOK ==
    /\ fp8Ref = NoRef \/ Fp8RefOK(fp8Ref)
    /\ fp8Probe = NoVerdict
          \/ (/\ fp8Probe.layer \in Projections \ todo /\ fp8Ref # NoRef
              /\ fp8Probe.verdict \in {"PASS", "FAIL"}
              /\ fp8Probe.verdict = "FAIL" =>
                    fp8Probe.layer # fp8Ref.layer \/ loaded[fp8Probe.layer].code = "fp8 bytes")

WeightInv == Settings /\ FormsDone /\ MoeProbeOK /\ Fp8ProbeOK

\* What the constants say of a layer.
LEMMA LayerKinds ==
    /\ NoLayer \notin Layers
    /\ \A l \in Experts : l \notin RowMajor /\ l \notin Projections /\ l \notin Gates
    /\ \A l \in RowMajor : l \notin Projections /\ l \notin Gates
    /\ \A l \in Projections : l \notin Gates
    /\ \A l \in Layers : l \in Experts \/ l \in RowMajor \/ l \in Projections \/ l \in Gates
  BY WeightAssumption DEF Layers

LEMMA LoadedIs ==
    ASSUME Settings
    PROVE  /\ mode \in TypeMode
           /\ \A l \in Experts : loaded[l] \in ExpertTensors
           /\ \A l \in RowMajor \cup Projections : loaded[l] \in LinearTensors
           /\ \A l \in Gates : loaded[l] \in GateTensors
  BY WeightAssumption DEF Settings

LEMMA InitWeights == LoadInit => WeightInv
<1> SUFFICES ASSUME LoadInit PROVE WeightInv
  OBVIOUS
<1>1. Settings
  BY WeightAssumption DEF LoadInit, Settings
<1>2. FormsDone
  BY DEF LoadInit, FormsDone, Layers
<1> QED
  BY <1>1, <1>2 DEF LoadInit, WeightInv, MoeProbeOK, Fp8ProbeOK

\* Processing a layer changes the form of that layer only.
LEMMA LoadTouchesOne ==
    ASSUME Settings, NEW l \in todo, NEW t, form' = [form EXCEPT ![l] = t]
    PROVE  DOMAIN form' = Layers /\ form'[l] = t /\ \A k \in Layers \ {l} : form'[k] = form[k]
  BY DEF Settings

\* What a step that processes layer l keeps of the other layers.
LEMMA OthersKeep ==
    ASSUME WeightInv, NEW l \in todo, todo' = todo \ {l}, UNCHANGED <<mode, loaded>>,
           broken' = broken \/ (l \in RowMajor /\ broken' = broken \cup {l}),
           DOMAIN form' = Layers, \A k \in Layers \ {l} : form'[k] = form[k]
    PROVE  /\ Settings'
           /\ \A k \in todo' : form'[k] = loaded'[k]
           /\ \A k \in Experts \ (todo' \cup {l}) : ExpertDone(k)'
           /\ \A k \in RowMajor \ (todo' \cup broken' \cup {l}) : RowsDone(k)'
           /\ \A k \in Projections \ (todo' \cup {l}) : ProjectionDone(k)'
           /\ \A k \in Gates \ (todo' \cup {l}) : GateDone(k)'
           /\ broken' \subseteq RowMajor
<1> USE DEF WeightInv
<1>1. Settings' /\ broken' \subseteq RowMajor
  BY DEF Settings, FormsDone
<1>2. \A k \in todo' : form'[k] = loaded'[k]
  BY DEF Settings, FormsDone
<1>3. \A k \in Experts \ (todo' \cup {l}) : ExpertDone(k)'
  BY DEF FormsDone, ExpertDone, ExpertBranch, Layers
<1>4. \A k \in RowMajor \ (todo' \cup broken' \cup {l}) : RowsDone(k)'
  BY DEF FormsDone, RowsDone, Layers
<1>5. \A k \in Projections \ (todo' \cup {l}) : ProjectionDone(k)'
  BY DEF FormsDone, ProjectionDone, Layers
<1>6. \A k \in Gates \ (todo' \cup {l}) : GateDone(k)'
  BY DEF FormsDone, GateDone, Layers
<1> QED
  BY <1>1, <1>2, <1>3, <1>4, <1>5, <1>6

LEMMA PackedExpert ==
    ASSUME NEW t
    PROVE  /\ PackExpert(t).code = "fp4" /\ PackExpert(t).order = "vnni" /\ PackExpert(t).kind = "byte"
           /\ PackExpert(t).exp = ScaleByte(t.kind, t.exp) - 127
  BY DEF PackExpert, Packed

LEMMA CastIs ==
    ASSUME NEW t
    PROVE  /\ CastExpert(t).code = "fp8" /\ CastExpert(t).order = "vnni" /\ CastExpert(t).kind = "f32"
           /\ CastExpert(t).exp = t.exp
  BY DEF CastExpert

\* The verdict given to a processed layer stands while its form does.
LEMMA VerdictStands ==
    ASSUME NEW l, UNCHANGED <<mode, loaded>>, form'[l] = form[l]
    PROVE  MoeAgrees(l)' <=> MoeAgrees(l)
  BY DEF MoeAgrees, ReadMoeRef, ReadExpert, ExpertBranch

LEMMA LoadExpertKeeps ==
    ASSUME WeightInv, NEW l, LoadExpert(l)
    PROVE  WeightInv'
<1> DEFINE t == CASE ExpertBranch = "bf16" -> form[l]
                  [] ExpertBranch = "mxfp4" -> PackExpert(form[l]) [] OTHER -> CastExpert(form[l])
<1>1. l \in todo /\ l \in Experts /\ todo' = todo \ {l} /\ Settings /\ l \in Layers
  BY DEF LoadExpert, WeightInv, Layers
<1>2. form' = [form EXCEPT ![l] = t]
  BY DEF LoadExpert
<1>3. UNCHANGED <<mode, loaded, broken, store, moeProbe, fp8Ref, fp8Probe>>
  BY DEF LoadExpert
<1> HIDE DEF t
<1>4. DOMAIN form' = Layers /\ form'[l] = t /\ \A k \in Layers \ {l} : form'[k] = form[k]
  BY <1>1, <1>2, LoadTouchesOne
<1>5. form[l] = loaded[l]
  BY <1>1 DEF WeightInv, FormsDone
<1>6. ExpertDone(l)'
  BY <1>3, <1>4, <1>5, PackedExpert, CastIs DEF t, ExpertDone, ExpertBranch
<1>7. Settings' /\ FormsDone'
  BY <1>1, <1>3, <1>4, <1>6, OthersKeep, LayerKinds DEF FormsDone
<1>8. MoeProbeOK'
  <2>1. moeRef' = NoRef \/ (/\ moeRef'.layer \in Experts \ todo' /\ (ExpertBranch = "mxfp4")'
                            /\ moeRef'.tensor = loaded'[moeRef'.layer])
    <3>1. CASE moeRef' = moeRef
      BY <1>1, <1>3, <3>1 DEF WeightInv, MoeProbeOK, ExpertBranch
    <3>2. CASE moeRef' # moeRef
      <4>1. ExpertBranch = "mxfp4" /\ moeRef' = [layer |-> l, tensor |-> form[l]]
        BY <3>2 DEF LoadExpert, Stash
      <4> QED
        BY <4>1, <1>1, <1>3, <1>5 DEF ExpertBranch
    <3> QED
      BY <3>1, <3>2
  <2>2. CASE moeProbe = NoVerdict
    BY <2>1, <2>2, <1>3 DEF MoeProbeOK
  <2>3. CASE moeProbe # NoVerdict
    <3>1. /\ moeProbe.layer \in Experts \ todo /\ ExpertBranch = "mxfp4"
          /\ moeProbe.verdict = IF MoeAgrees(moeProbe.layer) THEN "PASS" ELSE "FAIL"
      BY <2>3 DEF WeightInv, MoeProbeOK
    <3>2. PICK k \in Experts \ todo : k = moeProbe.layer
      BY <3>1
    <3>3. form'[k] = form[k]
      BY <1>1, <1>4 DEF Layers
    <3>4. MoeAgrees(k)' <=> MoeAgrees(k)
      BY <1>3, <3>3, VerdictStands
    <3>5. moeProbe'.layer = k /\ moeProbe'.verdict = moeProbe.verdict
      BY <1>3, <3>2
    <3>6. moeProbe'.verdict = IF MoeAgrees(k)' THEN "PASS" ELSE "FAIL"
      BY <3>1, <3>2, <3>4, <3>5
    <3>7. MoeAgrees(moeProbe.layer)' <=> MoeAgrees(k)'
      BY <3>5 DEF MoeAgrees
    <3>8. (ExpertBranch = "mxfp4")' /\ k \in Experts \ todo'
      BY <3>1, <3>2, <1>1, <1>3 DEF ExpertBranch
    <3> QED
      BY <2>1, <3>5, <3>6, <3>7, <3>8 DEF MoeProbeOK
  <2> QED
    BY <2>2, <2>3
<1>9. Fp8ProbeOK'
  BY <1>1, <1>3 DEF WeightInv, Fp8ProbeOK, Fp8RefOK
<1> QED
  BY <1>7, <1>8, <1>9 DEF WeightInv

\* The expert probe does not look at other layers.
LEMMA MoeProbeKeeps ==
    ASSUME WeightInv, NEW l \in todo, l \notin Experts, todo' = todo \ {l},
           UNCHANGED <<mode, loaded, moeRef, moeProbe>>,
           \A k \in Layers \ {l} : form'[k] = form[k]
    PROVE  MoeProbeOK'
<1>1. ExpertBranch' = ExpertBranch
  BY DEF ExpertBranch
<1>2. moeRef' = NoRef \/ (/\ moeRef'.layer \in Experts \ todo' /\ (ExpertBranch = "mxfp4")'
                          /\ moeRef'.tensor = loaded'[moeRef'.layer])
  BY <1>1 DEF WeightInv, MoeProbeOK
<1>3. CASE moeProbe = NoVerdict
  BY <1>2, <1>3 DEF MoeProbeOK
<1>4. ASSUME moeProbe # NoVerdict
      PROVE  MoeProbeOK'
  <2>1. /\ moeProbe.layer \in Experts \ todo /\ ExpertBranch = "mxfp4"
        /\ moeProbe.verdict = IF MoeAgrees(moeProbe.layer) THEN "PASS" ELSE "FAIL"
    BY <1>4 DEF WeightInv, MoeProbeOK
  <2>2. PICK k \in Experts \ todo : k = moeProbe.layer
    BY <2>1
  <2>3. MoeAgrees(k)' <=> MoeAgrees(k)
    <3>1. form'[k] = form[k]
      BY <2>2 DEF Layers
    <3> QED
      BY <3>1, VerdictStands
  <2>4. MoeAgrees(moeProbe.layer)' <=> MoeAgrees(k)'
    BY <2>2 DEF MoeAgrees
  <2> QED
    BY <1>1, <1>2, <2>1, <2>2, <2>3, <2>4 DEF MoeProbeOK
<1> QED
  BY <1>3, <1>4

LEMMA LoadGateKeeps ==
    ASSUME WeightInv, NEW l, LoadGate(l)
    PROVE  WeightInv'
<1>1. /\ l \in todo /\ l \in Gates /\ todo' = todo \ {l} /\ Settings /\ l \in Layers
      /\ form' = [form EXCEPT ![l] = GateForm(form[l])]
      /\ UNCHANGED <<mode, loaded, broken, store, moeRef, moeProbe, fp8Ref, fp8Probe>>
  BY DEF LoadGate, WeightInv, Layers
<1>2. /\ DOMAIN form' = Layers /\ form'[l] = GateForm(form[l])
      /\ \A k \in Layers \ {l} : form'[k] = form[k]
  BY <1>1, LoadTouchesOne
<1>3. form[l] = loaded[l] /\ loaded[l] \in GateTensors
  BY <1>1, LoadedIs DEF WeightInv, FormsDone
<1>4. GateDone(l)'
  BY <1>1, <1>2, <1>3 DEF GateDone, GateForm, PackGate, Inject, GateTensors
<1>5. Settings' /\ FormsDone'
  BY <1>1, <1>2, <1>4, OthersKeep, LayerKinds DEF FormsDone
<1>6. MoeProbeOK'
  BY <1>1, <1>2, LayerKinds, MoeProbeKeeps
<1>7. Fp8ProbeOK'
  BY <1>1 DEF WeightInv, Fp8ProbeOK, Fp8RefOK
<1> QED
  BY <1>5, <1>6, <1>7 DEF WeightInv

LEMMA LoadLinearKeeps ==
    ASSUME WeightInv, NEW l, NEW raises \in BOOLEAN, LoadLinear(l, raises)
    PROVE  WeightInv'
<1> DEFINE passed == ~KeepsRowMajor(l) \/ raises
           t == IF passed THEN [form[l] EXCEPT !.order = "vnni"] ELSE Rows(form[l])
<1>1. /\ l \in todo /\ l \in RowMajor \cup Projections /\ todo' = todo \ {l} /\ Settings /\ l \in Layers
      /\ form' = [form EXCEPT ![l] = t] /\ (raises => l \in RowMajor)
      /\ broken' = IF raises THEN broken \cup {l} ELSE broken
      /\ UNCHANGED <<mode, loaded, moeRef, moeProbe, fp8Probe>>
  BY DEF LoadLinear, WeightInv, Layers
<1>2. fp8Ref' = fp8Ref \/ (/\ fp8Ref = NoRef /\ fp8Ref' = [layer |-> l, tensor |-> form[l]]
                           /\ form[l].code \in Fp8Codes)
  BY DEF LoadLinear
<1>3. form[l] = loaded[l] /\ loaded[l] \in LinearTensors
  BY <1>1, LoadedIs DEF WeightInv, FormsDone
<1>4. /\ passed => t.order = "vnni"
      /\ ~passed => t.code = "bf16" /\ t.order = "row"
      /\ t.exp = loaded[l].exp
  BY <1>3 DEF Rows, LinearTensors
<1>5. passed <=> l \notin RowMajor \/ raises
  BY DEF KeepsRowMajor
<1> HIDE DEF t, passed
<1>6. DOMAIN form' = Layers /\ form'[l] = t /\ \A k \in Layers \ {l} : form'[k] = form[k]
  BY <1>1, LoadTouchesOne
<1>7. l \in Projections => ProjectionDone(l)'
  BY <1>1, <1>4, <1>5, <1>6, LayerKinds DEF ProjectionDone
<1>8. l \in RowMajor \ broken' => RowsDone(l)'
  BY <1>1, <1>4, <1>5, <1>6 DEF RowsDone
<1>9. l \notin Experts /\ l \notin Gates
  BY <1>1, LayerKinds
<1>10. Settings' /\ FormsDone'
  BY <1>1, <1>6, <1>7, <1>8, <1>9, OthersKeep DEF FormsDone
<1>11. MoeProbeOK'
  BY <1>1, <1>6, <1>9, MoeProbeKeeps
<1>12. Fp8ProbeOK'
  <2>1. fp8Ref' = NoRef \/ Fp8RefOK(fp8Ref)'
    <3>1. CASE fp8Ref' = fp8Ref
      BY <1>1, <3>1 DEF WeightInv, Fp8ProbeOK, Fp8RefOK
    <3>2. CASE fp8Ref' # fp8Ref
      BY <1>1, <1>2, <1>3, <3>2 DEF Fp8RefOK
    <3> QED
      BY <3>1, <3>2
  <2>2. fp8Probe # NoVerdict => fp8Ref' = fp8Ref
    BY <1>2 DEF WeightInv, Fp8ProbeOK
  <2> QED
    BY <1>1, <2>1, <2>2 DEF WeightInv, Fp8ProbeOK
<1> QED
  BY <1>10, <1>11, <1>12 DEF WeightInv

\* Calls leave the weights as they are.
LEMMA CallsKeepForms ==
    ASSUME WeightInv, UNCHANGED <<mode, loaded, form, todo, broken>>
    PROVE  /\ Settings' /\ FormsDone' /\ ExpertBranch' = ExpertBranch
           /\ \A l : MoeAgrees(l)' <=> MoeAgrees(l)
<1>1. Settings' /\ ExpertBranch' = ExpertBranch
  BY DEF WeightInv, Settings, ExpertBranch
<1>2. \A k \in todo' : form'[k] = loaded'[k]
  BY DEF WeightInv, FormsDone
<1>3. \A k \in Experts \ todo' : ExpertDone(k)'
  BY <1>1 DEF WeightInv, FormsDone, ExpertDone
<1>4. /\ \A k \in RowMajor \ (todo' \cup broken') : RowsDone(k)'
      /\ \A k \in Projections \ todo' : ProjectionDone(k)'
      /\ \A k \in Gates \ todo' : GateDone(k)'
      /\ broken' \subseteq RowMajor
  BY DEF WeightInv, FormsDone, RowsDone, ProjectionDone, GateDone
<1>5. ASSUME NEW l PROVE MoeAgrees(l)' <=> MoeAgrees(l)
  BY VerdictStands
<1> QED
  BY <1>1, <1>2, <1>3, <1>4, <1>5 DEF FormsDone

LEMMA RunExpertKeeps ==
    ASSUME WeightInv, NEW l, RunExpert(l)
    PROVE  WeightInv'
<1>1. /\ l \in Experts
      /\ UNCHANGED <<mode, loaded, form, todo, broken, store, fp8Ref, fp8Probe>>
  BY DEF RunExpert
<1>2. Settings' /\ FormsDone' /\ ExpertBranch' = ExpertBranch
  BY <1>1, CallsKeepForms
<1>3. Fp8ProbeOK'
  BY <1>1 DEF WeightInv, Fp8ProbeOK, Fp8RefOK
<1>4. MoeProbeOK'
  <2>1. CASE moeRef.layer = l
    <3>1. /\ moeRef' = NoRef /\ moeProbe'.layer = l
          /\ moeProbe'.verdict = IF ReadMoeRef(moeRef.tensor) = ReadExpert(form[l]) /\ ReadExpert(form[l]) # Garbled
                                 THEN "PASS" ELSE "FAIL"
      BY <2>1 DEF RunExpert
    <3>2. moeRef # NoRef
      BY <2>1, <1>1, LayerKinds DEF NoRef, Layers
    <3>3. l \in Experts \ todo /\ ExpertBranch = "mxfp4" /\ moeRef.tensor = loaded[l]
      BY <2>1, <3>2 DEF WeightInv, MoeProbeOK
    <3>4. moeProbe'.verdict = IF MoeAgrees(l) THEN "PASS" ELSE "FAIL"
      BY <3>1, <3>3 DEF MoeAgrees
    <3>5. MoeAgrees(moeProbe.layer)' <=> MoeAgrees(l)
      <4>1. MoeAgrees(l)' <=> MoeAgrees(l)
        BY <1>1, VerdictStands
      <4>2. MoeAgrees(moeProbe.layer)' <=> MoeAgrees(l)'
        BY <3>1 DEF MoeAgrees
      <4> QED
        BY <4>1, <4>2
    <3> QED
      BY <1>1, <1>2, <3>1, <3>3, <3>4, <3>5 DEF MoeProbeOK
  <2>2. CASE moeRef.layer # l
    <3>1. UNCHANGED <<moeRef, moeProbe>>
      BY <2>2 DEF RunExpert
    <3>2. MoeAgrees(moeProbe.layer)' <=> MoeAgrees(moeProbe.layer)
      BY <1>1, <3>1 DEF MoeAgrees, ReadMoeRef, ReadExpert, ExpertBranch
    <3> QED
      BY <1>1, <1>2, <3>1, <3>2 DEF WeightInv, MoeProbeOK
  <2> QED
    BY <2>1, <2>2
<1> QED
  BY <1>2, <1>3, <1>4 DEF WeightInv

\* A projection in use reads what was loaded, by its copy or packed.
LEMMA ProjectionReads ==
    ASSUME WeightInv, NEW l \in Projections \ todo
    PROVE  ReadLinear(l) = loaded[l].exp
  BY LayerKinds DEF WeightInv, FormsDone, ProjectionDone, ReadLinear

LEMMA RunLinearKeeps ==
    ASSUME WeightInv, NEW l, l \notin todo, RunLinear(l)
    PROVE  WeightInv'
<1>1. /\ l \in Projections \ todo /\ loaded[l].code \in Fp8Codes
      /\ UNCHANGED <<mode, loaded, form, todo, broken, store, moeRef, moeProbe, fp8Ref>>
  BY DEF RunLinear
<1>2. Settings' /\ FormsDone' /\ ExpertBranch' = ExpertBranch
  BY <1>1, CallsKeepForms
<1>3. MoeProbeOK'
  <2>1. MoeAgrees(moeProbe.layer)' <=> MoeAgrees(moeProbe.layer)
    BY <1>1 DEF MoeAgrees, ReadMoeRef, ReadExpert, ExpertBranch
  <2> QED
    BY <1>1, <1>2, <2>1 DEF WeightInv, MoeProbeOK
<1>4. Fp8ProbeOK'
  <2>1. CASE ~ProbeRuns(l)
    BY <1>1, <2>1 DEF RunLinear, WeightInv, Fp8ProbeOK, Fp8RefOK
  <2>2. CASE ProbeRuns(l)
    <3>1. /\ fp8Probe'.layer = l /\ fp8Ref # NoRef
          /\ fp8Probe'.verdict =
                IF fp8Ref.layer = l /\ ReadFp8Ref(fp8Ref.tensor) = ReadLinear(l) /\ ReadLinear(l) # Garbled
                THEN "PASS" ELSE "FAIL"
      BY <2>2 DEF RunLinear, ProbeRuns
    <3>2. Fp8RefOK(fp8Ref)
      BY <3>1 DEF WeightInv, Fp8ProbeOK
    <3>3. ReadLinear(l) = loaded[l].exp /\ loaded[l].exp # Garbled
      <4>1. loaded[l] \in LinearTensors
        BY <1>1, LoadedIs DEF WeightInv
      <4>2. loaded[l].exp \in -127..127
        BY <4>1 DEF LinearTensors, Scale
      <4> QED
        BY <1>1, <4>2, ProjectionReads DEF Garbled
    <3>4. fp8Probe'.verdict = "FAIL" => l # fp8Ref.layer \/ loaded[l].code = "fp8 bytes"
      BY <1>1, <3>1, <3>2, <3>3 DEF Fp8RefOK, ReadFp8Ref, Fp8Codes
    <3>5. Fp8RefOK(fp8Ref)'
      BY <1>1, <3>2 DEF Fp8RefOK
    <3> QED
      BY <1>1, <3>1, <3>4, <3>5 DEF Fp8ProbeOK
  <2> QED
    BY <2>1, <2>2
<1> QED
  BY <1>2, <1>3, <1>4 DEF WeightInv

\* Weights are loaded before the first forward, and a forward at most runs an
\* expert or a projection that is loaded.
LEMMA ServingKeepsWeights == WeightInv /\ [ServeNext]_<<vars, weightVars>> => WeightInv'
<1> SUFFICES ASSUME WeightInv, [ServeNext]_<<vars, weightVars>> PROVE WeightInv'
  OBVIOUS
<1>1. ASSUME UNCHANGED weightVars PROVE WeightInv'
  <2>1. UNCHANGED <<mode, loaded, form, todo, broken, moeRef, moeProbe, fp8Ref, fp8Probe>>
    BY <1>1 DEF weightVars
  <2>2. Settings' /\ FormsDone' /\ ExpertBranch' = ExpertBranch
    BY <2>1, CallsKeepForms
  <2>3. MoeAgrees(moeProbe.layer)' <=> MoeAgrees(moeProbe.layer)
    BY <2>1 DEF MoeAgrees, ReadMoeRef, ReadExpert, ExpertBranch
  <2>4. MoeProbeOK' /\ Fp8ProbeOK'
    BY <2>1, <2>2, <2>3 DEF WeightInv, MoeProbeOK, Fp8ProbeOK, Fp8RefOK
  <2> QED
    BY <2>2, <2>4 DEF WeightInv
<1>2. CASE Load
  BY <1>2, LoadExpertKeeps, LoadGateKeeps, LoadLinearKeeps DEF Load, LoadNext
<1>3. CASE Serve
  <2>1. todo = {}
    BY <1>3 DEF Serve
  <2>2. Effects
    BY <1>3 DEF Serve
  <2>3. (\E l : RunExpert(l)) \/ (\E l : RunLinear(l)) \/ UNCHANGED weightVars
    BY <2>2 DEF Effects
  <2> QED
    BY <1>1, <2>1, <2>3, RunExpertKeeps, RunLinearKeeps
<1> QED
  BY <1>1, <1>2, <1>3 DEF ServeNext

LEMMA WeightInvariant == ServeSpec => []WeightInv
<1>1. ServeInit => WeightInv
  BY InitWeights DEF ServeInit
<1> QED
  BY <1>1, ServingKeepsWeights, PTL DEF ServeSpec

\* What the expert kernels read of a processed layer.
LEMMA ExpertReads ==
    ASSUME WeightInv, NEW l \in Experts \ todo
    PROVE  /\ ExpertBranch # "mxfp4" => ReadExpert(form[l]) = loaded[l].exp
           /\ ExpertBranch = "mxfp4" =>
                 ReadExpert(form[l]) = IF loaded[l].kind = "half" /\ loaded[l].exp < -126
                                       THEN -126 ELSE loaded[l].exp
<1>1. loaded[l] \in ExpertTensors
  BY LoadedIs DEF WeightInv
<1>2. ExpertDone(l)
  BY DEF WeightInv, FormsDone
<1>3. CASE ExpertBranch = "bf16"
  BY <1>1, <1>2, <1>3 DEF ExpertDone, ReadExpert, ExpertTensors
<1>4. CASE ExpertBranch = "mxfp4"
  <2>1. ReadExpert(form[l]) = ScaleByte(loaded[l].kind, loaded[l].exp) - 127
    BY <1>2, <1>4 DEF ExpertDone, ReadExpert
  <2>2. ScaleByte(loaded[l].kind, loaded[l].exp) - 127 =
           IF loaded[l].kind = "half" /\ loaded[l].exp < -126 THEN -126 ELSE loaded[l].exp
    BY <1>1 DEF ScaleByte, ExpertTensors, Scale
  <2> QED
    BY <1>4, <2>1, <2>2
<1>5. CASE ExpertBranch = "native"
  BY <1>1, <1>2, <1>5 DEF ExpertDone, ReadExpert
<1> QED
  BY <1>3, <1>4, <1>5 DEF ExpertBranch

LEMMA WeightInvKeeps == WeightInv => WeightsKept
<1> SUFFICES ASSUME WeightInv PROVE WeightsKept
  OBVIOUS
<1>1. \A l \in Experts \ todo :
         ReadExpert(form[l]) =
            IF ExpertBranch = "mxfp4" /\ loaded[l].kind = "half" /\ loaded[l].exp < -126
            THEN -126 ELSE loaded[l].exp
  BY ExpertReads
<1>2. \A l \in (RowMajor \cup Projections) \ (todo \cup broken) : ReadLinear(l) = loaded[l].exp
  <2>1. \A l \in RowMajor \ (todo \cup broken) : ReadLinear(l) = loaded[l].exp
    BY DEF WeightInv, FormsDone, RowsDone, ReadLinear
  <2> QED
    BY <2>1, ProjectionReads
<1>3. ASSUME NEW l \in Gates \ todo
      PROVE  /\ (loaded[l].code = "f32" /\ mode.square) \/ ReadGate(l) = loaded[l].exp
             /\ mode.realRouter => form[l].kind = "real"
  BY <1>3 DEF WeightInv, FormsDone, GateDone, ReadGate
<1> QED
  BY <1>1, <1>2, <1>3 DEF WeightsKept

LEMMA WeightInvTells == WeightInv => ProbesTellTheTruth
<1> SUFFICES ASSUME WeightInv PROVE ProbesTellTheTruth
  OBVIOUS
<1>1. ASSUME moeProbe # NoVerdict
      PROVE  /\ moeProbe.verdict = "PASS" => ReadExpert(form[moeProbe.layer]) = loaded[moeProbe.layer].exp
             /\ moeProbe.verdict = "FAIL" =>
                   loaded[moeProbe.layer].kind \in {"u8", "i8"} \/ loaded[moeProbe.layer].exp < -126
  <2>1. PICK l \in Experts \ todo :
           /\ l = moeProbe.layer /\ ExpertBranch = "mxfp4"
           /\ moeProbe.verdict = IF MoeAgrees(l) THEN "PASS" ELSE "FAIL"
    BY <1>1 DEF WeightInv, MoeProbeOK
  <2>2. loaded[l] \in ExpertTensors
    BY LoadedIs DEF WeightInv
  <2>3. MoeAgrees(l) => ReadExpert(form[l]) = loaded[l].exp
    BY DEF MoeAgrees, ReadMoeRef
  <2>4. ~MoeAgrees(l) => loaded[l].kind \in {"u8", "i8"} \/ loaded[l].exp < -126
    <3> SUFFICES ASSUME loaded[l].kind \notin {"u8", "i8"}, ~(loaded[l].exp < -126) PROVE MoeAgrees(l)
      OBVIOUS
    <3>1. ReadMoeRef(loaded[l]) = loaded[l].exp
      BY <2>2 DEF ReadMoeRef, ExpertTensors
    <3>2. ReadExpert(form[l]) = loaded[l].exp
      BY <2>1, ExpertReads
    <3>3. loaded[l].exp # Garbled
      BY <2>2 DEF ExpertTensors, Scale, Garbled
    <3> QED
      BY <3>1, <3>2, <3>3 DEF MoeAgrees
  <2> QED
    BY <2>1, <2>3, <2>4
<1>2. ASSUME fp8Probe # NoVerdict
      PROVE  /\ fp8Probe.verdict = "PASS" => ReadLinear(fp8Probe.layer) = loaded[fp8Probe.layer].exp
             /\ fp8Probe.verdict = "FAIL" =>
                   fp8Probe.layer # fp8Ref.layer \/ loaded[fp8Probe.layer].code = "fp8 bytes"
  BY <1>2, ProjectionReads DEF WeightInv, Fp8ProbeOK
<1>3. moeProbe = NoVerdict => moeProbe.verdict = "none"
  BY DEF NoVerdict
<1>4. fp8Probe = NoVerdict => fp8Probe.verdict = "none"
  BY DEF NoVerdict
<1> QED
  BY <1>1, <1>2, <1>3, <1>4 DEF ProbesTellTheTruth

\* Once a layer is processed, its consumer reads the weights that were loaded,
\* whatever the mode and the checkpoint, in whatever order the layers were
\* processed and while the engine serves.
THEOREM WeightsAreKept == ServeSpec => []WeightsKept
  BY WeightInvariant, WeightInvKeeps, PTL

\* A probe that passed a layer passed one that reads what was loaded; one that
\* failed a layer had a reason, or a named flaw of its own.
THEOREM VerdictsAreTrue == ServeSpec => []ProbesTellTheTruth
  BY WeightInvariant, WeightInvTells, PTL

-----------------------------------------------------------------------------

(* Files of the capture hooks. *)

\* What a rank can have left to write of a forward's files.
Todos == {<<>>, <<"qfinal">>, <<"attnout", "qfinal">>, <<"moetopk", "attnout", "qfinal">>,
          <<"main", "moetopk", "attnout", "qfinal">>}

\* The files still in such a list.
Left(t) == {t[i] : i \in 1..Len(t)}

\* Rank q has file f open, or has written it and not yet moved it.
AtWork(q, f) == rank[q].todo # <<>> /\ Head(rank[q].todo) = f /\ rank[q].step # "open"

\* Ranks write only behind a forward; one at work on a file knows its name.
\* No handle is "gone": a file is never moved away from its final name.
RankOK ==
    /\ opt.ranks \in {1, 2}
    /\ rank \in [1..2 -> [todo : Todos, step : {"open", "write", "replace"},
                          h : {"none", "tmp", "out"}]]
    /\ \A r \in 1..2 : /\ rank[r].step # "open" => rank[r].todo # <<>> /\ rank[r].h # "none"
                       /\ r \notin Ranks \/ pc \in {"idle", "layer", "save"} => rank[r].todo = <<>>
    /\ fs \in [{"tmp", "out"} -> [Files -> {"none", "torn", "whole"}]]

\* The race of two ranks for one file.  A torn file is being written, by a rank
\* that has it open under that name; so it will be whole.  A rank whose file was
\* moved under it writes the final name: then the temporary one is not there,
\* and the other rank, which moved it, is through with this file.
RaceOK ==
    /\ \A f \in Files : fs.out[f] = "torn" =>
          \E q \in 1..2 : AtWork(q, f) /\ rank[q].step = "write" /\ rank[q].h = "out"
    /\ \A f \in Files : fs.tmp[f] = "torn" =>
          \E q \in 1..2 : AtWork(q, f) /\ rank[q].step = "write" /\ rank[q].h = "tmp"
    /\ \A f \in Files, q \in 1..2 : AtWork(q, f) =>
          /\ rank[q].h = "tmp" => fs.tmp[f] # "none"
          /\ rank[q].h = "out" =>
                /\ fs.tmp[f] = "none" /\ fs.out[f] # "none"
                /\ \E p \in Ranks : p # q /\ f \notin Left(rank[p].todo)

\* The capture is one-shot: done, it is never active again.
BoundOK ==
    /\ DOMAIN bound = {"active", "done", "seq", "ids", "main", "moetopk", "attnout", "qfinal"}
    /\ bound.active \in BOOLEAN /\ bound.done \in BOOLEAN
    /\ bound.done => ~bound.active

\* Once the prompt's forward is through, a file that some rank has finished is
\* there, and whole behind the forward.  Not .qfinal: the handler of a rank that
\* lost the race for .attnout skips it.
WrittenOK ==
    bound.done => \A f \in Files \ {"qfinal"} :
        /\ pc = "dump" => \A r \in Ranks : f \notin Left(rank[r].todo) => fs.out[f] # "none"
        /\ pc \notin {"dump", "dead"} => fs.out[f] = "whole"

\* The inductive invariant of the JSON files.
DumpInv == RankOK /\ RaceOK /\ BoundOK /\ WrittenOK

\* A list of files shrinks from its head, and names each file once.
LEMMA TodoFacts ==
    ASSUME NEW t \in Todos
    PROVE  /\ t = <<>> => Left(t) = {}
           /\ t # <<>> => /\ Head(t) \in Files /\ Tail(t) \in Todos
                          /\ Left(t) = {Head(t)} \cup Left(Tail(t))
                          /\ Head(t) \notin Left(Tail(t))
           /\ t # <<>> /\ Head(t) = "attnout" => Left(t) = {"attnout", "qfinal"}
<1>1. CASE t = <<>>
  BY <1>1 DEF Left
<1>2. CASE t = <<"qfinal">>
  BY <1>2 DEF Left, Todos, Files
<1>3. CASE t = <<"attnout", "qfinal">>
  BY <1>3 DEF Left, Todos, Files
<1>4. CASE t = <<"moetopk", "attnout", "qfinal">>
  BY <1>4 DEF Left, Todos, Files
<1>5. CASE t = <<"main", "moetopk", "attnout", "qfinal">>
  BY <1>5 DEF Left, Todos, Files
<1> QED
  BY <1>1, <1>2, <1>3, <1>4, <1>5 DEF Todos

\* A capture writes all four files.
LEMMA AllTodo == Left(<<"main", "moetopk", "attnout", "qfinal">>) = Files
  BY DEF Left, Files

\* No file is there when a leg begins.
LEMMA DumpBegins == CaptureInit => DumpInv
<1> SUFFICES ASSUME CaptureInit PROVE DumpInv
  OBVIOUS
<1>1. opt.ranks \in {1, 2} /\ pc = "idle" /\ bound = Unbound /\ rank = Idle /\ fs = NoFiles
  BY CaptureAssumption DEF CaptureInit
<1>2. RankOK
  BY <1>1 DEF RankOK, Idle, NoFiles, Todos
<1>3. RaceOK
  BY <1>1 DEF RaceOK, Idle, NoFiles, AtWork
<1>4. BoundOK
  BY <1>1 DEF BoundOK, Unbound
<1>5. WrittenOK
  BY <1>1 DEF WrittenOK, Unbound
<1> QED
  BY <1>2, <1>3, <1>4, <1>5 DEF DumpInv

\* One step of a rank that writes: it opens, and empties, the temporary file,
\* which the other may have open; it writes what it has open; or it moves the
\* temporary file, with the other's handle, or finds it moved.
LEMMA DumpKeeps ==
    ASSUME DumpInv, NEW r \in Ranks, Dump(r)
    PROVE  DumpInv'
<1> DEFINE f == Head(rank[r].todo)
<1>0. /\ pc = "dump" /\ rank[r].todo # <<>>
      /\ UNCHANGED <<opt, pc, bound>>
      /\ Open(r, f) \/ Write(r, f) \/ Replace(r, f)
  BY DEF Dump
<1>1. r \in 1..2 /\ Ranks \subseteq 1..2 /\ Ranks' = Ranks
  BY <1>0 DEF DumpInv, RankOK, Ranks
<1>2. /\ f \in Files /\ Tail(rank[r].todo) \in Todos
      /\ Left(rank[r].todo) = {f} \cup Left(Tail(rank[r].todo)) /\ f \notin Left(Tail(rank[r].todo))
      /\ f = "attnout" => Left(rank[r].todo) = {"attnout", "qfinal"}
  BY <1>0, <1>1, TodoFacts DEF DumpInv, RankOK
<1>3. <<>> \in Todos /\ Left(<<>>) = {}
  BY TodoFacts DEF Todos
<1>4. BoundOK'
  BY <1>0 DEF DumpInv, BoundOK
<1> HIDE DEF f
<1>5. CASE Open(r, f)
  <2>1. /\ rank' = [rank EXCEPT ![r].step = "write", ![r].h = "tmp"] /\ rank[r].step = "open"
        /\ fs' = [fs EXCEPT !.tmp[f] = "torn"]
    BY <1>5 DEF Open
  <2>2. /\ rank'[r] = [todo |-> rank[r].todo, step |-> "write", h |-> "tmp"]
        /\ \A q \in 1..2 : q # r => rank'[q] = rank[q]
        /\ fs'.out = fs.out
        /\ \A g \in Files : fs'.tmp[g] = IF g = f THEN "torn" ELSE fs.tmp[g]
    BY <2>1, <1>1, <1>2 DEF DumpInv, RankOK
  <2>3. RankOK'
    BY <2>1, <2>2, <1>0, <1>1, <1>2 DEF DumpInv, RankOK
  <2>4. RaceOK'
    <3>1. \A g \in Files : /\ ~AtWork(r, g)
                           /\ AtWork(r, g)' <=> g = f
                           /\ \A q \in 1..2 : q # r => (AtWork(q, g)' <=> AtWork(q, g))
      BY <2>1, <2>2, <1>0 DEF AtWork, f
    <3>2. \A g \in Files : fs'.out[g] = "torn" =>
            \E q \in 1..2 : AtWork(q, g)' /\ rank'[q].step = "write" /\ rank'[q].h = "out"
      BY <3>1, <2>2 DEF DumpInv, RaceOK
    <3>3. \A g \in Files : fs'.tmp[g] = "torn" =>
            \E q \in 1..2 : AtWork(q, g)' /\ rank'[q].step = "write" /\ rank'[q].h = "tmp"
      <4> SUFFICES ASSUME NEW g \in Files, fs'.tmp[g] = "torn"
                   PROVE  \E q \in 1..2 : AtWork(q, g)' /\ rank'[q].step = "write" /\ rank'[q].h = "tmp"
        OBVIOUS
      <4>1. CASE g = f
        BY <4>1, <3>1, <2>2, <1>1
      <4>2. CASE g # f
        BY <4>2, <3>1, <2>2 DEF DumpInv, RaceOK
      <4> QED BY <4>1, <4>2
    <3>4. ASSUME NEW g \in Files, NEW q \in 1..2, AtWork(q, g)'
          PROVE  /\ rank'[q].h = "tmp" => fs'.tmp[g] # "none"
                 /\ rank'[q].h = "out" =>
                       /\ fs'.tmp[g] = "none" /\ fs'.out[g] # "none"
                       /\ \E p \in Ranks' : p # q /\ g \notin Left(rank'[p].todo)
      <4>1. CASE q = r
        BY <4>1, <3>1, <3>4, <2>2
      <4>2. CASE q # r
        <5>1. AtWork(q, g) /\ rank'[q] = rank[q]
          BY <4>2, <3>1, <3>4, <2>2
        <5>2. rank[q].h = "tmp" => fs.tmp[g] # "none"
          BY <5>1 DEF DumpInv, RaceOK
        <5>3. ASSUME rank[q].h = "out"
              PROVE  g # f /\ fs.tmp[g] = "none" /\ fs.out[g] # "none"
                     /\ \E p \in Ranks : p # q /\ g \notin Left(rank[p].todo)
          <6>1. PICK p \in Ranks : p # q /\ g \notin Left(rank[p].todo)
            BY <5>1, <5>3 DEF DumpInv, RaceOK
          <6>2. p = r
            BY <6>1, <4>2, <1>1
          <6> QED BY <6>1, <6>2, <1>2, <5>1, <5>3 DEF DumpInv, RaceOK
        <5>4. \A p \in 1..2 : rank'[p].todo = rank[p].todo
          BY <2>2
        <5> QED BY <5>1, <5>2, <5>3, <5>4, <2>2, <1>1
      <4> QED BY <4>1, <4>2
    <3> QED BY <3>2, <3>3, <3>4 DEF RaceOK
  <2>5. WrittenOK'
    BY <2>2, <1>0, <1>1 DEF DumpInv, WrittenOK
  <2> QED BY <2>3, <2>4, <2>5, <1>4 DEF DumpInv
<1>6. CASE Write(r, f)
  <2>1. /\ rank' = [rank EXCEPT ![r].step = "replace"] /\ rank[r].step = "write"
        /\ fs' = [fs EXCEPT ![rank[r].h][f] = "whole"] /\ rank[r].h \in {"tmp", "out"}
    BY <1>6, <1>1 DEF Write, DumpInv, RankOK
  <2>2. /\ rank'[r] = [todo |-> rank[r].todo, step |-> "replace", h |-> rank[r].h]
        /\ \A q \in 1..2 : q # r => rank'[q] = rank[q]
        /\ \A g \in Files, n \in {"tmp", "out"} :
              fs'[n][g] = IF g = f /\ n = rank[r].h THEN "whole" ELSE fs[n][g]
    BY <2>1, <1>1, <1>2 DEF DumpInv, RankOK
  <2>3. RankOK'
    BY <2>1, <2>2, <1>0, <1>1, <1>2 DEF DumpInv, RankOK
  <2>4. RaceOK'
    <3>1. \A q \in 1..2, g \in Files : AtWork(q, g)' <=> AtWork(q, g)
      BY <2>1, <2>2, <1>0, <1>1 DEF AtWork
    <3>2. \A q \in 1..2 : rank'[q].todo = rank[q].todo /\ rank'[q].h = rank[q].h
      BY <2>2
    <3>3. \A g \in Files : AtWork(r, g) <=> g = f
      BY <2>1, <1>0 DEF AtWork, f
    <3>4. ASSUME NEW g \in Files, NEW n \in {"tmp", "out"}, fs'[n][g] = "torn",
                 \E q \in 1..2 : AtWork(q, g) /\ rank[q].step = "write" /\ rank[q].h = n
          PROVE  \E q \in 1..2 : AtWork(q, g)' /\ rank'[q].step = "write" /\ rank'[q].h = n
      BY <3>1, <3>3, <3>4, <2>2
    <3>5. \A g \in Files, n \in {"tmp", "out"} : /\ fs'[n][g] = "torn" => fs[n][g] = "torn"
                                                 /\ fs'[n][g] = "none" => fs[n][g] = "none"
      BY <2>2
    <3>6. \A g \in Files : fs'.tmp[g] # fs.tmp[g] => fs.tmp[g] # "none"
      <4>1. rank[r].h = "tmp" => fs.tmp[f] # "none"
        BY <3>3, <1>1, <1>2 DEF DumpInv, RaceOK
      <4> QED BY <4>1, <2>2
    <3>7. \A g \in Files : fs'.out[g] = "torn" =>
            \E q \in 1..2 : AtWork(q, g)' /\ rank'[q].step = "write" /\ rank'[q].h = "out"
      BY <3>4, <3>5 DEF DumpInv, RaceOK
    <3>8. \A g \in Files : fs'.tmp[g] = "torn" =>
            \E q \in 1..2 : AtWork(q, g)' /\ rank'[q].step = "write" /\ rank'[q].h = "tmp"
      BY <3>4, <3>5 DEF DumpInv, RaceOK
    <3>9. ASSUME NEW g \in Files, NEW q \in 1..2, AtWork(q, g)'
          PROVE  /\ rank'[q].h = "tmp" => fs'.tmp[g] # "none"
                 /\ rank'[q].h = "out" =>
                       /\ fs'.tmp[g] = "none" /\ fs'.out[g] # "none"
                       /\ \E p \in Ranks' : p # q /\ g \notin Left(rank'[p].todo)
      <4>1. AtWork(q, g) /\ rank'[q].h = rank[q].h
        BY <3>1, <3>2, <3>9
      <4>2. rank[q].h = "out" =>
                       /\ fs.tmp[g] = "none" /\ fs.out[g] # "none"
                       /\ \E p \in Ranks : p # q /\ g \notin Left(rank[p].todo)
        BY <4>1 DEF DumpInv, RaceOK
      <4>3. rank[q].h = "tmp" => fs.tmp[g] # "none"
        BY <4>1 DEF DumpInv, RaceOK
      <4> QED BY <4>1, <4>2, <4>3, <3>2, <3>5, <3>6, <1>1
    <3> QED BY <3>7, <3>8, <3>9 DEF RaceOK
  <2>5. WrittenOK'
    BY <2>2, <1>0, <1>1 DEF DumpInv, WrittenOK
  <2> QED BY <2>3, <2>4, <2>5, <1>4 DEF DumpInv
<1>7. CASE Replace(r, f)
  <2> DEFINE there == fs.tmp[f] # "none"
             mine == [todo |-> IF ~there /\ f = "attnout" THEN <<>> ELSE Tail(rank[r].todo),
                      step |-> "open", h |-> "none"]
  <2>1. /\ rank[r].step = "replace"
        /\ fs' = IF there THEN [fs EXCEPT !.out[f] = fs.tmp[f], !.tmp[f] = "none"] ELSE fs
        /\ rank'[r] = mine
    BY <1>7, <1>1 DEF Replace
  <2>2. \A q \in 1..2 : q # r =>
          rank'[q] = IF there /\ AtWork(q, f)
                     THEN [rank[q] EXCEPT !.h = IF @ = "tmp" THEN "out" ELSE "gone"] ELSE rank[q]
    BY <1>7 DEF Replace, AtWork
  <2>3. \A g \in Files : AtWork(r, g) <=> g = f
    BY <2>1, <1>0 DEF AtWork, f
  <2>4. rank[r].h \in {"tmp", "out"}
    BY <2>1, <1>1 DEF DumpInv, RankOK
  \* A rank whose temporary file is there moves it, and another that has it open.
  <2>5. \A q \in 1..2 : there /\ AtWork(q, f) => rank[q].h = "tmp"
    <3> SUFFICES ASSUME NEW q \in 1..2, there, AtWork(q, f) PROVE rank[q].h = "tmp"
      OBVIOUS
    <3>1. rank[q].h # "out"
      BY <1>2 DEF DumpInv, RaceOK
    <3>2. rank[q].step # "open"
      BY DEF AtWork
    <3> QED BY <3>1, <3>2 DEF DumpInv, RankOK
  <2>6. \A q \in 1..2 : q # r =>
          rank'[q] = [todo |-> rank[q].todo, step |-> rank[q].step,
                      h |-> IF there /\ AtWork(q, f) THEN "out" ELSE rank[q].h]
    BY <2>2, <2>5 DEF DumpInv, RankOK
  <2>7. \A g \in Files :
          /\ fs'.out[g] = IF there /\ g = f THEN fs.tmp[f] ELSE fs.out[g]
          /\ fs'.tmp[g] = IF there /\ g = f THEN "none" ELSE fs.tmp[g]
    BY <2>1, <1>2 DEF DumpInv, RankOK
  <2>8. /\ mine.todo \in Todos /\ f \notin Left(mine.todo)
        /\ \A g \in Files \ {"qfinal", f} : g \in Left(mine.todo) <=> g \in Left(rank[r].todo)
        /\ \A g \in Files : g \in Left(mine.todo) => g \in Left(rank[r].todo)
    BY <1>2, <1>3
  <2>14. /\ \A g \in Files \ {"qfinal", f} : g \in Left(rank'[r].todo) <=> g \in Left(rank[r].todo)
         /\ \A g \in Files : g \in Left(rank'[r].todo) => g \in Left(rank[r].todo)
    <3> HIDE DEF mine
    <3>1. rank'[r].todo = mine.todo
      BY <2>1
    <3>2. Left(rank'[r].todo) = Left(mine.todo)
      BY <3>1, Zenon
    <3> QED BY <3>2, <2>8
  <2>9. ~there => fs.out[f] # "none" /\ \E p \in Ranks : p # r /\ f \notin Left(rank[p].todo)
    BY <2>3, <2>4, <1>1, <1>2 DEF DumpInv, RaceOK
  <2>10. RankOK'
    <3>1. rank'[r] \in [todo : Todos, step : {"open", "write", "replace"}, h : {"none", "tmp", "out"}]
      BY <2>1, <2>8
    <3>2. \A q \in 1..2 : rank'[q] \in [todo : Todos, step : {"open", "write", "replace"},
                                        h : {"none", "tmp", "out"}]
      BY <3>1, <2>6 DEF DumpInv, RankOK
    <3>3. rank' = [q \in 1..2 |-> rank'[q]]
      BY <1>7 DEF Replace
    <3>4. fs' \in [{"tmp", "out"} -> [Files -> {"none", "torn", "whole"}]]
      BY <2>1, <1>2 DEF DumpInv, RankOK
    <3>5. \A q \in 1..2 : /\ rank'[q].step # "open" => rank'[q].todo # <<>> /\ rank'[q].h # "none"
                          /\ q \notin Ranks => rank'[q].todo = <<>>
      BY <2>1, <2>6 DEF DumpInv, RankOK
    <3> QED BY <3>2, <3>3, <3>4, <3>5, <1>0, <1>1 DEF DumpInv, RankOK
  <2>11. \A g \in Files : /\ ~AtWork(r, g)'
                          /\ \A q \in 1..2 : q # r => (AtWork(q, g)' <=> AtWork(q, g))
    BY <2>1, <2>6 DEF AtWork
  <2>12. RaceOK'
    <3>1. \A g \in Files : fs'.out[g] = "torn" =>
            \E q \in 1..2 : AtWork(q, g)' /\ rank'[q].step = "write" /\ rank'[q].h = "out"
      <4> SUFFICES ASSUME NEW g \in Files, fs'.out[g] = "torn"
                   PROVE  \E q \in 1..2 : AtWork(q, g)' /\ rank'[q].step = "write" /\ rank'[q].h = "out"
        OBVIOUS
      <4>1. CASE there /\ g = f
        <5>1. PICK q \in 1..2 : AtWork(q, f) /\ rank[q].step = "write" /\ rank[q].h = "tmp"
          BY <4>1, <2>7, <1>2 DEF DumpInv, RaceOK
        <5>2. q # r
          BY <5>1, <2>1
        <5> QED BY <5>1, <5>2, <4>1, <2>6, <2>11
      <4>2. CASE ~(there /\ g = f)
        <5>1. PICK q \in 1..2 : AtWork(q, g) /\ rank[q].step = "write" /\ rank[q].h = "out"
          BY <4>2, <2>7 DEF DumpInv, RaceOK
        <5>2. q # r
          BY <5>1, <2>1
        <5> QED BY <5>1, <5>2, <2>6, <2>11
      <4> QED BY <4>1, <4>2
    <3>2. \A g \in Files : fs'.tmp[g] = "torn" =>
            \E q \in 1..2 : AtWork(q, g)' /\ rank'[q].step = "write" /\ rank'[q].h = "tmp"
      <4> SUFFICES ASSUME NEW g \in Files, fs'.tmp[g] = "torn"
                   PROVE  \E q \in 1..2 : AtWork(q, g)' /\ rank'[q].step = "write" /\ rank'[q].h = "tmp"
        OBVIOUS
      <4>1. fs.tmp[g] = "torn" /\ ~(there /\ g = f)
        BY <2>7
      <4>2. PICK q \in 1..2 : AtWork(q, g) /\ rank[q].step = "write" /\ rank[q].h = "tmp"
        BY <4>1 DEF DumpInv, RaceOK
      <4>3. q # r /\ g # f
        BY <4>1, <4>2, <2>1
      <4>4. ~AtWork(q, f)
        BY <4>2, <4>3 DEF AtWork
      <4> QED BY <4>2, <4>3, <4>4, <2>6, <2>11
    <3>3. ASSUME NEW g \in Files, NEW q \in 1..2, AtWork(q, g)'
          PROVE  /\ rank'[q].h = "tmp" => fs'.tmp[g] # "none"
                 /\ rank'[q].h = "out" =>
                       /\ fs'.tmp[g] = "none" /\ fs'.out[g] # "none"
                       /\ \E p \in Ranks' : p # q /\ g \notin Left(rank'[p].todo)
      <4>1. q # r /\ AtWork(q, g)
        BY <3>3, <2>11
      <4>2. AtWork(q, f) <=> g = f
        BY <4>1 DEF AtWork
      <4>3. CASE there /\ g = f
        <5>1. rank'[q].h = "out"
          BY <4>1, <4>2, <4>3, <2>6
        <5> QED BY <5>1, <4>1, <4>3, <2>1, <2>7, <2>8, <1>1
      <4>4. CASE ~(there /\ g = f)
        <5>1. rank'[q].h = rank[q].h /\ fs'.tmp[g] = fs.tmp[g] /\ fs'.out[g] = fs.out[g]
          BY <4>1, <4>2, <4>4, <2>6, <2>7
        <5>2. rank[q].h = "tmp" => fs.tmp[g] # "none"
          BY <4>1 DEF DumpInv, RaceOK
        <5>3. ASSUME rank[q].h = "out"
              PROVE  /\ fs.tmp[g] = "none" /\ fs.out[g] # "none"
                     /\ r # q /\ g \notin Left(rank'[r].todo)
          <6>1. PICK p \in Ranks : p # q /\ g \notin Left(rank[p].todo)
            BY <4>1, <5>3 DEF DumpInv, RaceOK
          <6>2. p = r
            BY <6>1, <4>1, <1>1
          <6>3. g \notin Left(rank'[r].todo)
            BY <6>1, <6>2, <2>14
          <6> QED BY <6>3, <4>1, <5>3 DEF DumpInv, RaceOK
        <5> QED BY <5>1, <5>2, <5>3, <1>1
      <4> QED BY <4>3, <4>4
    <3> QED BY <3>1, <3>2, <3>3 DEF RaceOK
  <2>13. WrittenOK'
    <3> SUFFICES ASSUME bound.done, NEW g \in Files \ {"qfinal"}, NEW p \in Ranks,
                        g \notin Left(rank'[p].todo)
                 PROVE  fs'.out[g] # "none"
      BY <1>0, <1>1 DEF WrittenOK
    <3>1. CASE g = f
      BY <3>1, <2>7, <2>9
    <3>2. CASE g # f
      <4>1. g \notin Left(rank[p].todo)
        <5>1. CASE p = r
          BY <5>1, <3>2, <2>14
        <5>2. CASE p # r
          <6>1. rank'[p].todo = rank[p].todo
            BY <5>2, <2>6, <1>1
          <6> QED BY <6>1
        <5> QED BY <5>1, <5>2
      <4> QED BY <4>1, <3>2, <2>7, <1>0 DEF DumpInv, WrittenOK
    <3> QED BY <3>1, <3>2
  <2> QED BY <2>10, <2>12, <2>13, <1>4 DEF DumpInv
<1> QED
  BY <1>0, <1>5, <1>6, <1>7

\* RaceOK is about the ranks and the files alone.
LEMMA RaceStays ==
    ASSUME DumpInv, UNCHANGED <<opt, rank, fs>>
    PROVE  RaceOK'
<1>1. Ranks' = Ranks /\ \A q \in 1..2, f \in Files : AtWork(q, f)' <=> AtWork(q, f)
  BY DEF Ranks, AtWork
<1> QED
  BY <1>1 DEF DumpInv, RaceOK

\* Every step keeps the invariant of the JSON files, a kill at any point too.
LEMMA DumpGoesOn ==
    ASSUME DumpInv, [CaptureNext]_captureVars
    PROVE  DumpInv'
<1>1. CASE UNCHANGED captureVars
  <2>1. RankOK' /\ BoundOK' /\ WrittenOK' /\ UNCHANGED <<opt, rank, fs>>
    BY <1>1 DEF captureVars, DumpInv, RankOK, BoundOK, WrittenOK, Ranks
  <2> QED BY <2>1, RaceStays DEF DumpInv
<1>2. CASE Begin
  <2>1. /\ pc = "idle" /\ pc' = "layer" /\ UNCHANGED <<opt, rank, fs>>
        /\ bound' = bound \/ \E f : bound' = Activate(f)
    BY <1>2 DEF Begin
  <2>2. \/ bound' = bound
        \/ /\ ~bound.done
           /\ \E i, s : bound' = [bound EXCEPT !.active = TRUE, !.seq = i, !.ids = s, !.main = Empty]
    BY <2>1 DEF Activate
  <2>3. BoundOK' /\ bound'.done = bound.done
    BY <2>2 DEF DumpInv, BoundOK
  <2>4. RankOK' /\ WrittenOK'
    BY <2>1, <2>3 DEF DumpInv, RankOK, WrittenOK, Ranks
  <2> QED BY <2>1, <2>3, <2>4, RaceStays DEF DumpInv
<1>3. CASE Layer
  <2>1. /\ pc = "layer" /\ UNCHANGED <<opt, pc, rank, fs>>
        /\ bound' = BoundLayer
    BY <1>3 DEF Layer
  <2>2. BoundOK' /\ bound'.done = bound.done
    BY <2>1 DEF BoundLayer, DumpInv, BoundOK
  <2>3. RankOK' /\ WrittenOK'
    BY <2>1, <2>2 DEF DumpInv, RankOK, WrittenOK, Ranks
  <2> QED BY <2>1, <2>2, <2>3, RaceStays DEF DumpInv
<1>4. CASE Logits
  <2>1. pc = "layer" /\ pc' = "save" /\ UNCHANGED <<opt, bound, rank, fs>>
    BY <1>4 DEF Logits
  <2>2. RankOK' /\ BoundOK' /\ WrittenOK'
    BY <2>1 DEF DumpInv, RankOK, BoundOK, WrittenOK, Ranks
  <2> QED BY <2>1, <2>2, RaceStays DEF DumpInv
<1>5. CASE Save
  <2>1. /\ pc = "save" /\ pc' = "dump" /\ bound' = BoundEnd /\ UNCHANGED <<opt, fs>>
        /\ rank' = [r \in 1..2 |->
               IF r \in Ranks THEN [todo |-> Dumps, step |-> "open", h |-> "none"] ELSE Idle[r]]
    BY <1>5 DEF Save
  <2>2. Ranks' = Ranks /\ Ranks \subseteq 1..2
    BY <2>1 DEF Ranks, DumpInv, RankOK
  <2>3. Dumps \in Todos /\ (bound.active => Left(Dumps) = Files)
    BY AllTodo DEF Dumps, Todos
  <2>4. RankOK'
    BY <2>1, <2>2, <2>3 DEF DumpInv, RankOK, Idle, Todos
  <2>5. \A q \in 1..2, f \in Files : ~AtWork(q, f) /\ ~AtWork(q, f)'
    <3>1. \A q \in 1..2 : rank[q].todo = <<>>
      BY <2>1 DEF DumpInv, RankOK
    <3>2. \A q \in 1..2 : rank'[q].step = "open"
      BY <2>1 DEF Idle
    <3> QED BY <3>1, <3>2 DEF AtWork
  <2>6. RaceOK'
    BY <2>1, <2>5 DEF DumpInv, RaceOK
  <2>7. BoundOK' /\ bound'.done = (bound.done \/ bound.active)
    BY <2>1 DEF BoundEnd, DumpInv, BoundOK
  <2>8. WrittenOK'
    <3>1. CASE bound.active
      <4>1. \A r \in Ranks : rank'[r].todo = Dumps
        BY <2>1, <2>2
      <4> QED BY <4>1, <3>1, <2>1, <2>2, <2>3 DEF WrittenOK
    <3>2. CASE ~bound.active
      BY <3>2, <2>1, <2>2, <2>7 DEF DumpInv, WrittenOK, BoundOK
    <3> QED BY <3>1, <3>2
  <2> QED BY <2>4, <2>6, <2>7, <2>8 DEF DumpInv
<1>6. CASE \E r \in Ranks : Dump(r)
  BY <1>6, DumpKeeps
<1>7. CASE EndForward
  <2>1. /\ pc = "dump" /\ pc' = "idle" /\ UNCHANGED <<opt, bound, rank, fs>>
        /\ \A r \in Ranks : rank[r].todo = <<>>
    BY <1>7 DEF EndForward
  <2>2. \A r \in 1..2 : rank[r].todo = <<>>
    BY <2>1 DEF DumpInv, RankOK
  <2>3. RankOK' /\ BoundOK'
    BY <2>1, <2>2 DEF DumpInv, RankOK, BoundOK, Ranks
  <2>4. WrittenOK'
    <3> SUFFICES ASSUME bound.done, NEW f \in Files \ {"qfinal"} PROVE fs.out[f] = "whole"
      BY <2>1 DEF WrittenOK
    <3>1. 1 \in Ranks /\ f \notin Left(rank[1].todo)
      BY <2>2, TodoFacts DEF Ranks, DumpInv, RankOK, Todos
    <3>2. fs.out[f] # "none"
      BY <3>1, <2>1 DEF DumpInv, WrittenOK
    <3>3. fs.out[f] # "torn"
      BY <2>2 DEF DumpInv, RaceOK, AtWork
    <3> QED BY <3>2, <3>3 DEF DumpInv, RankOK
  <2> QED BY <2>1, <2>3, <2>4, RaceStays DEF DumpInv
<1>8. CASE EndLeg
  <2>1. /\ pc = "idle" /\ bound' = Unbound /\ UNCHANGED <<opt, pc, rank>>
        /\ fs' = fs \/ fs' = NoFiles
    BY <1>8 DEF EndLeg
  <2>2. BoundOK' /\ ~bound'.done
    BY <2>1 DEF BoundOK, Unbound
  <2>3. RankOK'
    BY <2>1 DEF DumpInv, RankOK, Ranks, NoFiles
  <2>4. \A q \in 1..2, f \in Files : ~AtWork(q, f) /\ ~AtWork(q, f)'
    BY <2>1 DEF AtWork, DumpInv, RankOK
  <2>5. RaceOK'
    BY <2>1, <2>4 DEF DumpInv, RaceOK, NoFiles
  <2> QED BY <2>2, <2>3, <2>5 DEF DumpInv, WrittenOK
<1>9. CASE Kill
  <2>1. pc' = "dead" /\ UNCHANGED <<opt, bound, rank, fs>>
    BY <1>9 DEF Kill
  <2>2. RankOK' /\ BoundOK' /\ WrittenOK'
    BY <2>1 DEF DumpInv, RankOK, BoundOK, WrittenOK, Ranks
  <2> QED BY <2>1, <2>2, RaceStays DEF DumpInv
<1> QED
  BY <1>1, <1>2, <1>3, <1>4, <1>5, <1>6, <1>7, <1>8, <1>9 DEF CaptureNext

\* With one rank no other can have moved the file, so nothing final is torn.
LEMMA DumpTells == DumpInv => JsonWhole
<1> SUFFICES ASSUME DumpInv PROVE JsonWhole
  OBVIOUS
<1>1. ASSUME opt.ranks = 1, NEW f \in Files, fs.out[f] = "torn" PROVE FALSE
  <2>1. PICK q \in 1..2 : AtWork(q, f) /\ rank[q].h = "out"
    BY <1>1 DEF DumpInv, RaceOK
  <2>2. PICK p \in Ranks : p # q
    BY <2>1 DEF DumpInv, RaceOK
  <2>3. q \in Ranks
    BY <2>1 DEF DumpInv, RankOK, AtWork
  <2> QED BY <2>2, <2>3, <1>1 DEF Ranks
<1> QED
  BY <1>1 DEF JsonWhole, DumpInv, WrittenOK

-----------------------------------------------------------------------------

\* The file of a full capture has what was captured up to the forward under
\* way, and between forwards all of it; the second leg's is empty before it runs.
SavedOK ==
    /\ leg \in Leg \cup {"done"} /\ pc \in {"idle", "layer", "save", "dump", "dead"}
    /\ pc # "idle" => leg \in Leg
    /\ DOMAIN saved = Leg /\ \A l \in Leg : DOMAIN saved[l] = {"whole", "keys"}
    /\ leg \in Leg =>
          \A k \in DOMAIN cap :
              (cap[k].of # cur.of \/ cap[k].n # cur.n) =>
                  k \in DOMAIN saved[leg].keys /\ saved[leg].keys[k] = cap[k]
    /\ leg \in Leg /\ pc \in {"idle", "save", "dump"} => saved[leg].keys = cap
    /\ leg = "gpu" => saved["cpu"].keys = Empty

\* Nothing is captured and nothing saved when the first leg begins.
LEMMA SavedBegins == CaptureInit => SavedOK
  BY DEF CaptureInit, SavedOK, Leg, Empty

\* Every step keeps it: a key once captured is kept, and the logits of each
\* forward save the whole dictionary.
LEMMA SavedGoesOn ==
    ASSUME SavedOK, [CaptureNext]_captureVars
    PROVE  SavedOK'
<1>1. CASE UNCHANGED captureVars
  BY <1>1 DEF captureVars, SavedOK
<1>2. CASE Begin
  BY <1>2 DEF Begin, SavedOK, Leg
<1>3. CASE Layer
  <2>1. /\ pc = "layer" /\ UNCHANGED <<leg, pc, cur>> /\ cap' = LayerKeys
        /\ saved' = saved \/ saved' = [saved EXCEPT ![leg] = [whole |-> TRUE, keys |-> cap']]
    BY <1>3 DEF Layer
  <2>2. \A k \in DOMAIN cap' : IF k \in DOMAIN cap THEN cap'[k] = cap[k] ELSE cap'[k] = Origin(layer)
    BY <2>1 DEF LayerKeys, Keep
  <2>3. Origin(layer).of = cur.of /\ Origin(layer).n = cur.n
    BY DEF Origin
  <2>4. CASE saved' = saved
    BY <2>1, <2>2, <2>3, <2>4 DEF SavedOK
  <2>5. CASE saved' = [saved EXCEPT ![leg] = [whole |-> TRUE, keys |-> cap']]
    BY <2>1, <2>5 DEF SavedOK, Leg
  <2> QED BY <2>1, <2>4, <2>5
<1>4. CASE Logits
  <2>1. /\ pc = "layer" /\ pc' = "save" /\ UNCHANGED <<leg, cur>>
        /\ saved' = [saved EXCEPT ![leg] = [whole |-> FALSE, keys |-> cap']]
    BY <1>4 DEF Logits
  <2> QED BY <2>1 DEF SavedOK, Leg
<1>5. CASE Save
  <2>1. /\ pc = "save" /\ pc' = "dump" /\ UNCHANGED <<leg, cur, cap>>
        /\ saved' = [saved EXCEPT ![leg] = [saved[leg] EXCEPT !.whole = TRUE]]
    BY <1>5 DEF Save
  <2>2. saved'[leg].keys = saved[leg].keys /\ DOMAIN saved'[leg] = {"whole", "keys"}
    BY <2>1 DEF SavedOK
  <2>3. \A l \in Leg : l # leg => saved'[l] = saved[l]
    BY <2>1 DEF SavedOK
  <2> QED BY <2>1, <2>2, <2>3 DEF SavedOK, Leg
<1>6. CASE \E r \in Ranks : Dump(r)
  BY <1>6 DEF Dump, SavedOK
<1>7. CASE EndForward
  BY <1>7 DEF EndForward, SavedOK
<1>8. CASE EndLeg
  BY <1>8 DEF EndLeg, SavedOK, Leg, Empty
<1>9. CASE Kill
  <2>1. /\ pc \in {"layer", "save", "dump"} /\ pc' = "dead" /\ UNCHANGED <<leg, cur, cap>>
        /\ saved' = saved \/ saved' = [saved EXCEPT ![leg] = [saved[leg] EXCEPT !.whole = FALSE]]
    BY <1>9 DEF Kill
  <2>2. saved'[leg].keys = saved[leg].keys /\ DOMAIN saved'[leg] = {"whole", "keys"}
    BY <2>1 DEF SavedOK
  <2>3. \A l \in Leg : l # leg => saved'[l] = saved[l]
    BY <2>1 DEF SavedOK
  <2> QED BY <2>1, <2>2, <2>3 DEF SavedOK, Leg
<1> QED
  BY <1>1, <1>2, <1>3, <1>4, <1>5, <1>6, <1>7, <1>8, <1>9 DEF CaptureNext

\* Whatever is killed and however the ranks interleave: a JSON file of one rank
\* is absent or whole, those of several are whole when all are through, and a
\* whole full capture has every forward that is over.
THEOREM CapturedFilesSurvive == CaptureSpec => []FilesSurvive
<1>1. CaptureInit => DumpInv /\ SavedOK
  BY DumpBegins, SavedBegins
<1>2. DumpInv /\ SavedOK /\ [CaptureNext]_captureVars => (DumpInv /\ SavedOK)'
  BY DumpGoesOn, SavedGoesOn
<1>3. DumpInv /\ SavedOK => FilesSurvive
  BY DumpTells DEF FilesSurvive, SavedOK, SavedIsPast
<1> QED
  BY <1>1, <1>2, <1>3, PTL DEF CaptureSpec

-----------------------------------------------------------------------------
(* The legs of a capture: which forward is the one being run.                *)

\* How many forwards leg l runs to start up, and how many the work has.
Ups(l) == Len(opt.start[l])
Works == Len(work)

\* The forward that leg l runs as its a-th.
Forward(l, a) ==
    LET n == a - Ups(l)
    IN  IF n <= 0
        THEN [ids |-> opt.start[l][a], t |-> TokensIn[opt.start[l][a]], of |-> "start", n |-> a]
        ELSE [ids |-> work[n], t |-> TokensIn[work[n]], of |-> "work", n |-> n]

\* The forwards a leg has begun are its start-ups and then the work: the first
\* leg's is all the work there is, the second leg's is part of it.
RunOK ==
    /\ opt \in Options /\ work \in Seq(Requests)
    /\ leg \in Leg \cup {"done"} /\ pc \in {"idle", "layer", "save", "dump", "dead"}
    /\ pc # "idle" => leg \in Leg
    /\ at \in Nat /\ layer \in 0..NumLayers
    /\ pc \in {"save", "dump"} => layer = NumLayers
    /\ leg = "gpu" => Works = IF at <= Ups(leg) THEN 0 ELSE at - Ups(leg)
    /\ leg = "cpu" => at <= Ups(leg) + Works
    /\ pc # "idle" => at >= 1 /\ cur = Forward(leg, at)

\* The options and the start-up forwards, as a rule to cite.
LEMMA StartFacts ==
    ASSUME RunOK
    PROVE  /\ opt.family \in {"dsv4", "glm"}
           /\ \A l \in Leg : /\ opt.start[l] \in Seq(DOMAIN TokensIn)
                             /\ Ups(l) \in Nat
                             /\ \A i \in 1..Ups(l) :
                                   opt.start[l][i] \in DOMAIN TokensIn /\ NoPrompt(opt.start[l][i])
           /\ Works \in Nat /\ DOMAIN work = 1..Works
           /\ \A w \in DOMAIN work : work[w] \in DOMAIN TokensIn
           /\ \A i \in DOMAIN TokensIn : TokensIn[i] \in Nat \ {0}
<1>1. opt \in Options /\ work \in Seq(Requests)
  BY DEF RunOK
<1>2. opt.family \in {"dsv4", "glm"} /\ opt.start \in [Leg -> Seq(DOMAIN TokensIn)]
  BY <1>1, CaptureAssumption
<1>3. ASSUME NEW l \in Leg
      PROVE  /\ opt.start[l] \in Seq(DOMAIN TokensIn)
             /\ Ups(l) \in Nat
             /\ \A i \in 1..Ups(l) :
                   opt.start[l][i] \in DOMAIN TokensIn /\ NoPrompt(opt.start[l][i])
  <2>1. opt.start[l] \in Seq(DOMAIN TokensIn)
    BY <1>2
  <2>2. DOMAIN opt.start[l] = 1..Ups(l) /\ Ups(l) \in Nat
        /\ \A i \in 1..Ups(l) : opt.start[l][i] \in DOMAIN TokensIn
    BY <2>1, LenProperties, ElementOfSeq DEF Ups
  <2>3. \A i \in DOMAIN opt.start[l] : NoPrompt(opt.start[l][i])
    BY <1>1, CaptureAssumption
  <2> QED BY <2>1, <2>2, <2>3
<1>4. Works \in Nat /\ DOMAIN work = 1..Works /\ \A w \in DOMAIN work : work[w] \in Requests
  BY <1>1, LenProperties, ElementOfSeq DEF Works
<1>5. Requests \subseteq DOMAIN TokensIn /\ \A i \in DOMAIN TokensIn : TokensIn[i] \in Nat \ {0}
  BY CaptureAssumption
<1> QED
  BY <1>2, <1>3, <1>4, <1>5

\* A leg begins its next forward, which the first leg adds to the work.
LEMMA BeginFacts ==
    ASSUME RunOK, Begin
    PROVE  /\ leg \in Leg /\ pc = "idle" /\ pc' = "layer" /\ at' = at + 1 /\ layer' = 0
           /\ work' \in Seq(Requests) /\ Works' >= Works
           /\ \A w \in DOMAIN work : work'[w] = work[w] /\ w \in DOMAIN work'
           /\ leg = "gpu" => Works' = IF at' <= Ups(leg) THEN 0 ELSE at' - Ups(leg)
           /\ leg = "cpu" => at' <= Ups(leg) + Works' /\ work' = work
           /\ cur' = Forward(leg, at)'
           /\ UNCHANGED <<opt, leg>> /\ Ups(leg)' = Ups(leg)
<1>1. leg \in Leg /\ pc = "idle" /\ pc' = "layer" /\ at' = at + 1 /\ layer' = 0 /\ UNCHANGED <<opt, leg>>
  BY DEF Begin, RunOK
<1>10. Ups(leg)' = Ups(leg)
  BY <1>1 DEF Ups
<1>2. PICK f \in NextForwards :
         cur' = f /\ work' = IF f.of = "work" /\ leg = "gpu" THEN Append(work, f.ids) ELSE work
  BY DEF Begin
<1>3. work \in Seq(Requests) /\ Works \in Nat /\ Ups(leg) \in Nat /\ at \in Nat
      /\ DOMAIN work = 1..Works
  BY <1>1, StartFacts DEF RunOK
<1>7. /\ leg = "gpu" /\ at <= Ups(leg) => Works = 0
      /\ leg = "gpu" /\ ~(at <= Ups(leg)) => Works = at - Ups(leg)
  BY DEF RunOK
<1>9. Works \in Nat /\ Ups(leg) \in Nat /\ at \in Nat
  BY <1>3
<1>8. at + 1 - Ups(leg) \in Int
  BY <1>3
<1>0. PICK n \in Int : n = at + 1 - Ups(leg)
  BY <1>8
<1>4. CASE n <= 0
  <2>1. f = [ids |-> opt.start[leg][at + 1], t |-> TokensIn[opt.start[leg][at + 1]],
             of |-> "start", n |-> at + 1]
    BY <1>4, <1>0 DEF NextForwards, Ups
  <2>2. work' = work /\ Works' = Works
    BY <1>2, <2>1 DEF Works
  <2>3. Forward(leg, at)' = f
    <3>1. at' - Ups(leg) = n
      BY <1>1, <1>0, <1>9, <1>10
    <3> QED BY <1>1, <1>10, <1>4, <2>1, <3>1 DEF Forward
  <2>4. at' <= Ups(leg)
    BY <1>1, <1>0, <1>9, <1>4
  <2>5. leg = "gpu" => Works = 0
    BY <1>0, <1>9, <1>4, <1>7
  <2> QED BY <1>1, <1>10, <1>2, <1>3, <2>2, <2>3, <2>4, <2>5
<1>5. CASE n > 0 /\ leg = "gpu"
  <2>1. f \in {[ids |-> i, t |-> TokensIn[i], of |-> "work", n |-> n] : i \in Requests}
    BY <1>5, <1>0 DEF NextForwards, Ups
  <2>2. PICK i \in Requests : f = [ids |-> i, t |-> TokensIn[i], of |-> "work", n |-> n]
    BY <2>1
  <2>3. work' = Append(work, i)
    BY <1>2, <2>2, <1>5
  <2>4. /\ work' \in Seq(Requests) /\ Works' = Works + 1 /\ DOMAIN work' = 1..Works'
        /\ work'[Works + 1] = i /\ \A w \in 1..Works : work'[w] = work[w]
    BY <2>3, <1>3, AppendProperties, LenProperties DEF Works
  <2>5. Works = n - 1
    BY <1>5, <1>0, <1>9, <1>7
  <2>6. Forward(leg, at)' = f
    <3>1. at' - Ups(leg) = n
      BY <1>1, <1>0, <1>9, <1>10
    <3>2. work'[n] = i
      BY <2>4, <2>5, <1>9
    <3> QED BY <1>1, <1>10, <1>5, <2>2, <3>1, <3>2 DEF Forward
  <2>7. Works' = at' - Ups(leg) /\ ~(at' <= Ups(leg))
    <3>1. at' = at + 1 /\ Works' = n
      BY <1>1, <1>9, <2>4, <2>5
    <3> QED BY <3>1, <1>0, <1>9, <1>5
  <2> QED BY <1>1, <1>10, <1>2, <1>3, <1>5, <2>4, <2>6, <2>7
<1>6. CASE n > 0 /\ leg = "cpu"
  <2>1. f \in {[ids |-> i, t |-> TokensIn[i], of |-> "work", n |-> n] :
                  i \in IF n <= Works THEN {work[n]} ELSE {}}
    BY <1>6, <1>0 DEF NextForwards, Ups, Works
  <2>2. n <= Works /\ f = [ids |-> work[n], t |-> TokensIn[work[n]], of |-> "work", n |-> n]
    BY <2>1
  <2>3. work' = work /\ Works' = Works
    BY <1>2, <1>6 DEF Works
  <2>4. Forward(leg, at)' = f
    <3>1. at' - Ups(leg) = n
      BY <1>1, <1>0, <1>9, <1>10
    <3> QED BY <1>1, <1>10, <1>6, <2>2, <2>3, <3>1 DEF Forward
  <2>5. at' <= Ups(leg) + Works'
    BY <1>0, <1>1, <1>9, <2>2, <2>3
  <2> QED BY <1>1, <1>10, <1>2, <1>3, <1>6, <2>3, <2>4, <2>5
<1> QED
  BY <1>1, <1>4, <1>5, <1>6 DEF Leg

\* The run begins with the first leg, idle.
LEMMA RunBegins == CaptureInit => RunOK
<1> SUFFICES ASSUME CaptureInit PROVE RunOK
  OBVIOUS
<1>1. Len(opt.start["gpu"]) \in Nat
  BY CaptureAssumption, LenProperties DEF CaptureInit, Leg, Ups
<1>2. work \in Seq(Requests) /\ Works = 0
  BY DEF CaptureInit, Works
<1>3. NumLayers \in Nat /\ opt \in Options
  BY CaptureAssumption DEF CaptureInit
<1>4. 0 <= Ups("gpu")
  BY <1>1 DEF Ups
<1> QED
  BY <1>1, <1>2, <1>3, <1>4 DEF CaptureInit, RunOK, Leg

\* Every step keeps to it.
LEMMA RunGoesOn ==
    ASSUME RunOK, [CaptureNext]_captureVars
    PROVE  RunOK'
<1>1. CASE UNCHANGED captureVars
  BY <1>1 DEF captureVars, RunOK, Forward, Ups, Works
<1>2. CASE Begin
  <2>1. NumLayers \in Nat
    BY CaptureAssumption
  <2> QED BY <1>2, <2>1, BeginFacts DEF RunOK
<1>3. CASE Layer
  <2>1. pc = "layer" /\ layer < NumLayers /\ layer' = layer + 1
        /\ UNCHANGED <<opt, work, leg, at, pc, cur>>
    BY <1>3 DEF Layer
  <2>2. Forward(leg, at)' = Forward(leg, at) /\ Works' = Works /\ Ups(leg)' = Ups(leg)
    BY <2>1 DEF Forward, Ups, Works
  <2> QED BY <2>1, <2>2, CaptureAssumption DEF RunOK
<1>4. CASE Logits \/ Save \/ (\E r \in Ranks : Dump(r)) \/ Kill
  <2>1. /\ UNCHANGED <<opt, work, leg, at, cur, layer>>
        /\ pc # "idle" /\ pc' # "idle" /\ pc' \in {"save", "dump", "dead"}
        /\ pc' \in {"save", "dump"} => pc \in {"save", "dump"} \/ layer = NumLayers
    BY <1>4 DEF Logits, Save, Dump, Kill
  <2>2. Forward(leg, at)' = Forward(leg, at) /\ Works' = Works /\ Ups(leg)' = Ups(leg)
    BY <2>1 DEF Forward, Ups, Works
  <2> QED BY <2>1, <2>2 DEF RunOK
<1>5. CASE EndForward
  BY <1>5 DEF EndForward, RunOK, Ups, Works
<1>6. CASE EndLeg
  <2>1. /\ pc = "idle" /\ leg \in Leg /\ at' = 0 /\ UNCHANGED <<opt, work, pc, layer>>
        /\ leg' = IF leg = "gpu" THEN "cpu" ELSE "done"
    BY <1>6 DEF EndLeg, RunOK
  <2>2. Works' = Works /\ \A l \in Leg : Ups(l) \in Nat /\ Ups(l)' = Ups(l)
    BY <2>1, StartFacts DEF Ups, Works
  <2>3. leg' \in Leg => Ups(leg)' = Ups(leg')
    BY <2>1 DEF Ups
  <2> QED BY <2>1, <2>2, <2>3, StartFacts DEF RunOK, Leg
<1> QED
  BY <1>1, <1>2, <1>3, <1>4, <1>5, <1>6 DEF CaptureNext

-----------------------------------------------------------------------------
(* The request-bound taps: the one forward that they record.                 *)

\* A nonempty set of naturals has a least element: what the proofs use in
\* place of induction.
LEMMA LeastElement ==
    ASSUME NEW T \in SUBSET Nat, T # {}
    PROVE  \E x \in T : \A y \in T : x <= y
<1> DEFINE Lt == {p \in Nat \X Nat : p[1] < p[2]}
<1>1. OpToRel(<, Nat) = Lt
  BY Zenon DEF OpToRel
<1>2. IsWellFoundedOn(Lt, Nat)
  BY <1>1, NatLessThanWellFounded, Zenon
<1> HIDE DEF Lt
<1>3. PICK x \in T : \A y \in T : ~(<<y, x>> \in Lt)
  BY <1>2, WFMin, Zenon
<1>4. \A y \in T : ~(y < x)
  BY <1>3 DEF Lt
<1> QED
  BY <1>4

\* A forward has an index exactly when it is a prompt or taken for one, and the
\* index of a prompt is its own.
LEMMA IndexFacts ==
    ASSUME NEW f, f.ids \in DOMAIN TokensIn, f.t = TokensIn[f.ids]
    PROVE  /\ SeqIndex(f) = 0 <=> NoPrompt(f.ids)
           /\ f.ids \in ToSet(Frozen) => Frozen[SeqIndex(f)] = f.ids
<1> DEFINE same  == {i \in DOMAIN Frozen : Frozen[i] = f.ids}
           alike == {i \in DOMAIN Frozen : TokensIn[Frozen[i]] = f.t /\ f.ids \notin Constant}
           First(S) == CHOOSE i \in S : \A j \in S : i <= j
<1>1. SeqIndex(f) = IF same # {} THEN First(same) ELSE IF alike # {} THEN First(alike) ELSE 0
  BY DEF SeqIndex
<1>2. Frozen \in Seq(DOMAIN TokensIn)
  BY CaptureAssumption
<1>3. DOMAIN Frozen \in SUBSET (Nat \ {0})
  BY <1>2, LenProperties
<1>4. same \in SUBSET Nat /\ alike \in SUBSET Nat /\ 0 \notin same /\ 0 \notin alike
  BY <1>3
<1>5. (same # {} <=> f.ids \in ToSet(Frozen))
  BY DEF ToSet
<1>6. NoPrompt(f.ids) <=> same = {} /\ alike = {}
  BY <1>5 DEF NoPrompt
<1>7. ASSUME NEW S \in SUBSET Nat, S # {} PROVE First(S) \in S
  BY <1>7, LeastElement
<1>8. ASSUME same # {} PROVE SeqIndex(f) # 0 /\ Frozen[SeqIndex(f)] = f.ids
  <2>1. First(same) \in same
    BY <1>4, <1>7, <1>8
  <2> QED BY <1>1, <1>4, <1>8, <2>1
<1>9. ASSUME same = {}, alike # {} PROVE SeqIndex(f) # 0
  <2>1. First(alike) \in alike
    BY <1>4, <1>7, <1>9
  <2> QED BY <1>1, <1>4, <1>9, <2>1
<1>10. ASSUME same = {}, alike = {} PROVE SeqIndex(f) = 0
  BY <1>1, <1>10
<1> HIDE DEF same, alike, First
<1> QED
  BY <1>5, <1>6, <1>8, <1>9, <1>10

\* What n layers of forward w of the work leave in a file.
TensorsOf(w, n) == [l \in 0..(n - 1) |-> [of |-> "work", n |-> w, layer |-> l]]

\* b has n layers of forward w, with its tokens and the prompt's number.
Recorded(b, w, n, active, done) ==
    /\ b = [active |-> active, done |-> done, seq |-> b.seq, ids |-> work[w],
            main |-> TensorsOf(w, n), moetopk |-> TensorsOf(w, n),
            attnout |-> TensorsOf(w, n), qfinal |-> TensorsOf(w, n)]
    /\ work[w] \in ToSet(Frozen) => Frozen[b.seq] = work[w]

\* Forward w is the first of the work that is a prompt or taken for one.
FirstPrompt(w) ==
    /\ w \in DOMAIN work /\ ~NoPrompt(work[w])
    /\ \A v \in 1..(w - 1) : NoPrompt(work[v])

\* Nothing is bound while nothing of the work was a prompt; else the first
\* prompt is, with the layers it has come to, or all of them when it is over.
BindOK ==
    \/ /\ bound = Unbound
       /\ leg \in Leg /\ opt.family = "dsv4" =>
             \A w \in DOMAIN work : w <= at - Ups(leg) => NoPrompt(work[w])
    \/ \E w : /\ leg \in Leg /\ FirstPrompt(w)
              /\ \/ /\ pc \in {"layer", "save", "dead"} /\ w = at - Ups(leg)
                    /\ Recorded(bound, w, layer, TRUE, FALSE)
                 \/ Recorded(bound, w, NumLayers, FALSE, TRUE)

\* Nothing is bound when a leg begins.
LEMMA BindBegins == CaptureInit => BindOK
  BY DEF CaptureInit, BindOK

\* A step that leaves the taps and the place.
LEMMA BindStays ==
    ASSUME RunOK, BindOK, UNCHANGED <<opt, work, leg, at, layer, bound>>,
           pc = "layer" => pc' \in {"layer", "save", "dead"},
           pc \in {"save", "dead"} => pc' \in {"save", "dead"} \/ ~bound.active
    PROVE  BindOK'
<1>1. Ups(leg)' = Ups(leg)
  BY DEF Ups
<1>2. \A w : (FirstPrompt(w)' <=> FirstPrompt(w))
  BY DEF FirstPrompt
<1>3. \A w, n, a, d : (Recorded(bound, w, n, a, d)' <=> Recorded(bound, w, n, a, d))
  BY DEF Recorded, TensorsOf
<1>4. CASE bound = Unbound
  BY <1>1, <1>4 DEF BindOK, Recorded, Unbound
<1>5. CASE bound # Unbound
  <2>1. PICK w : /\ leg \in Leg /\ FirstPrompt(w)
                 /\ \/ /\ pc \in {"layer", "save", "dead"} /\ w = at - Ups(leg)
                       /\ Recorded(bound, w, layer, TRUE, FALSE)
                    \/ Recorded(bound, w, NumLayers, FALSE, TRUE)
    BY <1>5 DEF BindOK
  <2>2. CASE Recorded(bound, w, NumLayers, FALSE, TRUE)
    BY <1>2, <1>3, <2>1, <2>2 DEF BindOK
  <2>3. CASE pc \in {"layer", "save", "dead"} /\ w = at - Ups(leg) /\ Recorded(bound, w, layer, TRUE, FALSE)
    <3>1. bound.active
      BY <2>3 DEF Recorded
    <3>2. pc' \in {"layer", "save", "dead"}
      BY <2>3, <3>1
    <3> QED BY <1>1, <1>2, <1>3, <2>1, <2>3, <3>2 DEF BindOK
  <2> QED BY <2>1, <2>2, <2>3
<1> QED
  BY <1>4, <1>5

\* A forward begins: it is bound to if it is the first prompt of the work.
LEMMA BindForward ==
    ASSUME RunOK, BindOK, Begin
    PROVE  BindOK'
<1>1. /\ leg \in Leg /\ pc = "idle" /\ pc' = "layer" /\ at' = at + 1 /\ layer' = 0
      /\ work' \in Seq(Requests) /\ Works' >= Works
      /\ \A w \in DOMAIN work : work'[w] = work[w] /\ w \in DOMAIN work'
      /\ leg = "gpu" => Works' = IF at' <= Ups(leg) THEN 0 ELSE at' - Ups(leg)
      /\ leg = "cpu" => at' <= Ups(leg) + Works' /\ work' = work
      /\ cur' = Forward(leg, at)'
      /\ UNCHANGED <<opt, leg>> /\ Ups(leg)' = Ups(leg)
  BY BeginFacts
<1>2. bound' = IF opt.family = "dsv4" THEN Activate(cur') ELSE bound
  BY DEF Begin
<1>3. /\ DOMAIN work' = 1..Works' /\ Works' \in Nat /\ \A w \in DOMAIN work' : work'[w] \in DOMAIN TokensIn
      /\ Ups(leg) \in Nat /\ at \in Nat
      /\ \A i \in 1..Ups(leg) : opt.start[leg][i] \in DOMAIN TokensIn /\ NoPrompt(opt.start[leg][i])
      /\ DOMAIN work = 1..Works /\ Works \in Nat
  <2>1. DOMAIN work' = 1..Works' /\ Works' \in Nat /\ \A w \in DOMAIN work' : work'[w] \in Requests
    BY <1>1, LenProperties, ElementOfSeq DEF Works
  <2>2. Requests \subseteq DOMAIN TokensIn
    BY CaptureAssumption
  <2> QED BY <1>1, <2>1, <2>2, StartFacts DEF RunOK
<1>4. PICK n \in Int : n = at' - Ups(leg) /\ n = at - Ups(leg) + 1
  BY <1>1, <1>3
<1>14. n <= Works' \/ n <= 0
  BY <1>1, <1>3, <1>4 DEF Leg
<1>15. \A w \in DOMAIN work' : w <= n - 1 => w \in DOMAIN work /\ w <= at - Ups(leg)
  <2>1. CASE leg = "cpu"
    BY <1>1, <1>3, <1>4, <2>1
  <2>2. CASE leg = "gpu"
    <3>1. Works = IF at <= Ups(leg) THEN 0 ELSE at - Ups(leg)
      BY <2>2 DEF RunOK
    <3> QED BY <1>1, <1>3, <1>4, <3>1
  <2> QED BY <1>1, <2>1, <2>2 DEF Leg
<1>5. CASE bound # Unbound
  <2>1. PICK w : FirstPrompt(w) /\ Recorded(bound, w, NumLayers, FALSE, TRUE)
    BY <1>1, <1>5 DEF BindOK
  <2>2. bound.done /\ bound' = bound
    <3>1. bound.done
      BY <2>1 DEF Recorded
    <3> QED BY <1>2, <3>1 DEF Activate
  <2>3. FirstPrompt(w)'
    <3>1. w \in 1..Works /\ w \in DOMAIN work
      BY <1>3, <2>1 DEF FirstPrompt
    <3>2. \A v \in 1..(w - 1) : v \in DOMAIN work
      BY <1>3, <3>1
    <3>3. w \in DOMAIN work' /\ work'[w] = work[w] /\ \A v \in 1..(w - 1) : work'[v] = work[v]
      BY <1>1, <3>1, <3>2
    <3> QED BY <2>1, <3>3 DEF FirstPrompt
  <2>4. work'[w] = work[w]
    BY <1>1, <2>1 DEF FirstPrompt
  <2>5. Recorded(bound, w, NumLayers, FALSE, TRUE)'
    BY <2>1, <2>2, <2>4 DEF Recorded, TensorsOf
  <2> QED BY <1>1, <2>3, <2>5 DEF BindOK
<1>6. CASE bound = Unbound /\ opt.family # "dsv4"
  BY <1>1, <1>2, <1>6 DEF BindOK
<1>7. CASE bound = Unbound /\ opt.family = "dsv4"
  <2>1. \A w \in DOMAIN work : w <= at - Ups(leg) => NoPrompt(work[w])
    BY <1>1, <1>7 DEF BindOK, Recorded, Unbound
  <2>2. \A w \in DOMAIN work' : w <= n - 1 => NoPrompt(work'[w])
    BY <1>1, <1>15, <2>1
  <2>3. ASSUME SeqIndex(cur') = 0 PROVE bound' = Unbound
    BY <1>2, <1>7, <2>3 DEF Activate
  <2>4. CASE n <= 0
    <3>1. cur'.ids = opt.start[leg][at'] /\ cur'.t = TokensIn[opt.start[leg][at']]
      <4>1. cur' = [ids |-> opt.start[leg][at'], t |-> TokensIn[opt.start[leg][at']], of |-> "start", n |-> at']
        BY <1>1, <1>4, <2>4 DEF Forward
      <4> QED BY <4>1
    <3>2. at' \in 1..Ups(leg)
      BY <1>1, <1>3, <1>4, <2>4
    <3>3. cur'.ids \in DOMAIN TokensIn /\ NoPrompt(cur'.ids) /\ cur'.t = TokensIn[cur'.ids]
      BY <1>3, <3>1, <3>2
    <3>4. SeqIndex(cur') = 0
      <4>1. PICK f : f = cur'
        OBVIOUS
      <4>2. SeqIndex(f) = 0
        BY <3>3, <4>1, IndexFacts
      <4> QED BY <4>1, <4>2
    <3>5. \A w \in DOMAIN work' : ~(w <= n)
      BY <1>3, <2>4
    <3>6. at' - Ups(leg)' = n
      BY <1>1, <1>4
    <3> QED BY <2>3, <3>4, <3>5, <3>6 DEF BindOK
  <2>5. CASE n > 0
    <3>1. cur'.ids = work'[n] /\ cur'.t = TokensIn[work'[n]]
      <4>1. cur' = [ids |-> work'[n], t |-> TokensIn[work'[n]], of |-> "work", n |-> n]
        BY <1>1, <1>4, <2>5 DEF Forward
      <4> QED BY <4>1
    <3>2. n \in DOMAIN work'
      BY <1>3, <1>14, <2>5
    <3>3. cur'.ids \in DOMAIN TokensIn /\ cur'.t = TokensIn[cur'.ids]
      BY <1>3, <3>1, <3>2
    <3>4. /\ SeqIndex(cur') = 0 <=> NoPrompt(work'[n])
          /\ work'[n] \in ToSet(Frozen) => Frozen[SeqIndex(cur')] = work'[n]
      <4>1. PICK f : f = cur'
        OBVIOUS
      <4>2. /\ SeqIndex(f) = 0 <=> NoPrompt(f.ids)
            /\ f.ids \in ToSet(Frozen) => Frozen[SeqIndex(f)] = f.ids
        BY <3>3, <4>1, IndexFacts
      <4> QED BY <3>1, <4>1, <4>2
    <3>6. at' - Ups(leg)' = n
      BY <1>1, <1>4
    <3>7. CASE NoPrompt(work'[n])
      <4>1. \A w \in DOMAIN work' : w <= n => NoPrompt(work'[w])
        <5>1. \A w \in DOMAIN work' : w <= n => w = n \/ w <= n - 1
          BY <1>3, <1>4
        <5> QED BY <2>2, <3>7, <5>1
      <4> QED BY <2>3, <3>4, <3>6, <3>7, <4>1 DEF BindOK
    <3>8. CASE ~NoPrompt(work'[n])
      <4>1. FirstPrompt(n)'
        <5>1. \A v \in 1..(n - 1) : v \in DOMAIN work' /\ v <= n - 1
          BY <1>3, <3>2
        <5> QED BY <2>2, <3>2, <3>8, <5>1 DEF FirstPrompt
      <4>2. bound' = [Unbound EXCEPT !.active = TRUE, !.seq = SeqIndex(cur'), !.ids = cur'.ids, !.main = Empty]
        BY <1>2, <1>7, <3>4, <3>8 DEF Activate, Unbound
      <4>3. TensorsOf(n, 0) = Empty
        BY DEF TensorsOf, Empty
      <4>4. bound' = [active |-> TRUE, done |-> FALSE, seq |-> SeqIndex(cur'), ids |-> work'[n],
                      main |-> Empty, moetopk |-> Empty, attnout |-> Empty, qfinal |-> Empty]
        BY <3>1, <4>2 DEF Unbound
      <4>5. Recorded(bound, n, 0, TRUE, FALSE)'
        BY <3>4, <4>3, <4>4 DEF Recorded, TensorsOf, Empty
      <4> QED BY <1>1, <3>6, <4>1, <4>5 DEF BindOK
    <3> QED BY <3>7, <3>8
  <2> QED BY <1>4, <2>4, <2>5
<1> QED
  BY <1>5, <1>6, <1>7

\* Every step keeps to it.
LEMMA BindGoesOn ==
    ASSUME RunOK, BindOK, [CaptureNext]_captureVars
    PROVE  BindOK'
<1>1. CASE UNCHANGED captureVars
  BY <1>1, BindStays DEF captureVars
<1>2. CASE Begin
  BY <1>2, BindForward
<1>3. CASE Layer
  <2>1. /\ pc = "layer" /\ layer < NumLayers /\ layer' = layer + 1 /\ bound' = BoundLayer
        /\ UNCHANGED <<opt, work, leg, at, pc, cur>>
    BY <1>3 DEF Layer
  <2>2. leg \in Leg /\ layer \in Nat /\ cur = Forward(leg, at) /\ at \in Nat /\ Ups(leg) \in Nat
    BY <2>1, StartFacts, CaptureAssumption DEF RunOK
  <2>3. Ups(leg)' = Ups(leg) /\ \A w : (FirstPrompt(w)' <=> FirstPrompt(w))
    BY <2>1 DEF Ups, FirstPrompt
  <2>4. CASE bound = Unbound
    <3>1. bound' = Unbound
      BY <2>1, <2>4 DEF BoundLayer, Unbound
    <3> QED BY <2>1, <2>3, <2>4, <3>1 DEF BindOK, Recorded, Unbound
  <2>5. CASE bound # Unbound
    <3>1. PICK w : /\ FirstPrompt(w)
                   /\ \/ w = at - Ups(leg) /\ Recorded(bound, w, layer, TRUE, FALSE)
                      \/ Recorded(bound, w, NumLayers, FALSE, TRUE)
      BY <2>5 DEF BindOK
    <3>2. CASE Recorded(bound, w, NumLayers, FALSE, TRUE)
      <4>1. bound' = bound
        BY <2>1, <3>2 DEF BoundLayer, Recorded
      <4>2. Recorded(bound, w, NumLayers, FALSE, TRUE)'
        BY <2>1, <3>2, <4>1 DEF Recorded, TensorsOf
      <4> QED BY <2>1, <2>2, <2>3, <3>1, <4>2 DEF BindOK
    <3>3. CASE w = at - Ups(leg) /\ Recorded(bound, w, layer, TRUE, FALSE)
      <4>1. Origin(layer) = [of |-> "work", n |-> w, layer |-> layer]
        <5>1. w \in 1..Works
          BY <3>1, StartFacts DEF FirstPrompt
        <5>2. cur.of = "work" /\ cur.n = w
          BY <2>2, <3>3, <5>1, StartFacts DEF Forward
        <5> QED BY <5>2 DEF Origin
      <4> DEFINE put(f) == [l \in DOMAIN f \cup {layer} |-> IF l = layer THEN Origin(l) ELSE f[l]]
      <4>2. put(TensorsOf(w, layer)) = TensorsOf(w, layer + 1)
        <5>1. 0..(layer - 1) \cup {layer} = 0..((layer + 1) - 1)
          BY <2>2
        <5>2. DOMAIN TensorsOf(w, layer) = 0..(layer - 1)
          BY DEF TensorsOf
        <5>3. put(TensorsOf(w, layer)) =
                 [l \in 0..((layer + 1) - 1) |-> IF l = layer THEN Origin(l) ELSE TensorsOf(w, layer)[l]]
          BY <5>1, <5>2
        <5>4. ASSUME NEW l \in 0..((layer + 1) - 1)
              PROVE  (IF l = layer THEN Origin(l) ELSE TensorsOf(w, layer)[l]) = [of |-> "work", n |-> w, layer |-> l]
          <6>1. l = layer \/ l \in 0..(layer - 1)
            BY <5>1
          <6> QED BY <4>1, <6>1 DEF TensorsOf
        <5> QED BY <5>3, <5>4 DEF TensorsOf
      <4>3. PICK q, s, x : bound = [active |-> TRUE, done |-> FALSE, seq |-> s, ids |-> x,
                              main |-> q, moetopk |-> q, attnout |-> q, qfinal |-> q]
                         /\ q = TensorsOf(w, layer) /\ s = bound.seq /\ x = work[w]
        BY <3>3 DEF Recorded
      <4>4. bound' = [bound EXCEPT !.main = put(@), !.moetopk = put(@), !.attnout = put(@), !.qfinal = put(@)]
        BY <2>1, <4>3 DEF BoundLayer
      <4> HIDE DEF put
      <4>5. bound' = [active |-> TRUE, done |-> FALSE, seq |-> s, ids |-> x,
                      main |-> put(q), moetopk |-> put(q), attnout |-> put(q), qfinal |-> put(q)]
        BY <4>3, <4>4
      <4>7. PICK m : m = layer'
        OBVIOUS
      <4>6. Recorded(bound, w, m, TRUE, FALSE)'
        <5>1. put(q) = TensorsOf(w, m)
          BY <2>1, <4>2, <4>3, <4>7
        <5>2. TensorsOf(w, m)' = TensorsOf(w, m)
          BY DEF TensorsOf
        <5>3. work[w] \in ToSet(Frozen) => Frozen[bound.seq] = work[w]
          BY <3>3 DEF Recorded
        <5>4. bound'.seq = s /\ work'[w] = x
          BY <2>1, <4>3, <4>5
        <5> QED BY <4>3, <4>5, <5>1, <5>2, <5>3, <5>4 DEF Recorded
      <4> QED BY <2>1, <2>2, <2>3, <3>1, <3>3, <4>6, <4>7 DEF BindOK
    <3> QED BY <3>1, <3>2, <3>3
  <2> QED BY <2>4, <2>5
<1>4. CASE Logits \/ Kill
  <2>1. /\ UNCHANGED <<opt, work, leg, at, layer, bound>> /\ pc' \in {"save", "dead"}
        /\ pc \in {"save", "dead"} => pc' = "dead"
    BY <1>4 DEF Logits, Kill
  <2> QED BY <2>1, BindStays
<1>5. CASE Save
  <2>1. /\ pc = "save" /\ pc' = "dump" /\ layer = NumLayers /\ bound' = BoundEnd
        /\ UNCHANGED <<opt, work, leg, at, layer>>
    BY <1>5 DEF Save, RunOK
  <2>2. Ups(leg)' = Ups(leg) /\ \A w : (FirstPrompt(w)' <=> FirstPrompt(w))
    BY <2>1 DEF Ups, FirstPrompt
  <2>3. CASE bound = Unbound
    <3>1. bound' = Unbound
      BY <2>1, <2>3 DEF BoundEnd, Unbound
    <3> QED BY <2>1, <2>2, <2>3, <3>1 DEF BindOK, Recorded, Unbound
  <2>4. CASE bound # Unbound
    <3>1. PICK w : /\ leg \in Leg /\ FirstPrompt(w)
                   /\ Recorded(bound, w, NumLayers, TRUE, FALSE) \/ Recorded(bound, w, NumLayers, FALSE, TRUE)
      BY <2>1, <2>4 DEF BindOK
    <3>2. PICK a \in BOOLEAN : Recorded(bound, w, NumLayers, a, ~a)
      BY <3>1
    <3>3. PICK q, s, x : bound = [active |-> a, done |-> ~a, seq |-> s, ids |-> x,
                               main |-> q, moetopk |-> q, attnout |-> q, qfinal |-> q]
                          /\ q = TensorsOf(w, NumLayers) /\ s = bound.seq /\ x = work[w]
      BY <3>2 DEF Recorded
    <3>4. bound' = [bound EXCEPT !.active = FALSE, !.done = TRUE]
      BY <2>1, <3>3 DEF BoundEnd
    <3>5. bound' = [active |-> FALSE, done |-> TRUE, seq |-> s, ids |-> x,
                    main |-> q, moetopk |-> q, attnout |-> q, qfinal |-> q]
      BY <3>3, <3>4
    <3>6. Recorded(bound, w, NumLayers, FALSE, TRUE)'
      <4>1. TensorsOf(w, NumLayers)' = TensorsOf(w, NumLayers)
        BY DEF TensorsOf
      <4>2. work[w] \in ToSet(Frozen) => Frozen[bound.seq] = work[w]
        BY <3>2 DEF Recorded
      <4>3. bound'.seq = s /\ work'[w] = x
        BY <2>1, <3>3, <3>5
      <4> QED BY <3>3, <3>5, <4>1, <4>2, <4>3 DEF Recorded
    <3> QED BY <2>1, <2>2, <3>1, <3>6 DEF BindOK
  <2> QED BY <2>3, <2>4
<1>6. CASE (\E r \in Ranks : Dump(r)) \/ EndForward
  <2>1. /\ UNCHANGED <<opt, work, leg, at, layer, bound>> /\ pc = "dump"
    BY <1>6 DEF Dump, EndForward
  <2> QED BY <2>1, BindStays
<1>7. CASE EndLeg
  <2>1. bound' = Unbound /\ at' = 0 /\ UNCHANGED <<opt, work>> /\ leg' \in Leg \cup {"done"}
    BY <1>7 DEF EndLeg, Leg
  <2>2. ASSUME leg' \in Leg PROVE \A w \in DOMAIN work' : ~(w <= at' - Ups(leg)')
    <3>1. PICK g \in Leg : g = leg'
      BY <2>2
    <3>2. Ups(g)' = Ups(g) /\ Ups(g) \in Nat
      BY <2>1, StartFacts DEF Ups
    <3>3. Ups(leg)' = Ups(g)
      BY <3>1, <3>2
    <3> QED BY <2>1, <3>2, <3>3, StartFacts
  <2> QED BY <2>1, <2>2 DEF BindOK
<1> QED
  BY <1>1, <1>2, <1>3, <1>4, <1>5, <1>6, <1>7 DEF CaptureNext

\* What is bound is of layers that are tapped.
LEMMA BoundLayers ==
    ASSUME RunOK, BindOK, NEW f \in Files
    PROVE  DOMAIN bound[f] \subseteq LayersTapped
<1>1. layer \in 0..NumLayers /\ NumLayers \in Nat
  BY CaptureAssumption DEF RunOK
<1>2. CASE bound = Unbound
  BY <1>2 DEF Unbound, Empty, Files
<1>3. CASE \E w, n, a, d : n \in 0..NumLayers /\ Recorded(bound, w, n, a, d)
  <2>1. PICK w, n, a, d : n \in 0..NumLayers /\ Recorded(bound, w, n, a, d)
    BY <1>3
  <2>2. bound[f] = TensorsOf(w, n)
    BY <2>1 DEF Recorded, Files
  <2> QED BY <1>1, <2>1, <2>2 DEF TensorsOf, LayersTapped
<1>4. CASE bound # Unbound
  <2>1. PICK w : \/ Recorded(bound, w, layer, TRUE, FALSE)
                 \/ Recorded(bound, w, NumLayers, FALSE, TRUE)
    BY <1>4 DEF BindOK
  <2>2. NumLayers \in 0..NumLayers
    BY <1>1
  <2> QED BY <1>1, <1>3, <2>1, <2>2
<1> QED
  BY <1>2, <1>4

\* So the files are of the first prompt.
LEMMA BindTells == RunOK /\ BindOK => BoundToOnePrompt
<1> SUFFICES ASSUME RunOK, BindOK, bound.done PROVE BoundToOnePrompt
  BY DEF BoundToOnePrompt
<1>1. PICK w : FirstPrompt(w) /\ Recorded(bound, w, NumLayers, FALSE, TRUE)
  BY DEF BindOK, Recorded, Unbound
<1>2. \A f \in Files : bound[f] = [l \in LayersTapped |-> [of |-> "work", n |-> w, layer |-> l]]
  <2>1. \A f \in Files : bound[f] = TensorsOf(w, NumLayers)
    BY <1>1 DEF Recorded, Files
  <2> QED BY <2>1 DEF TensorsOf, LayersTapped
<1>3. bound.ids = work[w] /\ (work[w] \in ToSet(Frozen) => Frozen[bound.seq] = work[w])
  BY <1>1 DEF Recorded
<1> QED
  BY <1>1, <1>2, <1>3 DEF BoundToOnePrompt, FirstPrompt

-----------------------------------------------------------------------------
(* The keys of the full capture, in closed form.  The forwards of a leg are   *)
(* counted with the start-ups behind zero, so that e is the e-th of the work. *)

\* The tokens of forward e of leg g.
Tokens(g, e) == IF e <= 0 THEN TokensIn[opt.start[g][e + Ups(g)]] ELSE TokensIn[work[e]]

\* Forward e is a short prompt, or a decode step behind one; those before it.
Prompt(g, e) == Tokens(g, e) \in 2..16
Prompts(g, e) == {u \in (1 - Ups(g))..(e - 1) : Prompt(g, u)}
Step(g, e) == Tokens(g, e) = 1 /\ Prompts(g, e) # {}
Steps(g, e) == {u \in (1 - Ups(g))..(e - 1) : Step(g, u)}

\* The layer calls of a set of forwards.
LayersOf(S) == NumLayers * Cardinality(S)

\* The calls that the counters have behind y layers of forward e.
Calls(g, e, y) == y + LayersOf(IF Prompt(g, e) THEN Prompts(g, e) ELSE Steps(g, e))

\* The key that operator op gets at layer y of forward e, if it is tagged.
KeyAt(g, e, y, op) ==
    [pass |-> IF Prompt(g, e) THEN 0
              ELSE IF op \in {"hidden", "hcpost"} THEN 1 + Calls(g, e, y) \div Group ELSE 1,
     op   |-> op,
     n    |-> IF op = "invrope" THEN Calls(g, e, y) ELSE y]

\* Layer y of forward e of leg g records under key k; where it comes from.
Gives(g, e, y, k) ==
    (Prompt(g, e) \/ Step(g, e)) /\ \E op \in ToSet(LayerOps) : k = KeyAt(g, e, y, op)

OriginAt(g, e, y) ==
    IF e <= 0 THEN [of |-> "start", n |-> e + Ups(g), layer |-> y]
    ELSE [of |-> "work", n |-> e, layer |-> y]

\* Layer y of forward e is a layer of leg g, and comes before layer j of i.
Past(g, e, y, i, j) ==
    /\ e \in Int /\ e >= 1 - Ups(g) /\ y \in 0..(NumLayers - 1)
    /\ (e < i) \/ (e = i /\ y < j)

\* A dictionary holds what the layers before layer j of forward i give, each
\* key with the first that gives it.
FirstOK(g, K, i, j) ==
    /\ \A e, y, k : Past(g, e, y, i, j) /\ Gives(g, e, y, k) => k \in DOMAIN K
    /\ \A k \in DOMAIN K : k.op # "logits" =>
          \E e, y : /\ Past(g, e, y, i, j) /\ Gives(g, e, y, k)
                   /\ K[k] = OriginAt(g, e, y)
                   /\ \A u, v : Past(g, u, v, e, y) => ~Gives(g, u, v, k)

\* The sets of earlier forwards are finite, and grow by the forward itself.
LEMMA EarlierFacts ==
    ASSUME NEW g, NEW e \in Int, Ups(g) \in Nat
    PROVE  /\ IsFiniteSet(Prompts(g, e)) /\ IsFiniteSet(Steps(g, e))
           /\ e >= 1 - Ups(g) =>
                 /\ Prompts(g, e + 1) = Prompts(g, e) \cup (IF Prompt(g, e) THEN {e} ELSE {})
                 /\ Steps(g, e + 1) = Steps(g, e) \cup (IF Step(g, e) THEN {e} ELSE {})
           /\ e = 1 - Ups(g) => Prompts(g, e) = {} /\ Steps(g, e) = {}
           /\ e \notin Prompts(g, e) /\ e \notin Steps(g, e)
<1>1. IsFiniteSet((1 - Ups(g))..(e - 1))
  BY FS_Interval
<1>2. IsFiniteSet(Prompts(g, e)) /\ IsFiniteSet(Steps(g, e))
  BY <1>1, FS_Subset DEF Prompts, Steps
<1>3. ASSUME e >= 1 - Ups(g)
      PROVE  (1 - Ups(g))..((e + 1) - 1) = ((1 - Ups(g))..(e - 1)) \cup {e}
  BY <1>3
<1>4. e >= 1 - Ups(g) => Prompts(g, e + 1) = Prompts(g, e) \cup (IF Prompt(g, e) THEN {e} ELSE {})
  BY <1>3 DEF Prompts
<1>5. e >= 1 - Ups(g) => Steps(g, e + 1) = Steps(g, e) \cup (IF Step(g, e) THEN {e} ELSE {})
  BY <1>3 DEF Steps
<1>6. e = 1 - Ups(g) => Prompts(g, e) = {} /\ Steps(g, e) = {}
  BY DEF Prompts, Steps
<1>7. e \notin Prompts(g, e) /\ e \notin Steps(g, e)
  BY DEF Prompts, Steps
<1> QED
  BY <1>2, <1>4, <1>5, <1>6, <1>7

\* Layer calls of sets: one more forward, and a set that has one more.
LEMMA LayersFacts ==
    ASSUME NEW S, IsFiniteSet(S)
    PROVE  /\ LayersOf(S) \in Nat
           /\ LayersOf({}) = 0 /\ (LayersOf(S) = 0 \/ LayersOf(S) >= NumLayers)
           /\ \A x : x \notin S => LayersOf(S \cup {x}) = LayersOf(S) + NumLayers
           /\ \A T \in SUBSET S : LayersOf(T) <= LayersOf(S)
           /\ \A T \in SUBSET S, x \in S : x \notin T => LayersOf(T) + NumLayers <= LayersOf(S)
<1>1. NumLayers \in Nat \ {0}
  BY CaptureAssumption
<1>2. \A m \in Nat : NumLayers * m \in Nat /\ NumLayers * (m + 1) = NumLayers * m + NumLayers
  BY <1>1
<1>3. \A m, p \in Nat : m <= p => NumLayers * m <= NumLayers * p
  BY <1>1
<1>4. Cardinality(S) \in Nat
  BY FS_CardinalityType
<1>5. LayersOf(S) \in Nat /\ LayersOf({}) = 0
  BY <1>1, <1>2, <1>4, FS_EmptySet DEF LayersOf
<1>6. ASSUME NEW x, x \notin S PROVE LayersOf(S \cup {x}) = LayersOf(S) + NumLayers
  BY <1>2, <1>4, <1>6, FS_AddElement DEF LayersOf
<1>7. ASSUME NEW T \in SUBSET S PROVE LayersOf(T) <= LayersOf(S)
  <2>1. Cardinality(T) <= Cardinality(S) /\ Cardinality(T) \in Nat
    BY FS_Subset, FS_CardinalityType
  <2> QED BY <2>1, <1>3, <1>4 DEF LayersOf
<1>8. ASSUME NEW T \in SUBSET S, NEW x \in S, x \notin T
      PROVE  LayersOf(T) + NumLayers <= LayersOf(S)
  <2>1. IsFiniteSet(T) /\ Cardinality(T) \in Nat
    BY FS_Subset, FS_CardinalityType
  <2>2. Cardinality(T \cup {x}) = Cardinality(T) + 1
    BY <1>8, <2>1, FS_AddElement
  <2>3. Cardinality(T) + 1 <= Cardinality(S)
    <3>1. T \cup {x} \in SUBSET S
      OBVIOUS
    <3> QED BY <3>1, <2>2, FS_Subset
  <2>4. NumLayers * (Cardinality(T) + 1) <= NumLayers * Cardinality(S)
    BY <1>3, <1>4, <2>1, <2>3
  <2> QED BY <2>4, <1>2, <2>1 DEF LayersOf
<1>9. LayersOf(S) = 0 \/ LayersOf(S) >= NumLayers
  <2>1. CASE S = {}
    BY <1>5, <2>1
  <2>2. CASE S # {}
    <3>1. PICK x \in S : TRUE
      BY <2>2
    <3>2. LayersOf({}) + NumLayers <= LayersOf(S)
      BY <1>8, <3>1
    <3> QED BY <3>2, <1>1, <1>5
  <2> QED BY <2>1, <2>2
<1> QED
  BY <1>5, <1>6, <1>7, <1>8, <1>9

\* A forward before another: what was before it, and it itself.
LEMMA EarlierGrow ==
    ASSUME NEW g, NEW e \in Int, NEW i \in Int, Ups(g) \in Nat, 1 - Ups(g) <= e, e < i
    PROVE  /\ Prompts(g, e) \subseteq Prompts(g, i) /\ Steps(g, e) \subseteq Steps(g, i)
           /\ LayersOf(Steps(g, e)) <= LayersOf(Steps(g, i))
           /\ Prompt(g, e) => /\ Prompts(g, i) # {}
                              /\ LayersOf(Prompts(g, e)) + NumLayers <= LayersOf(Prompts(g, i))
           /\ Step(g, e) => /\ Steps(g, i) # {}
                            /\ LayersOf(Steps(g, e)) + NumLayers <= LayersOf(Steps(g, i))
<1>1. (1 - Ups(g))..(e - 1) \subseteq (1 - Ups(g))..(i - 1) /\ e \in (1 - Ups(g))..(i - 1)
  OBVIOUS
<1>2. Prompts(g, e) \subseteq Prompts(g, i) /\ (Prompt(g, e) => e \in Prompts(g, i))
  BY <1>1 DEF Prompts
<1>3. Steps(g, e) \subseteq Steps(g, i) /\ (Step(g, e) => e \in Steps(g, i))
  BY <1>1 DEF Steps
<1>4. /\ IsFiniteSet(Prompts(g, i)) /\ IsFiniteSet(Steps(g, i))
      /\ e \notin Prompts(g, e) /\ e \notin Steps(g, e)
  BY EarlierFacts
<1>5. LayersOf(Steps(g, e)) <= LayersOf(Steps(g, i))
  BY <1>3, <1>4, LayersFacts
<1>6. ASSUME Prompt(g, e)
      PROVE  LayersOf(Prompts(g, e)) + NumLayers <= LayersOf(Prompts(g, i))
  BY <1>2, <1>4, <1>6, LayersFacts
<1>7. ASSUME Step(g, e)
      PROVE  LayersOf(Steps(g, e)) + NumLayers <= LayersOf(Steps(g, i))
  BY <1>3, <1>4, <1>7, LayersFacts
<1> QED
  BY <1>2, <1>3, <1>5, <1>6, <1>7

\* Division by the size of a group.
LEMMA GroupFacts ==
    /\ NumLayers \in Nat \ {0} /\ NumLayers <= Group
    /\ \A x \in Nat : x \div Group \in Nat /\ (x < Group => x \div Group = 0)
    /\ \A x, z \in Nat : x <= z => x \div Group <= z \div Group
<1>1. Group \in Nat \ {0} /\ NumLayers \in Nat \ {0} /\ NumLayers <= Group
  BY CaptureAssumption
<1>2. \A x \in Nat : x \div Group \in Nat /\ (x < Group => x \div Group = 0)
  BY <1>1
<1>3. ASSUME NEW x \in Nat, NEW z \in Nat, x <= z PROVE x \div Group <= z \div Group
  BY <1>1, <1>3
<1> QED
  BY <1>1, <1>2, <1>3

\* The operators of a family; only DSV4 counts inverse RoPE calls.
LEMMA OpsFacts ==
    /\ opt.family = "glm" => ToSet(LayerOps) = {"hcpost", "hidden"}
    /\ opt.family # "glm" => ToSet(LayerOps) = {"qcore", "acore", "invrope", "attn", "moe", "hidden"}
<1>1. ToSet(<<"hcpost", "hidden">>) = {"hcpost", "hidden"}
  BY DEF ToSet
<1>2. ToSet(<<"qcore", "acore", "invrope", "attn", "moe", "hidden">>)
        = {"qcore", "acore", "invrope", "attn", "moe", "hidden"}
  BY DEF ToSet
<1> QED
  BY <1>1, <1>2 DEF LayerOps, LayerOpsGlm

\* What the counters hold when y layers of forward e are done.
CountOK(e, y) ==
    /\ st \in [seen : BOOLEAN, dc : Nat, irc : [{0, 1} -> Nat]]
    /\ st.seen <=> Prompts(leg, e) # {} \/ (Prompt(leg, e) /\ y > 0)
    /\ st.dc = LayersOf(Steps(leg, e)) + (IF Step(leg, e) THEN y ELSE 0)
    /\ opt.family = "dsv4" =>
          /\ st.irc[0] = LayersOf(Prompts(leg, e)) + (IF Prompt(leg, e) THEN y ELSE 0)
          /\ st.irc[1] = st.dc

\* The forward this leg is in, or comes to, and the layers of it that are done.
Place == IF pc = "idle" THEN at - Ups(leg) + 1 ELSE at - Ups(leg)
Depth == IF pc = "idle" THEN 0 ELSE layer

\* The work up to layer j of forward i is made up.
Known(i, j) == i <= Works \/ (i <= Works + 1 /\ j = 0)

\* The dictionary and the counters of the leg that runs, and the dictionaries
\* in the files.
KeysOK ==
    /\ leg \in Leg => CountOK(Place, Depth) /\ FirstOK(leg, cap, Place, Depth)
    /\ leg \notin Leg => cap = Empty /\ st = Start
    /\ \A k \in DOMAIN cap : k.op = "logits" => k.pass = 0 /\ cap[k] \in OriginType
    /\ \A g \in Leg : \E i \in Int, j \in Nat : Known(i, j) /\ FirstOK(g, saved[g].keys, i, j)

\* One layer more: its keys are put in, unless they are there.
LEMMA FirstLayer ==
    ASSUME NEW g, NEW i \in Int, NEW j \in 0..(NumLayers - 1), NEW K, NEW M, Ups(g) \in Nat,
           1 - Ups(g) <= i, FirstOK(g, K, i, j),
           \A k : k \in DOMAIN M <=> k \in DOMAIN K \/ Gives(g, i, j, k),
           \A k \in DOMAIN M : M[k] = IF k \in DOMAIN K THEN K[k] ELSE OriginAt(g, i, j)
    PROVE  FirstOK(g, M, i, j + 1)
<1>1. NumLayers \in Nat
  BY CaptureAssumption
<1>2. \A e, y : Past(g, e, y, i, j + 1) <=> Past(g, e, y, i, j) \/ (e = i /\ y = j)
  BY <1>1 DEF Past
<1>3. ASSUME NEW e, NEW y, NEW k, Past(g, e, y, i, j + 1), Gives(g, e, y, k) PROVE k \in DOMAIN M
  BY <1>2, <1>3 DEF FirstOK
<1>4. ASSUME NEW k \in DOMAIN M, k.op # "logits"
      PROVE  \E e, y : /\ Past(g, e, y, i, j + 1) /\ Gives(g, e, y, k)
                      /\ M[k] = OriginAt(g, e, y)
                      /\ \A u, v : Past(g, u, v, e, y) => ~Gives(g, u, v, k)
  <2>1. CASE k \in DOMAIN K
    <3>1. PICK e, y : /\ Past(g, e, y, i, j) /\ Gives(g, e, y, k)
                      /\ K[k] = OriginAt(g, e, y)
                      /\ \A u, v : Past(g, u, v, e, y) => ~Gives(g, u, v, k)
      BY <2>1, <1>4 DEF FirstOK
    <3> QED BY <3>1, <2>1, <1>2
  <2>2. CASE k \notin DOMAIN K
    <3>1. Gives(g, i, j, k) /\ M[k] = OriginAt(g, i, j)
      BY <2>2
    <3>2. \A u, v : Past(g, u, v, i, j) => ~Gives(g, u, v, k)
      BY <2>2 DEF FirstOK
    <3> QED BY <3>1, <3>2, <1>2
  <2> QED BY <2>1, <2>2
<1> QED
  BY <1>3, <1>4 DEF FirstOK

\* The forward after all layers of one is the next.
LEMMA FirstNext ==
    ASSUME NEW g, NEW i \in Int, NEW K
    PROVE  FirstOK(g, K, i, NumLayers) <=> FirstOK(g, K, i + 1, 0)
<1>1. NumLayers \in Nat
  BY CaptureAssumption
<1>2. \A e, y : Past(g, e, y, i, NumLayers) <=> Past(g, e, y, i + 1, 0)
  BY <1>1 DEF Past
<1> QED
  BY <1>2 DEF FirstOK

\* Logits are no business of the other keys.
LEMMA FirstLogits ==
    ASSUME NEW g, NEW i, NEW j, NEW K, NEW M, FirstOK(g, K, i, j),
           \A k \in DOMAIN K : k \in DOMAIN M /\ M[k] = K[k],
           \A k \in DOMAIN M : k \notin DOMAIN K => k.op = "logits"
    PROVE  FirstOK(g, M, i, j)
<1>1. \A e, y, k : Past(g, e, y, i, j) /\ Gives(g, e, y, k) => k \in DOMAIN M
  BY DEF FirstOK
<1>2. \A k \in DOMAIN M : k.op # "logits" => k \in DOMAIN K /\ M[k] = K[k]
  OBVIOUS
<1> QED
  BY <1>1, <1>2 DEF FirstOK

\* Nothing is done before the first forward.
LEMMA FirstNone ==
    ASSUME NEW g, Ups(g) \in Nat
    PROVE  FirstOK(g, Empty, 1 - Ups(g), 0)
  BY DEF FirstOK, Past, Empty

\* Work that is added changes nothing of what is known.
LEMMA WorkGrows ==
    ASSUME UNCHANGED opt, NEW g, Ups(g) \in Nat, Works \in Nat, DOMAIN work = 1..Works,
           \A w \in DOMAIN work : work'[w] = work[w]
    PROVE  /\ Ups(g)' = Ups(g)
           /\ \A e \in Int : e <= Works =>
                 /\ Prompt(g, e)' <=> Prompt(g, e)
                 /\ Step(g, e)' <=> Step(g, e)
           /\ \A e \in Int : e <= Works + 1 =>
                 /\ Prompts(g, e)' = Prompts(g, e)
                 /\ Steps(g, e)' = Steps(g, e)
           /\ \A e \in Int : e <= Works => \A y, k : Gives(g, e, y, k)' <=> Gives(g, e, y, k)
           /\ \A e, y, i, j : Past(g, e, y, i, j)' <=> Past(g, e, y, i, j)
           /\ \A e, y : OriginAt(g, e, y)' = OriginAt(g, e, y)
<1>1. Ups(g)' = Ups(g)
  BY DEF Ups
<1>2. \A e \in Int : e <= Works => Tokens(g, e)' = Tokens(g, e)
  BY <1>1 DEF Tokens
<1>3. \A e \in Int : e <= Works => (Prompt(g, e)' <=> Prompt(g, e))
  BY <1>2 DEF Prompt
<1>4. ASSUME NEW e \in Int, e <= Works + 1 PROVE Prompts(g, e)' = Prompts(g, e)
  BY <1>1, <1>3, <1>4 DEF Prompts
<1>5. \A e \in Int : e <= Works => (Step(g, e)' <=> Step(g, e))
  BY <1>2, <1>4 DEF Step
<1>6. ASSUME NEW e \in Int, e <= Works + 1 PROVE Steps(g, e)' = Steps(g, e)
  BY <1>1, <1>5, <1>6 DEF Steps
<1>7. LayerOps' = LayerOps
  BY DEF LayerOps, LayerOpsGlm
<1>8. ASSUME NEW e \in Int, e <= Works, NEW y, NEW k PROVE Gives(g, e, y, k)' <=> Gives(g, e, y, k)
  <2>1. Calls(g, e, y)' = Calls(g, e, y)
    BY <1>3, <1>4, <1>6, <1>8 DEF Calls, LayersOf
  <2>2. \A op : KeyAt(g, e, y, op)' = KeyAt(g, e, y, op)
    BY <2>1, <1>3, <1>8 DEF KeyAt
  <2> QED BY <2>2, <1>3, <1>5, <1>7, <1>8 DEF Gives
<1>9. /\ \A e, y, i, j : Past(g, e, y, i, j)' <=> Past(g, e, y, i, j)
      /\ \A e, y : OriginAt(g, e, y)' = OriginAt(g, e, y)
  BY <1>1 DEF Past, OriginAt
<1> QED
  BY <1>1, <1>3, <1>4, <1>5, <1>6, <1>8, <1>9

\* So a dictionary that is right stays right.
LEMMA FirstGrows ==
    ASSUME UNCHANGED opt, NEW g, Ups(g) \in Nat, Works \in Nat, DOMAIN work = 1..Works,
           \A w \in DOMAIN work : work'[w] = work[w],
           NEW K, NEW i \in Int, NEW j \in Nat, Known(i, j), FirstOK(g, K, i, j)
    PROVE  FirstOK(g, K, i, j)'
<1>1. \A e, y : Past(g, e, y, i, j) => e \in Int /\ e <= Works
  BY CaptureAssumption DEF Past, Known
<1>2. \A e, y, k : Past(g, e, y, i, j) => (Gives(g, e, y, k)' <=> Gives(g, e, y, k))
  BY <1>1, WorkGrows
<1>3. /\ \A e, y, u, v : Past(g, e, y, u, v)' <=> Past(g, e, y, u, v)
      /\ \A e, y : OriginAt(g, e, y)' = OriginAt(g, e, y)
  BY WorkGrows
<1>4. \A e, y, u, v : Past(g, e, y, i, j) /\ Past(g, u, v, e, y) => Past(g, u, v, i, j)
  BY CaptureAssumption DEF Past
<1>5. \A e, y, k : Past(g, e, y, i, j)' /\ Gives(g, e, y, k)' => k \in DOMAIN K
  BY <1>2, <1>3 DEF FirstOK
<1>6. ASSUME NEW k \in DOMAIN K, k.op # "logits"
      PROVE  (\E e, y : /\ Past(g, e, y, i, j) /\ Gives(g, e, y, k)
                       /\ K[k] = OriginAt(g, e, y)
                       /\ \A u, v : Past(g, u, v, e, y) => ~Gives(g, u, v, k))'
  <2>1. PICK e, y : /\ Past(g, e, y, i, j) /\ Gives(g, e, y, k)
                    /\ K[k] = OriginAt(g, e, y)
                    /\ \A u, v : Past(g, u, v, e, y) => ~Gives(g, u, v, k)
    BY <1>6 DEF FirstOK
  <2>2. \A u, v : Past(g, u, v, e, y)' => ~Gives(g, u, v, k)'
    BY <2>1, <1>2, <1>3, <1>4
  <2> QED BY <2>1, <2>2, <1>2, <1>3
<1> QED
  BY <1>5, <1>6 DEF FirstOK

\* Where the leg is: a forward it has come to, known so far.
LEMMA PlaceFacts ==
    ASSUME RunOK, leg \in Leg
    PROVE  /\ Place \in Int /\ 1 - Ups(leg) <= Place /\ Depth \in Nat /\ Known(Place, Depth)
           /\ Ups(leg) \in Nat /\ Works \in Nat /\ DOMAIN work = 1..Works
           /\ pc # "idle" => /\ Place <= Works /\ cur.t = Tokens(leg, Place)
                             /\ \A y : Origin(y) = OriginAt(leg, Place, y)
<1>1. Ups(leg) \in Nat /\ Works \in Nat /\ DOMAIN work = 1..Works
  BY StartFacts
<1>2. at \in Nat /\ NumLayers \in Nat /\ layer \in 0..NumLayers
  BY CaptureAssumption DEF RunOK
<1>3. /\ leg = "gpu" /\ at <= Ups(leg) => Works = 0
      /\ leg = "gpu" /\ ~(at <= Ups(leg)) => Works = at - Ups(leg)
      /\ leg = "cpu" => at <= Ups(leg) + Works
      /\ pc # "idle" => at >= 1 /\ cur = Forward(leg, at)
  BY DEF RunOK
<1>4. Place \in Int /\ 1 - Ups(leg) <= Place /\ Depth \in Nat
  BY <1>1, <1>2, <1>3 DEF Place, Depth
<1>5. at - Ups(leg) <= Works
  BY <1>1, <1>2, <1>3 DEF Leg
<1>6. Known(Place, Depth)
  BY <1>1, <1>2, <1>5 DEF Known, Place, Depth
<1>7. ASSUME pc # "idle"
      PROVE  /\ Place <= Works /\ cur.t = Tokens(leg, Place)
             /\ \A y : Origin(y) = OriginAt(leg, Place, y)
  <2>1. Place = at - Ups(leg) /\ (at - Ups(leg)) + Ups(leg) = at
    BY <1>1, <1>2, <1>7 DEF Place
  <2>2. cur = Forward(leg, at)
    BY <1>3, <1>7
  <2>3. CASE at - Ups(leg) <= 0
    <3>1. cur = [ids |-> opt.start[leg][at], t |-> TokensIn[opt.start[leg][at]], of |-> "start", n |-> at]
      BY <2>2, <2>3 DEF Forward
    <3> QED BY <1>5, <2>1, <2>3, <3>1 DEF Tokens, Origin, OriginAt
  <2>4. CASE ~(at - Ups(leg) <= 0)
    <3>1. cur = [ids |-> work[at - Ups(leg)], t |-> TokensIn[work[at - Ups(leg)]],
                 of |-> "work", n |-> at - Ups(leg)]
      BY <2>2, <2>4 DEF Forward
    <3> QED BY <1>5, <2>1, <2>4, <3>1 DEF Tokens, Origin, OriginAt
  <2> QED BY <2>3, <2>4
<1> QED
  BY <1>1, <1>4, <1>6, <1>7

\* What the taps record is an origin.
LEMMA OriginFacts ==
    ASSUME RunOK, pc # "idle", leg \in Leg, NEW y \in 0..NumLayers
    PROVE  Origin(y) \in OriginType
<1>1. /\ Place \in Int /\ 1 - Ups(leg) <= Place /\ Ups(leg) \in Nat
      /\ Origin(y) = OriginAt(leg, Place, y)
  BY PlaceFacts
<1> QED
  BY <1>1 DEF OriginAt, OriginType

\* The dictionaries in the files, which a step leaves or makes the running one.
LEMMA FilesStay ==
    ASSUME RunOK, KeysOK, UNCHANGED <<opt, work>>, NEW e \in Int, NEW y \in Nat, NEW K,
           \A g \in Leg : (saved'[g].keys = saved[g].keys)
                         \/ (saved'[g].keys = K /\ Known(e, y) /\ FirstOK(g, K, e, y))
    PROVE  \A g \in Leg : (\E i \in Int, j \in Nat : Known(i, j) /\ FirstOK(g, saved[g].keys, i, j))'
<1> SUFFICES ASSUME NEW g \in Leg
             PROVE  (\E i \in Int, j \in Nat : Known(i, j) /\ FirstOK(g, saved[g].keys, i, j))'
  OBVIOUS
<1>1. PICK i \in Int, j \in Nat, M \in {saved'[g].keys} : Known(i, j) /\ FirstOK(g, M, i, j)
  BY DEF KeysOK
<1>2. Works \in Nat /\ DOMAIN work = 1..Works /\ Ups(g) \in Nat
  BY StartFacts
<1>3. FirstOK(g, M, i, j)'
  BY <1>1, <1>2, FirstGrows
<1>4. Known(i, j)'
  BY <1>1 DEF Known, Works
<1> QED
  BY <1>1, <1>3, <1>4

\* A step that changes neither the counters nor the work, nor goes to another
\* forward, keeps them; so does one that adds to the work.
LEMMA CountStays ==
    ASSUME UNCHANGED <<opt, leg, st>>, leg \in Leg, Ups(leg) \in Nat, Works \in Nat,
           DOMAIN work = 1..Works, \A w \in DOMAIN work : work'[w] = work[w],
           NEW e \in Int, NEW y \in Nat, Known(e, y), CountOK(e, y)
    PROVE  CountOK(e, y)'
<1>1. Prompts(leg, e)' = Prompts(leg, e) /\ Steps(leg, e)' = Steps(leg, e)
  <2>1. PICK g : g = leg
    OBVIOUS
  <2>2. Prompts(g, e)' = Prompts(g, e) /\ Steps(g, e)' = Steps(g, e)
    BY <2>1, WorkGrows DEF Known
  <2> QED BY <2>1, <2>2
<1>2. LayersOf(Steps(leg, e))' = LayersOf(Steps(leg, e)) /\ LayersOf(Prompts(leg, e))' = LayersOf(Prompts(leg, e))
  BY <1>1 DEF LayersOf
<1>3. CASE e <= Works
  <2>1. PICK g : g = leg
    OBVIOUS
  <2>2. (Prompt(g, e)' <=> Prompt(g, e)) /\ (Step(g, e)' <=> Step(g, e))
    BY <1>3, <2>1, WorkGrows
  <2>3. (Prompt(leg, e)' <=> Prompt(leg, e)) /\ (Step(leg, e)' <=> Step(leg, e))
    BY <2>1, <2>2
  <2> QED BY <2>3, <1>1, <1>2 DEF CountOK
<1>4. CASE y = 0
  <2>1. (IF Step(leg, e)' THEN y ELSE 0) = 0 /\ (IF Step(leg, e) THEN y ELSE 0) = 0
        /\ (IF Prompt(leg, e)' THEN y ELSE 0) = 0 /\ (IF Prompt(leg, e) THEN y ELSE 0) = 0
        /\ ~(y > 0)
    BY <1>4
  <2> QED BY <2>1, <1>1, <1>2 DEF CountOK
<1> QED
  BY <1>3, <1>4 DEF Known

\* The counters after all layers of a forward are those before the next.
LEMMA CountNext ==
    ASSUME leg \in Leg, Ups(leg) \in Nat, NEW e \in Int, 1 - Ups(leg) <= e, CountOK(e, NumLayers)
    PROVE  CountOK(e + 1, 0)
<1>0. NumLayers \in Nat \ {0}
  BY GroupFacts
<1>1. /\ IsFiniteSet(Prompts(leg, e)) /\ IsFiniteSet(Steps(leg, e))
      /\ Prompts(leg, e + 1) = Prompts(leg, e) \cup (IF Prompt(leg, e) THEN {e} ELSE {})
      /\ Steps(leg, e + 1) = Steps(leg, e) \cup (IF Step(leg, e) THEN {e} ELSE {})
      /\ e \notin Prompts(leg, e) /\ e \notin Steps(leg, e)
  BY EarlierFacts
<1>2. LayersOf(Prompts(leg, e)) \in Nat /\ LayersOf(Steps(leg, e)) \in Nat
  BY <1>1, LayersFacts
<1>3. LayersOf(Prompts(leg, e + 1)) = LayersOf(Prompts(leg, e)) + (IF Prompt(leg, e) THEN NumLayers ELSE 0)
  <2>1. CASE Prompt(leg, e)
    BY <1>1, <2>1, LayersFacts
  <2>2. CASE ~Prompt(leg, e)
    <3>1. Prompts(leg, e + 1) = Prompts(leg, e)
      BY <1>1, <2>2
    <3> QED BY <3>1, <1>2, <2>2
  <2> QED BY <2>1, <2>2
<1>4. LayersOf(Steps(leg, e + 1)) = LayersOf(Steps(leg, e)) + (IF Step(leg, e) THEN NumLayers ELSE 0)
  <2>1. CASE Step(leg, e)
    BY <1>1, <2>1, LayersFacts
  <2>2. CASE ~Step(leg, e)
    <3>1. Steps(leg, e + 1) = Steps(leg, e)
      BY <1>1, <2>2
    <3> QED BY <3>1, <1>2, <2>2
  <2> QED BY <2>1, <2>2
<1>5. PICK p \in Nat, q \in Nat : p = LayersOf(Prompts(leg, e + 1)) /\ q = LayersOf(Steps(leg, e + 1))
  BY <1>0, <1>2, <1>3, <1>4
<1>6. p + (IF Prompt(leg, e + 1) THEN 0 ELSE 0) = p /\ q + (IF Step(leg, e + 1) THEN 0 ELSE 0) = q
  BY <1>5
<1>7. Prompts(leg, e + 1) # {} <=> Prompts(leg, e) # {} \/ (Prompt(leg, e) /\ NumLayers > 0)
  BY <1>0, <1>1
<1>8. /\ st.seen <=> Prompts(leg, e + 1) # {}
      /\ st.dc = q
      /\ opt.family = "dsv4" => st.irc[0] = p /\ st.irc[1] = st.dc
  BY <1>3, <1>4, <1>5, <1>7 DEF CountOK
<1>9. st \in [seen : BOOLEAN, dc : Nat, irc : [{0, 1} -> Nat]] /\ ~(0 > 0)
  BY DEF CountOK
<1> QED
  BY <1>5, <1>6, <1>8, <1>9 DEF CountOK

\* What the taps of a layer find in the counters: whether the forward is tagged.
LEMMA TagFacts ==
    ASSUME RunOK, pc = "layer", CountOK(Place, layer)
    PROVE  /\ IsPrompt(cur) <=> Prompt(leg, Place)
           /\ cur.t = 1 /\ st.seen <=> Step(leg, Place)
           /\ ~(Prompt(leg, Place) /\ Step(leg, Place))
<1>1. leg \in Leg
  BY DEF RunOK
<1>2. cur.t = Tokens(leg, Place)
  BY <1>1, PlaceFacts
<1>3. IsPrompt(cur) <=> Prompt(leg, Place)
  BY <1>2 DEF IsPrompt, Prompt
<1>4. cur.t = 1 => ~Prompt(leg, Place)
  BY <1>2 DEF Prompt
<1>5. st.seen <=> Prompts(leg, Place) # {} \/ (Prompt(leg, Place) /\ layer > 0)
  BY DEF CountOK
<1> QED
  BY <1>2, <1>3, <1>4, <1>5 DEF Step

\* The counters behind one more layer.
LEMMA CountLayer ==
    ASSUME RunOK, pc = "layer", layer < NumLayers, st' = AfterLayer,
           UNCHANGED <<opt, work, leg, at, pc>>, CountOK(Place, layer),
           NEW e, e = Place, NEW y, y = layer + 1
    PROVE  CountOK(e, y)'
<1>1. leg \in Leg /\ layer \in Nat /\ y \in Nat /\ y > 0
  BY GroupFacts DEF RunOK
<1>2. /\ Prompts(leg, e)' = Prompts(leg, e) /\ Steps(leg, e)' = Steps(leg, e)
      /\ Prompt(leg, e)' <=> Prompt(leg, e)
      /\ Step(leg, e)' <=> Step(leg, e)
  <2>1. Ups(leg)' = Ups(leg)
    BY DEF Ups
  <2>2. \A u : Tokens(leg, u)' = Tokens(leg, u)
    BY <2>1 DEF Tokens
  <2>3. \A u : Prompt(leg, u)' <=> Prompt(leg, u)
    BY <2>2 DEF Prompt
  <2>4. \A u : Prompts(leg, u)' = Prompts(leg, u)
    BY <2>1, <2>3 DEF Prompts
  <2>5. \A u : Step(leg, u)' <=> Step(leg, u)
    BY <2>2, <2>4 DEF Step
  <2>6. \A u : Steps(leg, u)' = Steps(leg, u)
    BY <2>1, <2>5 DEF Steps
  <2> QED BY <2>3, <2>4, <2>5, <2>6
<1>3. LayersOf(Prompts(leg, e))' = LayersOf(Prompts(leg, e)) /\ LayersOf(Steps(leg, e))' = LayersOf(Steps(leg, e))
  BY <1>2 DEF LayersOf
<1>4. PICK p \in Nat, q \in Nat : p = LayersOf(Prompts(leg, e)) /\ q = LayersOf(Steps(leg, e))
  <2>1. e \in Int /\ Ups(leg) \in Nat
    BY <1>1, PlaceFacts
  <2> QED BY <2>1, EarlierFacts, LayersFacts
<1>5. /\ IsPrompt(cur) <=> Prompt(leg, e)
      /\ cur.t = 1 /\ st.seen <=> Step(leg, e)
      /\ ~(Prompt(leg, e) /\ Step(leg, e))
  BY TagFacts
<1>6. /\ st \in [seen : BOOLEAN, dc : Nat, irc : [{0, 1} -> Nat]]
      /\ st.seen <=> Prompts(leg, e) # {} \/ (Prompt(leg, e) /\ layer > 0)
      /\ st.dc = q + (IF Step(leg, e) THEN layer ELSE 0)
      /\ opt.family = "dsv4" =>
            /\ st.irc[0] = p + (IF Prompt(leg, e) THEN layer ELSE 0)
            /\ st.irc[1] = st.dc
  BY <1>4 DEF CountOK
<1>7. /\ 0 = Pass(cur, st, "invrope") <=> Prompt(leg, e)
      /\ 1 = Pass(cur, st, "invrope") <=> Step(leg, e)
  <2>1. CASE Prompt(leg, e)
    <3>1. Pass(cur, st, "invrope") = 0
      BY <1>5, <2>1 DEF Pass
    <3> QED BY <1>5, <2>1, <3>1
  <2>2. CASE ~Prompt(leg, e) /\ Step(leg, e)
    <3>1. Pass(cur, st, "invrope") = 1
      BY <1>5, <2>2 DEF Pass
    <3> QED BY <2>2, <3>1
  <2>3. CASE ~Prompt(leg, e) /\ ~Step(leg, e)
    <3>1. Pass(cur, st, "invrope") = -1
      BY <1>5, <2>3 DEF Pass
    <3> QED BY <2>3, <3>1
  <2> QED BY <2>1, <2>2, <2>3
<1>8. /\ st'.seen = (st.seen \/ Prompt(leg, e))
      /\ st'.dc = IF Step(leg, e) THEN st.dc + 1 ELSE st.dc
      /\ st'.irc = [r \in {0, 1} |-> IF r = Pass(cur, st, "invrope") /\ opt.family = "dsv4"
                                     THEN st.irc[r] + 1 ELSE st.irc[r]]
      /\ st' = [seen |-> st'.seen, dc |-> st'.dc, irc |-> st'.irc]
  <2>1. st' = [seen |-> st.seen \/ IsPrompt(cur),
               dc   |-> IF cur.t = 1 /\ st.seen THEN st.dc + 1 ELSE st.dc,
               irc  |-> [r \in {0, 1} |-> IF r = Pass(cur, st, "invrope") /\ opt.family = "dsv4"
                                          THEN st.irc[r] + 1 ELSE st.irc[r]]]
    BY DEF AfterLayer
  <2>2. /\ st'.seen = (st.seen \/ IsPrompt(cur))
        /\ st'.dc = IF cur.t = 1 /\ st.seen THEN st.dc + 1 ELSE st.dc
        /\ st'.irc = [r \in {0, 1} |-> IF r = Pass(cur, st, "invrope") /\ opt.family = "dsv4"
                                       THEN st.irc[r] + 1 ELSE st.irc[r]]
        /\ st' = [seen |-> st'.seen, dc |-> st'.dc, irc |-> st'.irc]
    BY <2>1
  <2>3. st'.seen = (st.seen \/ Prompt(leg, e))
    <3>1. st.seen \in BOOLEAN /\ IsPrompt(cur) \in BOOLEAN /\ Prompt(leg, e) \in BOOLEAN
      BY <1>6 DEF IsPrompt, Prompt
    <3> QED BY <1>5, <2>2, <3>1, Zenon
  <2>4. st'.dc = IF Step(leg, e) THEN st.dc + 1 ELSE st.dc
    BY <1>5, <2>2
  <2> QED BY <2>2, <2>3, <2>4
<1>9. st' \in [seen : BOOLEAN, dc : Nat, irc : [{0, 1} -> Nat]]
  <2>1. st'.seen \in BOOLEAN
    BY <1>6, <1>8
  <2>2. st'.dc \in Nat
    BY <1>6, <1>8
  <2>3. st'.irc \in [{0, 1} -> Nat]
    BY <1>6, <1>8
  <2> QED BY <1>8, <2>1, <2>2, <2>3
<1>10. st'.seen <=> Prompts(leg, e) # {} \/ (Prompt(leg, e) /\ y > 0)
  BY <1>1, <1>6, <1>8
<1>11. st'.dc = q + (IF Step(leg, e) THEN y ELSE 0)
  BY <1>1, <1>4, <1>6, <1>8
<1>12. ASSUME opt.family = "dsv4"
       PROVE  /\ st'.irc[0] = p + (IF Prompt(leg, e) THEN y ELSE 0)
              /\ st'.irc[1] = st'.dc
  <2>1. st'.irc[0] = (IF Prompt(leg, e) THEN st.irc[0] + 1 ELSE st.irc[0])
    BY <1>7, <1>8, <1>12
  <2>2. st'.irc[1] = (IF Step(leg, e) THEN st.irc[1] + 1 ELSE st.irc[1])
    BY <1>7, <1>8, <1>12
  <2>3. st'.irc[0] = p + (IF Prompt(leg, e) THEN y ELSE 0)
    BY <1>1, <1>4, <1>6, <1>12, <2>1
  <2> QED BY <1>6, <1>8, <1>12, <2>2, <2>3
<1> QED
  BY <1>2, <1>3, <1>4, <1>9, <1>10, <1>11, <1>12 DEF CountOK

\* The keys that the taps of a layer use are those of its forward.
LEMMA KeysLayer ==
    ASSUME RunOK, KeysOK, Layer, NEW e, e = Place, NEW y, y = layer + 1, NEW g, g = leg, NEW K, K = cap'
    PROVE  FirstOK(g, K, e, y)
<1>1. /\ pc = "layer" /\ layer < NumLayers /\ cap' = LayerKeys
  BY DEF Layer
<1>2. leg \in Leg /\ layer \in 0..(NumLayers - 1) /\ Depth = layer
  BY <1>1, GroupFacts DEF RunOK, Depth
<1>3. CountOK(Place, layer) /\ FirstOK(leg, cap, Place, layer)
  BY <1>2 DEF KeysOK
<1>4. /\ IsPrompt(cur) <=> Prompt(leg, Place)
      /\ cur.t = 1 /\ st.seen <=> Step(leg, Place)
      /\ ~(Prompt(leg, Place) /\ Step(leg, Place))
  BY <1>1, <1>3, TagFacts
<1>5. /\ Place \in Int /\ 1 - Ups(leg) <= Place /\ Ups(leg) \in Nat
      /\ Origin(layer) = OriginAt(leg, Place, layer)
  BY <1>1, <1>2, PlaceFacts
<1>6. PICK p \in Nat, q \in Nat : p = LayersOf(Prompts(leg, Place)) /\ q = LayersOf(Steps(leg, Place))
  BY <1>5, EarlierFacts, LayersFacts
<1>7. Calls(leg, Place, layer) = layer + (IF Prompt(leg, Place) THEN p ELSE q)
  BY <1>6 DEF Calls
<1>8. /\ st \in [seen : BOOLEAN, dc : Nat, irc : [{0, 1} -> Nat]]
      /\ Step(leg, Place) => st.dc = Calls(leg, Place, layer)
      /\ opt.family = "dsv4" /\ Prompt(leg, Place) => st.irc[0] = Calls(leg, Place, layer)
      /\ opt.family = "dsv4" /\ Step(leg, Place) => st.irc[1] = Calls(leg, Place, layer)
  <2>1. /\ st \in [seen : BOOLEAN, dc : Nat, irc : [{0, 1} -> Nat]]
        /\ st.dc = q + (IF Step(leg, Place) THEN layer ELSE 0)
        /\ opt.family = "dsv4" =>
              /\ st.irc[0] = p + (IF Prompt(leg, Place) THEN layer ELSE 0)
              /\ st.irc[1] = st.dc
    BY <1>3, <1>6 DEF CountOK
  <2>2. layer \in Nat
    BY <1>2, GroupFacts
  <2> QED BY <1>4, <1>6, <1>7, <2>1, <2>2
<1>9. ASSUME NEW op \in ToSet(LayerOps)
      PROVE  /\ Pass(cur, SeenAt(op), op) # -1 <=> Prompt(leg, Place) \/ Step(leg, Place)
             /\ Prompt(leg, Place) \/ Step(leg, Place) =>
                   KeyOf(op, Pass(cur, SeenAt(op), op)) = KeyAt(leg, Place, layer, op)
  <2>1. op = "invrope" => opt.family = "dsv4"
    BY StartFacts, OpsFacts
  <2>2. CASE Prompt(leg, Place)
    <3>1. Pass(cur, SeenAt(op), op) = 0
      BY <1>4, <2>2 DEF Pass
    <3>2. KeyOf(op, 0) = KeyAt(leg, Place, layer, op)
      BY <1>8, <2>1, <2>2 DEF KeyOf, KeyAt
    <3> QED BY <2>2, <3>1, <3>2
  <2>3. CASE ~Prompt(leg, Place)
    <3>1. SeenAt(op) = st
      BY <1>4, <2>3 DEF SeenAt
    <3>2. CASE Step(leg, Place)
      <4>1. Pass(cur, st, op) = IF op \in {"hidden", "hcpost"} THEN 1 + Calls(leg, Place, layer) \div Group ELSE 1
        BY <1>4, <1>8, <2>3, <3>2 DEF Pass
      <4>2. Calls(leg, Place, layer) \in Nat
        BY <1>8, <3>2
      <4>3. Calls(leg, Place, layer) \div Group \in Nat
        BY <4>2, GroupFacts
      <4>4. Pass(cur, st, op) # -1
        BY <4>1, <4>3
      <4>5. op = "invrope" => Pass(cur, st, op) = 1
        BY <4>1
      <4>6. KeyOf(op, Pass(cur, st, op)) = KeyAt(leg, Place, layer, op)
        <5>1. CASE op = "invrope"
          BY <1>8, <2>1, <2>3, <3>2, <4>1, <4>5, <5>1 DEF KeyOf, KeyAt
        <5>2. CASE op # "invrope"
          BY <2>3, <4>1, <5>2 DEF KeyOf, KeyAt
        <5> QED BY <5>1, <5>2
      <4> QED BY <3>1, <3>2, <4>4, <4>6
    <3>3. CASE ~Step(leg, Place)
      <4>1. Pass(cur, st, op) = -1
        BY <1>4, <2>3, <3>3 DEF Pass
      <4> QED BY <2>3, <3>1, <3>3, <4>1
    <3> QED BY <3>2, <3>3
  <2> QED BY <2>2, <2>3
<1> DEFINE keys == {KeyOf(op, Pass(cur, SeenAt(op), op)) :
                       op \in {op \in ToSet(LayerOps) : Pass(cur, SeenAt(op), op) # -1}}
<1>10. \A k : k \in keys <=> Gives(leg, Place, layer, k)
  BY <1>9 DEF Gives
<1>11. LayerKeys = Keep(cap, [k \in keys |-> Origin(layer)])
  BY DEF LayerKeys
<1> HIDE DEF keys
<1>12. /\ \A k : k \in DOMAIN K <=> k \in DOMAIN cap \/ Gives(leg, Place, layer, k)
       /\ \A k \in DOMAIN K : K[k] = IF k \in DOMAIN cap THEN cap[k] ELSE OriginAt(leg, Place, layer)
  BY <1>1, <1>5, <1>10, <1>11 DEF Keep
<1>13. PICK h, i, j, M : h = leg /\ i = Place /\ j = layer /\ M = cap
  OBVIOUS
<1>14. FirstOK(h, K, i, j + 1)
  <2>1. h = leg /\ i \in Int /\ j \in 0..(NumLayers - 1) /\ Ups(h) \in Nat /\ 1 - Ups(h) <= i /\ FirstOK(h, M, i, j)
    BY <1>2, <1>3, <1>5, <1>13
  <2>2. /\ \A k : k \in DOMAIN K <=> k \in DOMAIN M \/ Gives(h, i, j, k)
        /\ \A k \in DOMAIN K : K[k] = IF k \in DOMAIN M THEN M[k] ELSE OriginAt(h, i, j)
    BY <1>12, <1>13
  <2> QED BY <2>1, <2>2, FirstLayer
<1> QED
  BY <1>13, <1>14

\* A step that leaves the dictionaries and the place.
LEMMA KeysStay ==
    ASSUME RunOK, KeysOK, UNCHANGED <<opt, leg, cap, st>>, Works' \in Nat, Works' >= Works,
           \A w \in DOMAIN work : work'[w] = work[w],
           leg \in Leg => Place' = Place /\ Depth' = Depth,
           \A g \in Leg : saved'[g].keys = saved[g].keys
    PROVE  KeysOK'
<1>1. /\ Works \in Nat /\ DOMAIN work = 1..Works /\ \A g \in Leg : Ups(g) \in Nat
  BY StartFacts
<1>2. ASSUME leg \in Leg PROVE CountOK(Place, Depth)' /\ FirstOK(leg, cap, Place, Depth)'
  <2>1. PICK e \in Int, y \in Nat : e = Place /\ y = Depth /\ Known(e, y)
    BY <1>2, PlaceFacts
  <2>2. CountOK(e, y) /\ FirstOK(leg, cap, e, y)
    BY <1>2, <2>1 DEF KeysOK
  <2>3. PICK g, K : g \in Leg /\ g = leg /\ K = cap
    BY <1>2
  <2>4. CountOK(e, y)'
    BY <1>1, <1>2, <2>1, <2>2, CountStays
  <2>5. FirstOK(g, K, e, y)'
    BY <1>1, <2>1, <2>2, <2>3, FirstGrows
  <2>6. Place' = e /\ Depth' = y /\ leg' = g /\ cap' = K
    BY <1>2, <2>1, <2>3
  <2> QED BY <2>4, <2>5, <2>6
<1>3. ASSUME NEW g \in Leg
      PROVE  (\E i \in Int, j \in Nat : Known(i, j) /\ FirstOK(g, saved[g].keys, i, j))'
  <2>1. PICK i \in Int, j \in Nat : Known(i, j) /\ FirstOK(g, saved[g].keys, i, j)
    BY <1>3 DEF KeysOK
  <2>2. PICK K : K = saved[g].keys
    OBVIOUS
  <2>3. FirstOK(g, K, i, j)'
    BY <1>1, <2>1, <2>2, FirstGrows
  <2>4. Known(i, j)'
    BY <1>1, <2>1 DEF Known
  <2> QED BY <2>2, <2>3, <2>4
<1> QED
  BY <1>2, <1>3 DEF KeysOK

\* Nothing is captured when a leg begins.
LEMMA KeysBegin == CaptureInit => KeysOK
<1> SUFFICES ASSUME CaptureInit PROVE KeysOK
  OBVIOUS
<1>0. RunOK
  BY RunBegins
<1>1. leg = "gpu" /\ pc = "idle" /\ at = 0 /\ cap = Empty /\ st = Start
      /\ saved = [l \in Leg |-> [whole |-> TRUE, keys |-> Empty]]
  BY DEF CaptureInit
<1>2. \A g \in Leg : Ups(g) \in Nat /\ Works \in Nat
  BY <1>0, StartFacts
<1>3. Place = 1 - Ups("gpu") /\ Depth = 0
  BY <1>1, <1>2 DEF Place, Depth, Leg
<1>4. CountOK(1 - Ups(leg), 0)
  <2>1. Prompts(leg, 1 - Ups(leg)) = {} /\ Steps(leg, 1 - Ups(leg)) = {}
    BY <1>1, <1>2, EarlierFacts DEF Leg
  <2>2. LayersOf({}) = 0
    BY LayersFacts, FS_EmptySet
  <2> QED BY <1>1, <2>1, <2>2 DEF CountOK, Start
<1>5. \A g \in Leg : FirstOK(g, Empty, 1 - Ups(g), 0)
  BY <1>2, FirstNone
<1>6. \A g \in Leg : 1 - Ups(g) \in Int /\ Known(1 - Ups(g), 0)
  BY <1>2 DEF Known
<1>7. \A g \in Leg : \E i \in Int, j \in Nat : Known(i, j) /\ FirstOK(g, saved[g].keys, i, j)
  BY <1>1, <1>5, <1>6
<1> QED
  BY <1>1, <1>3, <1>4, <1>5, <1>7 DEF KeysOK, Empty, Leg

\* Every step keeps the dictionaries and the counters right.
LEMMA KeysGoOn ==
    ASSUME RunOK, SavedOK, KeysOK, [CaptureNext]_captureVars
    PROVE  KeysOK'
<1>0. /\ Works \in Nat /\ DOMAIN work = 1..Works /\ \A g \in Leg : Ups(g) \in Nat
      /\ RunOK' /\ DOMAIN saved = Leg /\ \A g \in Leg : DOMAIN saved[g] = {"whole", "keys"}
  BY StartFacts, RunGoesOn DEF SavedOK
<1>1. CASE UNCHANGED captureVars
  <2>1. Works' = Works /\ Place' = Place /\ Depth' = Depth
    BY <1>1 DEF captureVars, Works, Place, Depth, Ups
  <2> QED BY <1>0, <1>1, <2>1, KeysStay DEF captureVars
<1>2. CASE Begin
  <2>1. /\ leg \in Leg /\ pc = "idle" /\ pc' = "layer" /\ at' = at + 1 /\ layer' = 0
        /\ work' \in Seq(Requests) /\ Works' >= Works
        /\ \A w \in DOMAIN work : work'[w] = work[w]
        /\ UNCHANGED <<opt, leg>> /\ Ups(leg)' = Ups(leg)
    BY <1>2, BeginFacts
  <2>2. Works' \in Nat
    BY <2>1, LenProperties DEF Works
  <2>3. Place' = Place /\ Depth' = Depth
    <3>1. at \in Nat /\ Ups(leg) \in Nat
      BY <1>0, <2>1 DEF RunOK
    <3> QED BY <2>1, <3>1 DEF Place, Depth
  <2>4. UNCHANGED <<cap, st, saved>>
    BY <1>2 DEF Begin
  <2> QED BY <2>1, <2>2, <2>3, <2>4, KeysStay
<1>3. CASE Layer
  <2>1. /\ pc = "layer" /\ layer < NumLayers /\ layer' = layer + 1 /\ cap' = LayerKeys /\ st' = AfterLayer
        /\ UNCHANGED <<opt, work, leg, at, pc>>
        /\ saved' = saved \/ saved' = [saved EXCEPT ![leg] = [whole |-> TRUE, keys |-> cap']]
    BY <1>3 DEF Layer
  <2>2. leg \in Leg /\ layer \in Nat
    BY <2>1, CaptureAssumption DEF RunOK
  <2>3. Works' = Works /\ Place' = Place /\ Depth' = layer + 1 /\ Depth = layer
    BY <2>1 DEF Works, Place, Depth, Ups
  <2>4. Place \in Int /\ Place <= Works
    BY <2>1, <2>2, PlaceFacts
  <2>5. PICK e, y, g, K :
           /\ e \in Int /\ y \in Nat /\ g \in Leg /\ Known(e, y)
           /\ e = Place /\ y = layer + 1 /\ g = leg /\ K = cap'
    BY <2>2, <2>4 DEF Known
  <2>6. FirstOK(g, K, e, y)
    BY <1>3, <2>5, KeysLayer
  <2>7. FirstOK(g, K, e, y)' /\ Known(e, y)'
    BY <1>0, <2>1, <2>3, <2>5, <2>6, FirstGrows DEF Known
  <2>8. CountOK(e, y)'
    <3>1. CountOK(Place, layer)
      BY <2>2, <2>3 DEF KeysOK
    <3> QED BY <2>1, <2>5, <3>1, CountLayer
  <2>9. (leg \in Leg => CountOK(Place, Depth) /\ FirstOK(leg, cap, Place, Depth))'
    BY <2>1, <2>3, <2>5, <2>7, <2>8
  <2>10. \A k \in DOMAIN cap' : k.op = "logits" => k \in DOMAIN cap /\ cap'[k] = cap[k]
    <3>1. ASSUME NEW k \in DOMAIN cap', k \notin DOMAIN cap PROVE k.op # "logits"
      <4>1. PICK op \in ToSet(LayerOps) : k = KeyOf(op, Pass(cur, SeenAt(op), op))
        BY <2>1, <3>1 DEF LayerKeys, Keep
      <4> QED BY <4>1, OpsFacts DEF KeyOf
    <3>2. \A k \in DOMAIN cap : cap'[k] = cap[k]
      BY <2>1 DEF LayerKeys, Keep
    <3> QED BY <3>1, <3>2
  <2>11. \A k \in DOMAIN cap' : k.op = "logits" => k.pass = 0 /\ cap'[k] \in OriginType
    BY <2>10 DEF KeysOK
  <2>12. \A h \in Leg : (\E i \in Int, j \in Nat : Known(i, j) /\ FirstOK(h, saved[h].keys, i, j))'
    <3>1. \A h \in Leg : saved'[h].keys = saved[h].keys \/ (h = g /\ saved'[h].keys = K)
      <4>1. CASE saved' = saved
        BY <4>1
      <4>2. CASE saved' = [saved EXCEPT ![leg] = [whole |-> TRUE, keys |-> cap']]
        <5>1. \A h \in Leg : saved'[h] = IF h = leg THEN [whole |-> TRUE, keys |-> cap'] ELSE saved[h]
          BY <4>2, <1>0
        <5> QED BY <5>1, <2>5
      <4> QED BY <2>1, <4>1, <4>2
    <3> QED BY <3>1, <2>1, <2>5, <2>6, FilesStay
  <2> QED BY <2>1, <2>2, <2>9, <2>11, <2>12 DEF KeysOK
<1>4. CASE Logits
  <2>1. /\ pc = "layer" /\ pc' = "save" /\ layer = NumLayers /\ UNCHANGED <<opt, work, leg, at, layer, st>>
        /\ cap' = Keep(cap, [k \in {LogitsKey} |-> Origin(NumLayers)])
        /\ saved' = [saved EXCEPT ![leg] = [whole |-> FALSE, keys |-> cap']]
    BY <1>4 DEF Logits
  <2>2. leg \in Leg /\ layer \in Nat
    BY <2>1, CaptureAssumption DEF RunOK
  <2>3. Works' = Works /\ Place' = Place /\ Depth' = Depth
    BY <2>1 DEF Works, Place, Depth, Ups
  <2>4. DOMAIN cap' = DOMAIN cap \cup {LogitsKey}
        /\ \A k \in DOMAIN cap' : cap'[k] = IF k \in DOMAIN cap THEN cap[k] ELSE Origin(NumLayers)
    BY <2>1 DEF Keep
  <2>5. LogitsKey.op = "logits" /\ LogitsKey.pass = 0
    BY DEF LogitsKey
  <2>6. PICK e, y, g, K :
           /\ e \in Int /\ y \in Nat /\ g \in Leg /\ Known(e, y)
           /\ e = Place /\ y = Depth /\ g = leg /\ K = cap'
    BY <2>2, PlaceFacts
  <2>7. FirstOK(g, K, e, y)
    <3>1. FirstOK(leg, cap, Place, Depth)
      BY <2>2 DEF KeysOK
    <3>2. /\ \A k \in DOMAIN cap : k \in DOMAIN cap' /\ cap'[k] = cap[k]
          /\ \A k \in DOMAIN cap' : k \notin DOMAIN cap => k.op = "logits"
      BY <2>4, <2>5
    <3> QED BY <3>1, <3>2, <2>6, FirstLogits
  <2>8. FirstOK(g, K, e, y)'
    BY <1>0, <2>1, <2>6, <2>7, FirstGrows
  <2>9. CountOK(e, y)'
    BY <1>0, <2>1, <2>2, <2>6, CountStays DEF KeysOK
  <2>10. (leg \in Leg => CountOK(Place, Depth) /\ FirstOK(leg, cap, Place, Depth))'
    BY <2>1, <2>3, <2>6, <2>8, <2>9
  <2>11. Origin(NumLayers) \in OriginType
    BY <2>1, <2>2, OriginFacts
  <2>12. \A k \in DOMAIN cap' : k.op = "logits" => k.pass = 0 /\ cap'[k] \in OriginType
    BY <2>4, <2>5, <2>11 DEF KeysOK, OriginType
  <2>13. \A h \in Leg : (\E i \in Int, j \in Nat : Known(i, j) /\ FirstOK(h, saved[h].keys, i, j))'
    <3>1. \A h \in Leg : saved'[h].keys = saved[h].keys \/ (h = g /\ saved'[h].keys = K)
      <4>1. \A h \in Leg : saved'[h] = IF h = leg THEN [whole |-> FALSE, keys |-> cap'] ELSE saved[h]
        BY <2>1, <1>0
      <4> QED BY <4>1, <2>6
    <3> QED BY <3>1, <2>1, <2>6, <2>7, FilesStay
  <2> QED BY <2>1, <2>2, <2>10, <2>12, <2>13 DEF KeysOK
<1>5. CASE Save \/ (\E r \in Ranks : Dump(r)) \/ Kill
  <2>1. /\ pc # "idle" /\ pc' # "idle" /\ UNCHANGED <<opt, work, leg, at, layer, cap, st>>
        /\ \/ saved' = saved
           \/ pc # "idle" /\ \E b \in BOOLEAN : saved' = [saved EXCEPT ![leg] = [saved[leg] EXCEPT !.whole = b]]
    BY <1>5 DEF Save, Dump, Kill
  <2>2. Works' = Works /\ Place' = Place /\ Depth' = Depth
    BY <2>1 DEF Works, Place, Depth, Ups
  <2>3. leg \in Leg
    BY <2>1 DEF RunOK
  <2>4. \A g \in Leg : saved'[g].keys = saved[g].keys
    BY <2>1, <2>3, <1>0
  <2> QED BY <1>0, <2>1, <2>2, <2>4, KeysStay
<1>6. CASE EndForward
  <2>1. /\ pc = "dump" /\ pc' = "idle" /\ layer = NumLayers
        /\ UNCHANGED <<opt, work, leg, at, layer, cap, st, saved>>
    BY <1>6 DEF EndForward, RunOK
  <2>2. leg \in Leg /\ NumLayers \in Nat
    BY <2>1, CaptureAssumption DEF RunOK
  <2>3. Works' = Works /\ Place' = Place + 1 /\ Depth' = 0 /\ Depth = NumLayers
    BY <2>1 DEF Works, Place, Depth, Ups
  <2>4. Place \in Int /\ Place <= Works /\ 1 - Ups(leg) <= Place
    BY <2>1, <2>2, PlaceFacts
  <2>5. PICK e, g, K :
           e \in Int /\ g \in Leg /\ e = Place /\ g = leg /\ K = cap /\ Known(e + 1, 0) /\ e + 1 \in Int
    BY <1>0, <2>2, <2>4 DEF Known
  <2>6. FirstOK(g, K, e + 1, 0)
    BY <2>2, <2>3, <2>5, FirstNext DEF KeysOK
  <2>7. CountOK(e + 1, 0)
    BY <1>0, <2>2, <2>3, <2>4, <2>5, CountNext DEF KeysOK
  <2>8. PICK f \in Int : f = e + 1
    BY <2>5
  <2>9. FirstOK(g, K, f, 0)'
    BY <1>0, <2>1, <2>5, <2>6, <2>8, FirstGrows
  <2>10. CountOK(f, 0)'
    BY <1>0, <2>1, <2>2, <2>5, <2>7, <2>8, CountStays
  <2>11. (leg \in Leg => CountOK(Place, Depth) /\ FirstOK(leg, cap, Place, Depth))'
    BY <2>1, <2>3, <2>5, <2>8, <2>9, <2>10
  <2>12. \A h \in Leg : (\E i \in Int, j \in Nat : Known(i, j) /\ FirstOK(h, saved[h].keys, i, j))'
    BY <2>1, <2>5, FilesStay
  <2> QED BY <2>1, <2>2, <2>11, <2>12 DEF KeysOK
<1>7. CASE EndLeg
  <2>1. /\ pc = "idle" /\ leg \in Leg /\ leg' \in Leg \cup {"done"} /\ at' = 0 /\ pc' = "idle"
        /\ cap' = Empty /\ st' = Start /\ UNCHANGED <<opt, work, saved>>
    BY <1>7 DEF EndLeg, RunOK, Leg
  <2>2. ASSUME leg' \in Leg PROVE CountOK(Place, Depth)' /\ FirstOK(leg, cap, Place, Depth)'
    <3>1. PICK g \in Leg, e \in Int : g = leg' /\ e = 1 - Ups(g) /\ Known(e, 0)
      <4>1. \A g \in Leg : 1 - Ups(g) \in Int /\ Known(1 - Ups(g), 0)
        BY <1>0 DEF Known
      <4> QED BY <4>1, <2>2
    <3>2. Ups(g)' = Ups(g) /\ Place' = e /\ Depth' = 0
      <4>1. Ups(g)' = Ups(g)
        BY <2>1 DEF Ups
      <4>2. Place' = 0 - Ups(leg)' + 1 /\ Depth' = 0
        BY <2>1 DEF Place, Depth
      <4>3. Ups(leg)' = Ups(g)
        BY <3>1, <4>1
      <4> QED BY <4>1, <4>2, <4>3, <3>1, <1>0
    <3>3. FirstOK(g, Empty, e, 0)'
      <4>1. FirstOK(g, Empty, e, 0)
        BY <1>0, <3>1, FirstNone
      <4> QED BY <4>1, <1>0, <2>1, <3>1, FirstGrows
    <3>4. CountOK(e, 0)'
      <4>1. Prompts(g, e) = {} /\ Steps(g, e) = {}
        BY <1>0, <3>1, EarlierFacts
      <4>2. Prompts(g, e)' = {} /\ Steps(g, e)' = {}
        BY <4>1, <1>0, <2>1, <3>1, WorkGrows DEF Known
      <4>3. LayersOf({}) = 0
        BY LayersFacts, FS_EmptySet
      <4>4. Prompts(leg, e)' = {} /\ Steps(leg, e)' = {}
        BY <4>2, <3>1
      <4>5. LayersOf(Prompts(leg, e))' = 0 /\ LayersOf(Steps(leg, e))' = 0
        BY <4>3, <4>4 DEF LayersOf
      <4> QED BY <2>1, <4>4, <4>5 DEF CountOK, Start
    <3> QED BY <2>1, <3>1, <3>2, <3>3, <3>4
  <2>3. \A h \in Leg : (\E i \in Int, j \in Nat : Known(i, j) /\ FirstOK(h, saved[h].keys, i, j))'
    BY <2>1, FilesStay
  <2> QED BY <2>1, <2>2, <2>3 DEF KeysOK, Empty
<1> QED
  BY <1>1, <1>2, <1>3, <1>4, <1>5, <1>6, <1>7 DEF CaptureNext

\* The tag and the number of a key that a layer of a forward gives.
TagOf(g, e, y, k) ==
    /\ k.op \in ToSet(LayerOps) /\ k = KeyAt(g, e, y, k.op)
    /\ k.n = IF k.op = "invrope" THEN Calls(g, e, y) ELSE y
    /\ \/ Prompt(g, e) /\ ~Step(g, e) /\ k.pass = 0
       \/ /\ Step(g, e) /\ ~Prompt(g, e) /\ k.pass # 0 /\ k.pass \in Nat
          /\ k.pass = IF k.op \in {"hidden", "hcpost"} THEN 1 + Calls(g, e, y) \div Group ELSE 1

\* What is known of a key from the forward and the layer that give it.
LEMMA GiverFacts ==
    ASSUME NEW g, NEW e \in Int, NEW y \in 0..(NumLayers - 1), NEW k, Ups(g) \in Nat, Gives(g, e, y, k)
    PROVE  TagOf(g, e, y, k) /\ y \in Nat /\ Calls(g, e, y) \in Nat
<1>1. PICK op \in ToSet(LayerOps) : k = KeyAt(g, e, y, op)
  BY DEF Gives
<1>2. k.op = op
  BY <1>1 DEF KeyAt
<1>3. y \in Nat
  BY GroupFacts
<1>4. LayersOf(Prompts(g, e)) \in Nat /\ LayersOf(Steps(g, e)) \in Nat
  BY EarlierFacts, LayersFacts
<1>5. Calls(g, e, y) \in Nat
  BY <1>3, <1>4 DEF Calls
<1>6. k.n = IF k.op = "invrope" THEN Calls(g, e, y) ELSE y
  BY <1>1, <1>2 DEF KeyAt
<1>7. CASE Prompt(g, e)
  <2>1. k.pass = 0
    BY <1>1, <1>7 DEF KeyAt
  <2>2. ~Step(g, e)
    BY <1>7 DEF Prompt, Step
  <2> QED BY <1>1, <1>2, <1>3, <1>5, <1>6, <1>7, <2>1, <2>2 DEF TagOf
<1>8. CASE ~Prompt(g, e)
  <2>1. k.pass = IF k.op \in {"hidden", "hcpost"} THEN 1 + Calls(g, e, y) \div Group ELSE 1
    BY <1>1, <1>2, <1>8 DEF KeyAt
  <2>2. PICK q \in Nat : q = Calls(g, e, y) \div Group
    BY <1>5, GroupFacts
  <2>3. k.pass # 0 /\ k.pass \in Nat
    BY <2>1, <2>2
  <2>4. Step(g, e)
    BY <1>8 DEF Gives
  <2> QED BY <1>1, <1>2, <1>3, <1>5, <1>6, <1>8, <2>1, <2>3, <2>4 DEF TagOf
<1> QED
  BY <1>7, <1>8

\* A tag that does not tell steps apart is of the first short prompt, or of the
\* first decode step behind one.
LEMMA FirstForward ==
    ASSUME NEW g, NEW e \in Int, NEW y \in 0..(NumLayers - 1), NEW k, Ups(g) \in Nat, 1 - Ups(g) <= e,
           Gives(g, e, y, k), \A u, v : Past(g, u, v, e, y) => ~Gives(g, u, v, k),
           k.op # "invrope" \/ k.n \in 0..(NumLayers - 1), k.pass \in {0, 1}
    PROVE  /\ k.n = y
           /\ k.pass = 0 => Prompt(g, e) /\ Prompts(g, e) = {}
           /\ k.pass = 1 => Step(g, e) /\ Steps(g, e) = {}
<1>0. NumLayers \in Nat \ {0}
  BY GroupFacts
<1>1. /\ k.op \in ToSet(LayerOps) /\ k = KeyAt(g, e, y, k.op)
      /\ y \in Nat /\ Calls(g, e, y) \in Nat
      /\ k.n = IF k.op = "invrope" THEN Calls(g, e, y) ELSE y
      /\ \/ Prompt(g, e) /\ ~Step(g, e) /\ k.pass = 0
         \/ /\ Step(g, e) /\ ~Prompt(g, e) /\ k.pass # 0 /\ k.pass \in Nat
            /\ k.pass = IF k.op \in {"hidden", "hcpost"} THEN 1 + Calls(g, e, y) \div Group ELSE 1
  BY GiverFacts DEF TagOf
<1>2. IsFiniteSet(Prompts(g, e)) /\ IsFiniteSet(Steps(g, e))
  BY EarlierFacts
<1>3. CASE k.op = "invrope"
  <2>1. k.n = Calls(g, e, y) /\ k.n < NumLayers /\ k.n \in Nat
    BY <1>0, <1>1, <1>3
  <2>2. ASSUME NEW S, IsFiniteSet(S), Calls(g, e, y) = y + LayersOf(S) PROVE S = {} /\ k.n = y
    <3>1. /\ LayersOf(S) \in Nat /\ LayersOf({}) = 0
          /\ \A T \in SUBSET S, x \in S : x \notin T => LayersOf(T) + NumLayers <= LayersOf(S)
      BY <2>2, LayersFacts
    <3>2. S = {}
      <4> SUFFICES ASSUME S # {} PROVE FALSE
        OBVIOUS
      <4>1. PICK x \in S : TRUE
        OBVIOUS
      <4>2. {} \in SUBSET S /\ x \notin {}
        OBVIOUS
      <4>3. LayersOf({}) + NumLayers <= LayersOf(S)
        BY <3>1, <4>2
      <4> QED BY <1>0, <1>1, <2>1, <2>2, <3>1, <4>3
    <3> QED BY <1>1, <2>1, <2>2, <3>1, <3>2
  <2>3. CASE Prompt(g, e)
    <3>1. Calls(g, e, y) = y + LayersOf(Prompts(g, e))
      BY <2>3 DEF Calls
    <3> QED BY <1>1, <1>2, <2>2, <2>3, <3>1
  <2>4. CASE ~Prompt(g, e)
    <3>1. Calls(g, e, y) = y + LayersOf(Steps(g, e))
      BY <2>4 DEF Calls
    <3> QED BY <1>1, <1>2, <2>2, <2>4, <3>1
  <2> QED BY <2>3, <2>4
<1>4. CASE k.op # "invrope" /\ k.pass = 0
  <2>1. Prompt(g, e) /\ k.n = y
    BY <1>1, <1>4
  <2>2. ASSUME NEW u \in Prompts(g, e) PROVE FALSE
    <3>1. u \in Int /\ u >= 1 - Ups(g) /\ u < e /\ Prompt(g, u)
      BY <2>2 DEF Prompts
    <3>2. KeyAt(g, u, y, k.op) = k
      BY <1>1, <1>4, <2>1, <3>1 DEF KeyAt
    <3>3. Gives(g, u, y, k) /\ Past(g, u, y, e, y)
      BY <1>1, <3>1, <3>2 DEF Gives, Past
    <3> QED BY <3>3
  <2> QED BY <1>4, <2>1, <2>2
<1>5. CASE k.op # "invrope" /\ k.pass = 1
  <2>1. Step(g, e) /\ ~Prompt(g, e) /\ k.n = y
    BY <1>1, <1>5
  <2>2. ASSUME NEW u \in Steps(g, e) PROVE FALSE
    <3>1. u \in Int /\ u >= 1 - Ups(g) /\ u < e /\ Step(g, u)
      BY <2>2 DEF Steps
    <3>2. ~Prompt(g, u)
      BY <3>1 DEF Step, Prompt
    <3>3. KeyAt(g, u, y, k.op) = k
      <4>1. CASE k.op \in {"hidden", "hcpost"}
        <5>1. LayersOf(Steps(g, u)) <= LayersOf(Steps(g, e))
          BY <3>1, EarlierGrow
        <5>2. PICK a \in Nat, b \in Nat : a = LayersOf(Steps(g, u)) /\ b = LayersOf(Steps(g, e))
          BY <3>1, EarlierFacts, LayersFacts
        <5>3. Calls(g, u, y) = y + a /\ Calls(g, e, y) = y + b
          BY <2>1, <3>2, <5>2 DEF Calls
        <5>4. y + a \in Nat /\ y + b \in Nat /\ y + a <= y + b
          BY <1>1, <5>1, <5>2
        <5>5. PICK p \in Nat, q \in Nat : p = (y + a) \div Group /\ q = (y + b) \div Group /\ p <= q
          BY <5>4, GroupFacts
        <5>6. 1 + q = 1
          BY <1>1, <1>5, <4>1, <5>3, <5>5
        <5>7. 1 + p = 1
          BY <5>5, <5>6
        <5>8. 1 + Calls(g, u, y) \div Group = 1 /\ 1 + Calls(g, e, y) \div Group = 1
          BY <5>3, <5>5, <5>6, <5>7
        <5> QED BY <1>1, <1>5, <2>1, <3>2, <4>1, <5>8 DEF KeyAt
      <4>2. CASE k.op \notin {"hidden", "hcpost"}
        BY <1>1, <1>5, <2>1, <3>2, <4>2 DEF KeyAt
      <4> QED BY <4>1, <4>2
    <3>4. Gives(g, u, y, k) /\ Past(g, u, y, e, y)
      BY <1>1, <3>1, <3>3 DEF Gives, Past
    <3> QED BY <3>4
  <2> QED BY <1>5, <2>1, <2>2
<1> QED
  BY <1>3, <1>4, <1>5

\* Two first short prompts, or two first decode steps, are the same.
LEMMA OnlyOneFirst ==
    ASSUME NEW g, NEW e \in Int, NEW f \in Int, Ups(g) \in Nat, 1 - Ups(g) <= e, 1 - Ups(g) <= f,
           \/ Prompt(g, e) /\ Prompts(g, e) = {} /\ Prompt(g, f) /\ Prompts(g, f) = {}
           \/ Step(g, e) /\ Steps(g, e) = {} /\ Step(g, f) /\ Steps(g, f) = {}
    PROVE  e = f
<1>1. CASE e < f
  BY <1>1, EarlierGrow
<1>2. CASE f < e
  BY <1>2, EarlierGrow
<1> QED
  BY <1>1, <1>2

\* The first layer of the leg that gives a key.
GivenFirst(g, e, y, k) ==
    Gives(g, e, y, k) /\ \A u, v : Past(g, u, v, e, y) => ~Gives(g, u, v, k)

\* Keys of one tag and one number have the same first giver.
LEMMA FirstAgrees ==
    ASSUME NEW g, NEW e \in Int, NEW f \in Int, NEW y \in 0..(NumLayers - 1), NEW z \in 0..(NumLayers - 1),
           NEW j, NEW k, Ups(g) \in Nat, 1 - Ups(g) <= e, 1 - Ups(g) <= f,
           GivenFirst(g, e, y, j), GivenFirst(g, f, z, k),
           j.pass = k.pass, j.n = k.n
    PROVE  e = f /\ y = z
<1>0. NumLayers \in Nat \ {0}
  BY GroupFacts
<1>8. Gives(g, e, y, j)
  BY DEF GivenFirst
<1>9. Gives(g, f, z, k)
  BY DEF GivenFirst
<1>1. /\ j.op \in ToSet(LayerOps) /\ j = KeyAt(g, e, y, j.op)
      /\ j.n = IF j.op = "invrope" THEN Calls(g, e, y) ELSE y
      /\ \/ Prompt(g, e) /\ ~Step(g, e) /\ j.pass = 0
         \/ /\ Step(g, e) /\ ~Prompt(g, e) /\ j.pass # 0 /\ j.pass \in Nat
            /\ j.pass = IF j.op \in {"hidden", "hcpost"} THEN 1 + Calls(g, e, y) \div Group ELSE 1
  <2>1. TagOf(g, e, y, j)
    BY <1>8, GiverFacts
  <2> QED BY <2>1 DEF TagOf
<1>2. /\ k.op \in ToSet(LayerOps) /\ k = KeyAt(g, f, z, k.op)
      /\ k.n = IF k.op = "invrope" THEN Calls(g, f, z) ELSE z
      /\ \/ Prompt(g, f) /\ ~Step(g, f) /\ k.pass = 0
         \/ /\ Step(g, f) /\ ~Prompt(g, f) /\ k.pass # 0 /\ k.pass \in Nat
            /\ k.pass = IF k.op \in {"hidden", "hcpost"} THEN 1 + Calls(g, f, z) \div Group ELSE 1
  <2>1. TagOf(g, f, z, k)
    BY <1>9, GiverFacts
  <2> QED BY <2>1 DEF TagOf
<1>3. ASSUME NEW u \in Int, NEW v \in 0..(NumLayers - 1), NEW w \in Int, NEW x \in 0..(NumLayers - 1), 1 - Ups(g) <= u,
             ~Past(g, u, v, w, x)
      PROVE  ~(u < w) /\ ~(u = w /\ v < x)
  BY <1>3 DEF Past
<1>4. CASE j.op = k.op
  <2>1. j = k
    <3>1. j = KeyAt(g, e, y, j.op) /\ k = KeyAt(g, f, z, k.op)
      BY <1>1, <1>2
    <3>2. j = [pass |-> j.pass, op |-> j.op, n |-> j.n] /\ k = [pass |-> k.pass, op |-> k.op, n |-> k.n]
      BY <3>1 DEF KeyAt
    <3> QED BY <1>4, <3>2
  <2>2. Gives(g, e, y, k) /\ Gives(g, f, z, j)
    BY <1>8, <1>9, <2>1
  <2>4. ~Past(g, e, y, f, z) /\ ~Past(g, f, z, e, y)
    BY <2>2 DEF GivenFirst
  <2>3. ~(e < f) /\ ~(e = f /\ y < z) /\ ~(f < e) /\ ~(f = e /\ z < y)
    BY <1>3, <2>4
  <2> QED BY <1>0, <2>3
<1>5. CASE j.op \in {"hidden", "hcpost"} /\ k.op \in {"hidden", "hcpost"}
  <2>1. y = z
    BY <1>1, <1>2, <1>5
  <2>2. KeyAt(g, f, z, j.op) = j
    BY <1>1, <1>2, <1>5, <2>1 DEF KeyAt
  <2>3. KeyAt(g, e, y, k.op) = k
    BY <1>1, <1>2, <1>5, <2>1 DEF KeyAt
  <2>4. Gives(g, f, z, j) /\ Gives(g, e, y, k)
    BY <1>1, <1>2, <2>2, <2>3 DEF Gives
  <2>5. ~Past(g, e, y, f, z) /\ ~Past(g, f, z, e, y)
    BY <2>4 DEF GivenFirst
  <2>6. ~(e < f) /\ ~(f < e)
    BY <1>3, <2>5
  <2> QED BY <2>1, <2>6
<1>6. CASE ~(j.op \in {"hidden", "hcpost"} /\ k.op \in {"hidden", "hcpost"}) /\ j.op # k.op
  <2>1. j.pass \in {0, 1} /\ k.pass \in {0, 1}
    BY <1>1, <1>2, <1>6
  <2>2. (j.op # "invrope" \/ j.n \in 0..(NumLayers - 1)) /\ (k.op # "invrope" \/ k.n \in 0..(NumLayers - 1))
    BY <1>1, <1>2, <1>6
  <2>3. /\ j.n = y
        /\ j.pass = 0 => Prompt(g, e) /\ Prompts(g, e) = {}
        /\ j.pass = 1 => Step(g, e) /\ Steps(g, e) = {}
    BY <1>8, <1>9, <2>1, <2>2, FirstForward DEF GivenFirst
  <2>4. /\ k.n = z
        /\ k.pass = 0 => Prompt(g, f) /\ Prompts(g, f) = {}
        /\ k.pass = 1 => Step(g, f) /\ Steps(g, f) = {}
    BY <1>8, <1>9, <2>1, <2>2, FirstForward DEF GivenFirst
  <2>5. e = f
    BY <2>1, <2>3, <2>4, OnlyOneFirst
  <2> QED BY <2>3, <2>4, <2>5
<1> QED
  BY <1>4, <1>5, <1>6

\* So the tags agree.
LEMMA TagsTell == RunOK /\ KeysOK => TagsAgree
<1> SUFFICES ASSUME RunOK, KeysOK PROVE TagsAgree
  OBVIOUS
<1>1. CASE leg \notin Leg
  BY <1>1 DEF KeysOK, TagsAgree, Empty
<1>2. CASE leg \in Leg
  <2> SUFFICES ASSUME NEW j \in DOMAIN cap, NEW k \in DOMAIN cap,
                      j.op # "logits", k.op # "logits", j.pass = k.pass, j.n = k.n
               PROVE  cap[j] = cap[k]
    BY DEF TagsAgree
  <2>1. FirstOK(leg, cap, Place, Depth)
    BY <1>2 DEF KeysOK
  <2>2. PICK e, y : /\ Past(leg, e, y, Place, Depth) /\ Gives(leg, e, y, j)
                    /\ cap[j] = OriginAt(leg, e, y)
                    /\ \A u, v : Past(leg, u, v, e, y) => ~Gives(leg, u, v, j)
    BY <2>1 DEF FirstOK
  <2>3. PICK f, z : /\ Past(leg, f, z, Place, Depth) /\ Gives(leg, f, z, k)
                    /\ cap[k] = OriginAt(leg, f, z)
                    /\ \A u, v : Past(leg, u, v, f, z) => ~Gives(leg, u, v, k)
    BY <2>1 DEF FirstOK
  <2>4. Ups(leg) \in Nat
    BY <1>2, StartFacts
  <2>5. /\ e \in Int /\ f \in Int /\ y \in 0..(NumLayers - 1) /\ z \in 0..(NumLayers - 1)
        /\ 1 - Ups(leg) <= e /\ 1 - Ups(leg) <= f
    BY <2>2, <2>3, <2>4 DEF Past
  <2>6. PICK g : g = leg
    OBVIOUS
  <2>7. e = f /\ y = z
    <3>1. GivenFirst(g, e, y, j) /\ GivenFirst(g, f, z, k)
      BY <2>2, <2>3, <2>6 DEF GivenFirst
    <3> QED BY <2>4, <2>5, <2>6, <3>1, FirstAgrees
  <2> QED BY <2>2, <2>3, <2>7
<1> QED
  BY <1>1, <1>2

\* If no start-up forward looks like a short prompt, only the work is tagged,
\* and either leg tags it the same way.
LEMMA LegsAlike ==
    ASSUME RunOK, \A l \in Leg : StartsOutside(l, 2..16), NEW e \in Int
    PROVE  /\ \A g \in Leg : 1 - Ups(g) <= e /\ e <= 0 => ~Prompt(g, e) /\ ~Step(g, e)
           /\ e >= 1 => \A y, k : /\ Gives("gpu", e, y, k) <=> Gives("cpu", e, y, k)
                                  /\ OriginAt("gpu", e, y) = OriginAt("cpu", e, y)
<1>1. \A g \in Leg : Ups(g) \in Nat /\ DOMAIN opt.start[g] = 1..Ups(g)
  BY StartFacts, LenProperties DEF Ups
<1>2. ASSUME NEW g \in Leg, NEW u \in Int, 1 - Ups(g) <= u, u <= 0 PROVE ~Prompt(g, u)
  <2>1. u + Ups(g) \in 1..Ups(g)
    BY <1>1, <1>2
  <2>2. TokensIn[opt.start[g][u + Ups(g)]] \notin 2..16
    BY <1>1, <2>1 DEF StartsOutside
  <2> QED BY <1>2, <2>2 DEF Prompt, Tokens
<1>3. ASSUME NEW g \in Leg, 1 - Ups(g) <= e, e <= 0 PROVE ~Prompt(g, e) /\ ~Step(g, e)
  <2>1. \A u \in (1 - Ups(g))..(e - 1) : u \in Int /\ 1 - Ups(g) <= u /\ u <= 0
    BY <1>1, <1>3
  <2>2. Prompts(g, e) = {}
    BY <1>2, <2>1 DEF Prompts
  <2> QED BY <1>2, <1>3, <2>2 DEF Step
<1>4. \A u : u \in Int /\ u >= 1 => (Prompt("gpu", u) <=> Prompt("cpu", u))
  BY DEF Prompt, Tokens
<1>5. ASSUME NEW g \in Leg, NEW u \in Int, u >= 1
      PROVE  Prompts(g, u) = {v \in 1..(u - 1) : Prompt(g, v)}
  <2>1. \A v : v \in (1 - Ups(g))..(u - 1) <=>
           v \in 1..(u - 1) \/ (v \in Int /\ 1 - Ups(g) <= v /\ v <= 0)
    BY <1>1, <1>5
  <2> QED BY <2>1, <1>2 DEF Prompts
<1>6. ASSUME NEW u \in Int, u >= 1 PROVE Prompts("gpu", u) = Prompts("cpu", u)
  <2>1. \A v \in 1..(u - 1) : v \in Int /\ v >= 1
    BY <1>6
  <2> QED BY <1>4, <1>5, <1>6, <2>1 DEF Leg
<1>7. \A u : u \in Int /\ u >= 1 => (Step("gpu", u) <=> Step("cpu", u))
  BY <1>6 DEF Step, Tokens
<1>8. ASSUME NEW g \in Leg, e >= 1 PROVE Steps(g, e) = {v \in 1..(e - 1) : Step(g, v)}
  <2>1. \A v : v \in (1 - Ups(g))..(e - 1) <=>
           v \in 1..(e - 1) \/ (v \in Int /\ 1 - Ups(g) <= v /\ v <= 0)
    BY <1>1, <1>8
  <2>2. ASSUME NEW v \in Int, 1 - Ups(g) <= v, v <= 0 PROVE ~Step(g, v)
    <3>1. \A u \in (1 - Ups(g))..(v - 1) : u \in Int /\ 1 - Ups(g) <= u /\ u <= 0
      BY <1>1, <2>2
    <3>2. Prompts(g, v) = {}
      BY <1>2, <3>1 DEF Prompts
    <3> QED BY <3>2 DEF Step
  <2> QED BY <2>1, <2>2 DEF Steps
<1>9. ASSUME e >= 1 PROVE Steps("gpu", e) = Steps("cpu", e)
  <2>1. \A v \in 1..(e - 1) : v \in Int /\ v >= 1
    BY <1>9
  <2> QED BY <1>7, <1>8, <1>9, <2>1 DEF Leg
<1>10. ASSUME e >= 1, NEW y, NEW k
       PROVE  /\ Gives("gpu", e, y, k) <=> Gives("cpu", e, y, k)
              /\ OriginAt("gpu", e, y) = OriginAt("cpu", e, y)
  <2>1. Calls("gpu", e, y) = Calls("cpu", e, y)
    BY <1>4, <1>6, <1>9, <1>10 DEF Calls
  <2>2. \A op : KeyAt("gpu", e, y, op) = KeyAt("cpu", e, y, op)
    BY <1>4, <1>10, <2>1 DEF KeyAt
  <2>3. OriginAt("gpu", e, y) = OriginAt("cpu", e, y)
    BY <1>10 DEF OriginAt
  <2> QED BY <1>4, <1>7, <1>10, <2>2, <2>3 DEF Gives
<1> QED
  BY <1>3, <1>10

\* A key that both legs have saved is of one layer of one forward of the work,
\* the first to give it on either, and all keys of that layer are there.
LEMMA SharedGiver ==
    ASSUME RunOK, KeysOK, \A l \in Leg : StartsOutside(l, 2..16),
           NEW k \in Shared, k.op # "logits"
    PROVE  \E e \in Int, y \in 0..(NumLayers - 1) :
              /\ e >= 1 /\ GivenFirst("gpu", e, y, k)
              /\ saved["gpu"].keys[k] = [of |-> "work", n |-> e, layer |-> y]
              /\ saved["cpu"].keys[k] = [of |-> "work", n |-> e, layer |-> y]
              /\ \A h : Gives("gpu", e, y, h) => h \in Shared
<1>0. "gpu" \in Leg /\ "cpu" \in Leg /\ Ups("gpu") \in Nat /\ Ups("cpu") \in Nat
  BY StartFacts DEF Leg
<1>10. NumLayers \in Nat
  BY CaptureAssumption
<1> DEFINE Of(g, e, y) ==
              /\ e \in Int /\ e >= 1 - Ups(g) /\ y \in 0..(NumLayers - 1)
              /\ GivenFirst(g, e, y, k) /\ saved[g].keys[k] = OriginAt(g, e, y)
              /\ \A h : Gives(g, e, y, h) => h \in DOMAIN saved[g].keys
<1>1. ASSUME NEW g \in Leg PROVE \E e, y : Of(g, e, y)
  <2>1. PICK i \in Int, j \in Nat : FirstOK(g, saved[g].keys, i, j)
    BY DEF KeysOK
  <2>2. k \in DOMAIN saved[g].keys
    BY DEF Shared, Leg
  <2>3. PICK e, y : /\ Past(g, e, y, i, j) /\ Gives(g, e, y, k)
                    /\ saved[g].keys[k] = OriginAt(g, e, y)
                    /\ \A u, v : Past(g, u, v, e, y) => ~Gives(g, u, v, k)
    BY <2>1, <2>2 DEF FirstOK
  <2>4. e \in Int /\ e >= 1 - Ups(g) /\ y \in 0..(NumLayers - 1)
    BY <2>3 DEF Past
  <2>5. \A h : Gives(g, e, y, h) => h \in DOMAIN saved[g].keys
    BY <2>1, <2>3 DEF FirstOK
  <2>6. GivenFirst(g, e, y, k)
    BY <2>3 DEF GivenFirst
  <2> QED BY <2>3, <2>4, <2>5, <2>6
<1>2. PICK e, y : Of("gpu", e, y)
  BY <1>0, <1>1
<1>3. PICK f, z : Of("cpu", f, z)
  BY <1>0, <1>1
<1>4. e \in Int /\ f \in Int /\ y \in 0..(NumLayers - 1) /\ z \in 0..(NumLayers - 1)
      /\ Gives("gpu", e, y, k) /\ Gives("cpu", f, z, k) /\ e >= 1 - Ups("gpu") /\ f >= 1 - Ups("cpu")
  BY <1>2, <1>3 DEF GivenFirst
<1>5. e >= 1 /\ f >= 1
  <2>1. (Prompt("gpu", e) \/ Step("gpu", e)) /\ (Prompt("cpu", f) \/ Step("cpu", f))
    BY <1>4 DEF Gives
  <2> QED BY <1>0, <1>4, <2>1, LegsAlike
<1>6. /\ \A h : Gives("gpu", e, y, h) <=> Gives("cpu", e, y, h)
      /\ \A h : Gives("gpu", f, z, h) <=> Gives("cpu", f, z, h)
      /\ OriginAt("gpu", e, y) = OriginAt("cpu", e, y)
  BY <1>4, <1>5, LegsAlike
<1>7. ~Past("cpu", e, y, f, z) /\ ~Past("gpu", f, z, e, y)
  BY <1>2, <1>3, <1>4, <1>6 DEF GivenFirst
<1>8. e = f /\ y = z
  BY <1>0, <1>4, <1>5, <1>7, <1>10 DEF Past
<1>9. OriginAt("gpu", e, y) = [of |-> "work", n |-> e, layer |-> y]
  BY <1>4, <1>5 DEF OriginAt
<1>11. saved["gpu"].keys[k] = OriginAt("gpu", e, y) /\ saved["cpu"].keys[k] = OriginAt("cpu", f, z)
  BY <1>2, <1>3
<1>12. \A h : Gives("gpu", e, y, h) => h \in DOMAIN saved["gpu"].keys /\ h \in DOMAIN saved["cpu"].keys
  BY <1>2, <1>3, <1>6, <1>8
<1>13. GivenFirst("gpu", e, y, k)
  BY <1>2
<1> QED
  BY <1>4, <1>5, <1>6, <1>8, <1>9, <1>11, <1>12, <1>13 DEF Shared

\* So what the diff lays side by side is of one step.
LEMMA KeysAreOfOneStep == RunOK /\ KeysOK => KeysPair
<1> SUFFICES ASSUME RunOK, KeysOK, \A l \in Leg : StartsOutside(l, 2..16),
                    NEW k \in Shared, k.op # "logits"
             PROVE  saved["gpu"].keys[k] = saved["cpu"].keys[k]
  BY DEF KeysPair
<1> QED
  BY SharedGiver

-----------------------------------------------------------------------------
(* The diff: what it names first. *)

\* The order of triples and of quadruples of numbers.
LEMMA TripleOrder ==
    ASSUME NEW a \in Int, NEW b \in Int, NEW c \in Int, NEW d \in Int, NEW e \in Int, NEW f \in Int,
           a < d \/ (a = d /\ b < e) \/ (a = d /\ b = e /\ c < f)
    PROVE  Before(<<a, b, c>>, <<d, e, f>>)
<1> DEFINE x == <<a, b, c>>
           z == <<d, e, f>>
<1>1. DOMAIN x = 1..3 /\ x[1] = a /\ x[2] = b /\ x[3] = c /\ z[1] = d /\ z[2] = e /\ z[3] = f
  OBVIOUS
<1> HIDE DEF x, z
<1>2. CASE a < d
  <2>1. 1 \in DOMAIN x /\ x[1] < z[1] /\ \A j \in 1..(1 - 1) : x[j] = z[j]
    BY <1>1, <1>2
  <2> QED BY <2>1 DEF Before, x, z
<1>3. CASE a = d /\ b < e
  <2>1. 2 \in DOMAIN x /\ x[2] < z[2] /\ \A j \in 1..(2 - 1) : x[j] = z[j]
    BY <1>1, <1>3
  <2> QED BY <2>1 DEF Before, x, z
<1>4. CASE a = d /\ b = e /\ c < f
  <2>1. 3 \in DOMAIN x /\ x[3] < z[3] /\ \A j \in 1..(3 - 1) : x[j] = z[j]
    BY <1>1, <1>4
  <2> QED BY <2>1 DEF Before, x, z
<1> QED
  BY <1>2, <1>3, <1>4

\* With the first two equal, a later third is not before an earlier one.
LEMMA TripleOrderOnly ==
    ASSUME NEW a \in Int, NEW b \in Int, NEW c \in Int, NEW d \in Int, NEW f \in Int, c <= f
    PROVE  ~Before(<<a, b, f>>, <<a, b, c>>)
<1> DEFINE x == <<a, b, f>>
           z == <<a, b, c>>
<1>1. DOMAIN x = 1..3 /\ x[1] = a /\ x[2] = b /\ x[3] = f /\ z[1] = a /\ z[2] = b /\ z[3] = c
  OBVIOUS
<1> HIDE DEF x, z
<1>2. ASSUME NEW i \in 1..3 PROVE ~(x[i] < z[i])
  BY <1>1, <1>2
<1>3. ~Before(x, z)
  BY <1>1, <1>2 DEF Before
<1> QED
  BY <1>3 DEF x, z

\* Order of quadruples by their first three.
LEMMA QuadrupleOrder ==
    ASSUME NEW a \in Int, NEW b \in Int, NEW c \in Int, NEW p \in Int,
           NEW d \in Int, NEW e \in Int, NEW f \in Int, NEW q \in Int,
           a < d \/ (a = d /\ b < e) \/ (a = d /\ b = e /\ c < f)
    PROVE  Before(<<a, b, c, p>>, <<d, e, f, q>>)
<1> DEFINE x == <<a, b, c, p>>
           z == <<d, e, f, q>>
<1>1. DOMAIN x = 1..4 /\ x[1] = a /\ x[2] = b /\ x[3] = c /\ z[1] = d /\ z[2] = e /\ z[3] = f
  OBVIOUS
<1> HIDE DEF x, z
<1>2. CASE a < d
  <2>1. 1 \in DOMAIN x /\ x[1] < z[1] /\ \A j \in 1..(1 - 1) : x[j] = z[j]
    BY <1>1, <1>2
  <2> QED BY <2>1 DEF Before, x, z
<1>3. CASE a = d /\ b < e
  <2>1. 2 \in DOMAIN x /\ x[2] < z[2] /\ \A j \in 1..(2 - 1) : x[j] = z[j]
    BY <1>1, <1>3
  <2> QED BY <2>1 DEF Before, x, z
<1>4. CASE a = d /\ b = e /\ c < f
  <2>1. 3 \in DOMAIN x /\ x[3] < z[3] /\ \A j \in 1..(3 - 1) : x[j] = z[j]
    BY <1>1, <1>4
  <2> QED BY <2>1 DEF Before, x, z
<1> QED
  BY <1>2, <1>3, <1>4

\* Where an operator comes in its layer; the layer's output is the last.
PlaceOf(op) == CHOOSE i \in DOMAIN LayerOps : LayerOps[i] = op

\* Every operator of a layer has a place, and none comes after the output.
LEMMA OpPlace ==
    ASSUME NEW op \in ToSet(LayerOps)
    PROVE  PlaceOf(op) \in Int /\ PlaceOf("hidden") \in Int /\ PlaceOf(op) <= PlaceOf("hidden")
           /\ "hidden" \in ToSet(LayerOps)
<1>1. PICK n \in Nat : /\ DOMAIN LayerOps = 1..n
                       /\ n \in 1..n /\ LayerOps[n] = "hidden"
                       /\ \A i \in 1..n : LayerOps[i] = "hidden" => i = n
  <2> DEFINE a == <<"hcpost", "hidden">>
             b == <<"qcore", "acore", "invrope", "attn", "moe", "hidden">>
  <2>1. DOMAIN a = 1..2 /\ a[1] = "hcpost" /\ a[2] = "hidden"
    OBVIOUS
  <2>2. /\ DOMAIN b = 1..6 /\ b[1] = "qcore" /\ b[2] = "acore" /\ b[3] = "invrope"
        /\ b[4] = "attn" /\ b[5] = "moe" /\ b[6] = "hidden"
    OBVIOUS
  <2>3. LayerOps = IF opt.family = "glm" THEN a ELSE b
    BY DEF LayerOps, LayerOpsGlm
  <2> HIDE DEF a, b
  <2>4. CASE opt.family = "glm"
    <3>1. \A i \in 1..2 : i = 1 \/ i = 2
      OBVIOUS
    <3> QED BY <2>1, <2>3, <2>4, <3>1
  <2>5. CASE opt.family # "glm"
    <3>1. \A i \in 1..6 : i = 1 \/ i = 2 \/ i = 3 \/ i = 4 \/ i = 5 \/ i = 6
      OBVIOUS
    <3> QED BY <2>2, <2>3, <2>5, <3>1
  <2> QED BY <2>4, <2>5
<1>2. PlaceOf("hidden") = n
  BY <1>1 DEF PlaceOf
<1>3. PlaceOf(op) \in 1..n
  <2>1. \E i \in DOMAIN LayerOps : LayerOps[i] = op
    BY DEF ToSet
  <2> QED BY <1>1, <2>1 DEF PlaceOf
<1>4. "hidden" \in ToSet(LayerOps)
  BY <1>1 DEF ToSet
<1> QED
  BY <1>2, <1>3, <1>4

\* The output of the layer that first gives a key of the first prompt, or of
\* the first decode step, has the tag and the number of that key.
LEMMA OutputOf ==
    ASSUME NEW g, NEW e \in Int, NEW y \in 0..(NumLayers - 1), NEW c, Ups(g) \in Nat, 1 - Ups(g) <= e,
           GivenFirst(g, e, y, c), c.op # "invrope", c.pass \in {0, 1}
    PROVE  \E h : Gives(g, e, y, h) /\ h.op = "hidden" /\ h.pass = c.pass /\ h.n = c.n
<1>0. NumLayers \in Nat \ {0} /\ NumLayers <= Group
  BY GroupFacts
<1>1. /\ Gives(g, e, y, c)
      /\ \A u, v : Past(g, u, v, e, y) => ~Gives(g, u, v, c)
  BY DEF GivenFirst
<1>2. /\ c.n = y
      /\ c.pass = 0 => Prompt(g, e) /\ Prompts(g, e) = {}
      /\ c.pass = 1 => Step(g, e) /\ Steps(g, e) = {}
  BY <1>1, FirstForward
<1>3. PICK h : h = KeyAt(g, e, y, "hidden")
  OBVIOUS
<1>4. Gives(g, e, y, h)
  <2>1. c.op \in ToSet(LayerOps)
    BY <1>1, GiverFacts DEF TagOf
  <2>2. "hidden" \in ToSet(LayerOps)
    BY <2>1, OpPlace
  <2> QED BY <1>1, <1>3, <2>2 DEF Gives
<1>5. h.op = "hidden" /\ h.n = y
  BY <1>3 DEF KeyAt
<1>6. CASE c.pass = 0
  <2>1. h.pass = 0
    BY <1>2, <1>3, <1>6 DEF KeyAt
  <2> QED BY <1>2, <1>4, <1>5, <1>6, <2>1
<1>7. CASE c.pass = 1
  <2>1. ~Prompt(g, e)
    BY <1>2, <1>7 DEF Prompt, Step
  <2>6. LayersOf({}) = 0
    BY LayersFacts, FS_EmptySet
  <2>2. LayersOf({}) = 0 /\ y \in Nat /\ y < Group
    BY <1>0, <2>6, CaptureAssumption
  <2>3. Calls(g, e, y) = y
    BY <1>2, <1>7, <2>1, <2>2 DEF Calls
  <2>4. y \div Group = 0
    BY <2>2, GroupFacts
  <2>5. h.pass = 1
    BY <1>3, <2>1, <2>3, <2>4 DEF KeyAt
  <2> QED BY <1>2, <1>4, <1>5, <1>7, <2>5
<1> QED
  BY <1>6, <1>7

\* The first prompt comes before the first decode step.
LEMMA PromptIsFirst ==
    ASSUME NEW g, NEW e \in Int, NEW f \in Int, Ups(g) \in Nat, 1 - Ups(g) <= e, 1 - Ups(g) <= f,
           Prompt(g, f), Prompts(g, f) = {}, Step(g, e)
    PROVE  f < e
<1>1. PICK u \in Prompts(g, e) : TRUE
  BY DEF Step
<1>2. u \in Int /\ 1 - Ups(g) <= u /\ u < e /\ Prompt(g, u)
  BY <1>1 DEF Prompts
<1>3. ~(u < f)
  BY <1>2 DEF Prompts
<1> QED
  BY <1>2, <1>3

\* A key has one first giver.
LEMMA OneGiver ==
    ASSUME NEW g, Ups(g) \in Nat
    PROVE  \A e, f \in Int : \A y, z \in 0..(NumLayers - 1) : \A j, k :
              /\ 1 - Ups(g) <= e /\ 1 - Ups(g) <= f
              /\ GivenFirst(g, e, y, j) /\ GivenFirst(g, f, z, k) /\ j.pass = k.pass /\ j.n = k.n
              => e = f /\ y = z
<1> SUFFICES ASSUME NEW e \in Int, NEW f \in Int, NEW y \in 0..(NumLayers - 1), NEW z \in 0..(NumLayers - 1),
                    NEW j, NEW k, 1 - Ups(g) <= e, 1 - Ups(g) <= f,
                    GivenFirst(g, e, y, j), GivenFirst(g, f, z, k), j.pass = k.pass, j.n = k.n
             PROVE  e = f /\ y = z
  OBVIOUS
<1> QED
  BY FirstAgrees

\* The keys that both legs have and the diff looks at.
Keys == {k \in Shared : k.op # "logits"}

\* When such a key was recorded, on the reference leg.
When(k) == <<saved["gpu"].keys[k].n, saved["gpu"].keys[k].layer, PlaceOf(k.op)>>

\* A key of the first prompt or the first step, as its first giver makes it.
Early(k, e, y) ==
    /\ e \in Int /\ e >= 1 /\ y \in 0..(NumLayers - 1) /\ GivenFirst("gpu", e, y, k)
    /\ k.n = y /\ When(k) = <<e, y, PlaceOf(k.op)>> /\ k.op \in ToSet(LayerOps)
    /\ k.pass = 0 => Prompt("gpu", e) /\ Prompts("gpu", e) = {}
    /\ k.pass = 1 => Step("gpu", e) /\ Steps("gpu", e) = {}

\* What both legs saved under a tag of the first prompt or the first step, but
\* for invrope, was recorded at its first giver.
LEMMA EarlyKeys ==
    ASSUME RunOK, KeysOK, \A l \in Leg : StartsOutside(l, 2..16),
           NEW k \in Keys, k.op # "invrope", k.pass \in {0, 1}
    PROVE  \E e, y : Early(k, e, y)
<1>1. PICK e \in Int, y \in 0..(NumLayers - 1) :
              /\ e >= 1 /\ GivenFirst("gpu", e, y, k)
              /\ saved["gpu"].keys[k] = [of |-> "work", n |-> e, layer |-> y]
  BY SharedGiver DEF Keys
<1>2. Ups("gpu") \in Nat /\ 1 - Ups("gpu") <= e
  BY <1>1, StartFacts DEF Leg
<1>3. /\ Gives("gpu", e, y, k)
      /\ \A u, v : Past("gpu", u, v, e, y) => ~Gives("gpu", u, v, k)
  BY <1>1 DEF GivenFirst
<1>4. /\ k.n = y
      /\ k.pass = 0 => Prompt("gpu", e) /\ Prompts("gpu", e) = {}
      /\ k.pass = 1 => Step("gpu", e) /\ Steps("gpu", e) = {}
  BY <1>2, <1>3, FirstForward
<1>5. k.op \in ToSet(LayerOps)
  BY <1>2, <1>3, GiverFacts DEF TagOf
<1>6. When(k) = <<e, y, PlaceOf(k.op)>>
  BY <1>1 DEF When
<1> QED
  BY <1>1, <1>4, <1>5, <1>6 DEF Early

\* The output of the layer of an early key is early too, and of the same layer.
LEMMA EarlyOutput ==
    ASSUME RunOK, KeysOK, \A l \in Leg : StartsOutside(l, 2..16),
           NEW c \in Keys, c.op # "invrope", c.pass \in {0, 1}, NEW e, NEW y, Early(c, e, y)
    PROVE  \E h \in Keys : /\ h.op = "hidden" /\ h.pass = c.pass /\ h.n = c.n
                          /\ When(h) = <<e, y, PlaceOf("hidden")>>
<1>1. e \in Int /\ e >= 1 /\ y \in 0..(NumLayers - 1) /\ GivenFirst("gpu", e, y, c)
  BY DEF Early
<1>2. Ups("gpu") \in Nat /\ 1 - Ups("gpu") <= e
  BY <1>1, StartFacts DEF Leg
<1>3. PICK h : Gives("gpu", e, y, h) /\ h.op = "hidden" /\ h.pass = c.pass /\ h.n = c.n
  BY <1>1, <1>2, OutputOf
<1>4. PICK u \in Int, v \in 0..(NumLayers - 1) :
         u >= 1 /\ GivenFirst("gpu", u, v, c) /\ \A x : Gives("gpu", u, v, x) => x \in Shared
  BY SharedGiver DEF Keys
<1>5. u = e /\ v = y
  <2>1. 1 - Ups("gpu") <= u
    BY <1>2, <1>4
  <2> QED BY <1>1, <1>2, <1>4, <2>1, OneGiver
<1>6. h \in Keys
  BY <1>3, <1>4, <1>5 DEF Keys
<1>7. PICK f, z : Early(h, f, z)
  BY <1>3, <1>6, EarlyKeys
<1>8. f \in Int /\ f >= 1 /\ z \in 0..(NumLayers - 1) /\ GivenFirst("gpu", f, z, h) /\ When(h) = <<f, z, PlaceOf(h.op)>>
  BY <1>7 DEF Early
<1>9. f = e /\ z = y
  <2>1. 1 - Ups("gpu") <= f
    BY <1>2, <1>8
  <2> QED BY <1>1, <1>2, <1>3, <1>8, <2>1, OneGiver
<1> QED
  BY <1>3, <1>6, <1>8, <1>9

\* The sort key of a layer's output, and of any other key the diff looks at.
LEMMA SortFacts ==
    ASSUME NEW k, k.op # "logits"
    PROVE  /\ k.op \in {"hidden", "hcpost"} =>
                 \E b \in {0, 1} : SortKey(k) = <<0, k.pass, k.n, b>> /\ (k.op = "hidden" => b = 0)
           /\ k.op \notin {"hidden", "hcpost"} => SortKey(k) = <<2, 0, 0, 0>>
<1>1. CASE k.op = "hcpost"
  BY <1>1 DEF SortKey
<1>2. CASE k.op = "hidden"
  BY <1>2 DEF SortKey
<1>3. CASE k.op \notin {"hidden", "hcpost"}
  BY <1>3 DEF SortKey
<1> QED
  BY <1>1, <1>2, <1>3

\* What the diff can name first is of the layer at which the legs part.
LEMMA NamesLayer ==
    ASSUME RunOK, KeysOK, \A l \in Leg : StartsOutside(l, 2..16),
           NEW c \in Keys, c.op # "invrope", c.pass <= 1,
           NEW k \in Keys, ~Before(When(k), When(c)),
           \A j \in Keys : ~Before(When(j), When(c)) => ~Before(SortKey(j), SortKey(k))
    PROVE  k.pass = c.pass /\ k.n = c.n
<1>0. Ups("gpu") \in Nat /\ NumLayers \in Nat
  BY StartFacts, CaptureAssumption DEF Leg
<1>1. ASSUME NEW j \in Keys PROVE j.pass \in Nat
  <2>1. PICK u \in Int, v \in 0..(NumLayers - 1) : GivenFirst("gpu", u, v, j)
    BY SharedGiver DEF Keys
  <2>2. Gives("gpu", u, v, j)
    BY <2>1 DEF GivenFirst
  <2>3. TagOf("gpu", u, v, j)
    BY <1>0, <2>2, GiverFacts
  <2> QED BY <2>3 DEF TagOf
<1>2. c.pass \in {0, 1}
  BY <1>1
<1>3. PICK e, y : Early(c, e, y)
  BY <1>2, EarlyKeys
<1>4. e \in Int /\ e >= 1 /\ y \in Int /\ c.n = y /\ When(c) = <<e, y, PlaceOf(c.op)>> /\ c.op \in ToSet(LayerOps)
  BY <1>3 DEF Early
<1>5. PICK h \in Keys : h.op = "hidden" /\ h.pass = c.pass /\ h.n = c.n /\ When(h) = <<e, y, PlaceOf("hidden")>>
  BY <1>2, <1>3, EarlyOutput
<1>6. ~Before(SortKey(h), SortKey(k))
  <2>1. PlaceOf(c.op) \in Int /\ PlaceOf("hidden") \in Int /\ PlaceOf(c.op) <= PlaceOf("hidden")
    BY <1>4, OpPlace
  <2>2. ~Before(When(h), When(c))
    BY <1>4, <1>5, <2>1, TripleOrderOnly
  <2> QED BY <2>2
<1>7. SortKey(h) = <<0, c.pass, c.n, 0>>
  BY <1>5, SortFacts DEF Keys
<1>8. c.pass \in Int /\ c.n \in Int
  BY <1>2, <1>4
<1>9. k.op \in {"hidden", "hcpost"}
  <2> SUFFICES ASSUME k.op \notin {"hidden", "hcpost"} PROVE FALSE
    OBVIOUS
  <2>1. SortKey(k) = <<2, 0, 0, 0>>
    BY SortFacts DEF Keys
  <2>2. Before(<<0, c.pass, c.n, 0>>, <<2, 0, 0, 0>>)
    BY <1>8, QuadrupleOrder
  <2> QED BY <1>6, <1>7, <2>1, <2>2
<1>10. PICK b \in {0, 1} : SortKey(k) = <<0, k.pass, k.n, b>>
  BY <1>9, SortFacts DEF Keys
<1>11. k.pass \in Nat
  BY <1>1
<1>12. k.pass \in {0, 1}
  <2>1. ASSUME c.pass < k.pass PROVE FALSE
    <3>1. k.n \in Int
      <4>1. PICK u \in Int, v \in 0..(NumLayers - 1) : GivenFirst("gpu", u, v, k)
        BY SharedGiver DEF Keys
      <4>2. Gives("gpu", u, v, k)
        BY <4>1 DEF GivenFirst
      <4>3. k.n = v
        BY <1>0, <1>9, <4>2, GiverFacts DEF TagOf
      <4> QED BY <4>3
    <3>2. Before(<<0, c.pass, c.n, 0>>, <<0, k.pass, k.n, b>>)
      BY <1>8, <1>11, <2>1, <3>1, QuadrupleOrder
    <3> QED BY <1>6, <1>7, <1>10, <3>2
  <2> QED BY <1>2, <1>11, <2>1
<1>13. PICK f, z : Early(k, f, z)
  BY <1>9, <1>12, EarlyKeys
<1>14. f \in Int /\ f >= 1 /\ z \in Int /\ k.n = z /\ When(k) = <<f, z, PlaceOf(k.op)>> /\ k.op \in ToSet(LayerOps)
  BY <1>13 DEF Early
<1>15. PlaceOf(c.op) \in Int /\ PlaceOf(k.op) \in Int
  BY <1>4, <1>14, OpPlace
<1>16. ~(c.pass < k.pass) /\ ~(c.pass = k.pass /\ c.n < k.n)
  <2>1. PICK m, n, u, v : /\ m = c.pass /\ n = c.n /\ u = k.pass /\ v = k.n
                         /\ m \in Int /\ n \in Int /\ u \in Int /\ v \in Int
    BY <1>8, <1>11, <1>14
  <2>2. ~Before(<<0, m, n, 0>>, <<0, u, v, b>>)
    BY <1>6, <1>7, <1>10, <2>1
  <2>3. ASSUME m < u \/ (m = u /\ n < v) PROVE FALSE
    <3>1. b \in Int /\ 0 \in Int
      OBVIOUS
    <3>2. CASE m < u
      <4>1. Before(<<0, m, n, 0>>, <<0, u, v, b>>)
        BY <2>1, <3>1, <3>2, QuadrupleOrder
      <4> QED BY <2>2, <4>1
    <3>3. CASE m = u /\ n < v
      <4>1. Before(<<0, m, n, 0>>, <<0, u, v, b>>)
        BY <2>1, <3>1, <3>3, QuadrupleOrder
      <4> QED BY <2>2, <4>1
    <3> QED BY <2>3, <3>2, <3>3
  <2> QED BY <2>1, <2>3
<1>17. ~(f < e) /\ ~(f = e /\ z < y)
  <2>1. ASSUME f < e \/ (f = e /\ z < y) PROVE FALSE
    <3>1. Before(<<f, z, PlaceOf(k.op)>>, <<e, y, PlaceOf(c.op)>>)
      BY <1>4, <1>14, <1>15, <2>1, TripleOrder
    <3> QED BY <1>4, <1>14, <3>1
  <2> QED BY <2>1
<1>18. k.pass = c.pass
  <2>1. ASSUME k.pass = 0, c.pass = 1 PROVE FALSE
    <3>1. Prompt("gpu", f) /\ Prompts("gpu", f) = {} /\ Step("gpu", e)
      BY <1>3, <1>13, <2>1 DEF Early
    <3>2. f < e
      BY <1>0, <1>4, <1>14, <3>1, PromptIsFirst
    <3> QED BY <1>17, <3>2
  <2> QED BY <1>2, <1>12, <1>16, <2>1
<1>19. f = e
  <2>1. \/ Prompt("gpu", e) /\ Prompts("gpu", e) = {} /\ Prompt("gpu", f) /\ Prompts("gpu", f) = {}
        \/ Step("gpu", e) /\ Steps("gpu", e) = {} /\ Step("gpu", f) /\ Steps("gpu", f) = {}
    BY <1>2, <1>3, <1>13, <1>18 DEF Early
  <2> QED BY <1>0, <1>4, <1>14, <2>1, OnlyOneFirst
<1> QED
  BY <1>4, <1>14, <1>16, <1>17, <1>18, <1>19

\* The first key in which the legs differ is of the tag and the layer of the
\* first computation in which they do.
LEMMA FirstIsNamed == RunOK /\ KeysOK => DiffNamesLayer
<1> SUFFICES ASSUME RunOK, KeysOK, \A l \in Leg : StartsOutside(l, 2..16),
                    NEW c \in Keys, c.pass <= 1, c.op # "invrope",
                    NEW k \in FirstDivergence({d \in Keys : ~Before(When(d), When(c))})
             PROVE  k.pass = c.pass /\ k.n = c.n
  BY DEF DiffNamesLayer, Keys, When, PlaceOf
<1>1. /\ k \in Keys /\ ~Before(When(k), When(c))
      /\ \A j \in Keys : ~Before(When(j), When(c)) => ~Before(SortKey(j), SortKey(k))
  BY DEF FirstDivergence
<1> QED
  BY <1>1, NamesLayer

-----------------------------------------------------------------------------
(* The bounds of the counters and of the tags.                               *)

\* There are no more decode steps than forwards.
LEMMA StepsBounded ==
    ASSUME NEW g, Ups(g) \in Nat, NEW e \in Int, 1 - Ups(g) <= e, NEW m \in Nat, m = e - 1 + Ups(g)
    PROVE  LayersOf(Steps(g, e)) <= NumLayers * m
<1> DEFINE S == (1 - Ups(g))..(e - 1)
<1>1. IsFiniteSet(S) /\ Cardinality(S) <= m /\ Cardinality(S) \in Nat
  <2>1. PICK a \in Int, b \in Int : a = 1 - Ups(g) /\ b = e - 1
    OBVIOUS
  <2>2. IsFiniteSet(a..b) /\ Cardinality(a..b) = IF a > b THEN 0 ELSE b - a + 1
    BY FS_Interval
  <2> QED BY <2>1, <2>2
<1>2. Steps(g, e) \subseteq S
  BY DEF Steps
<1> HIDE DEF S
<1>3. Cardinality(Steps(g, e)) <= Cardinality(S) /\ IsFiniteSet(Steps(g, e))
  BY <1>1, <1>2, FS_Subset
<1>4. PICK c \in Nat : c = Cardinality(Steps(g, e)) /\ c <= m
  BY <1>1, <1>3, FS_CardinalityType
<1>5. NumLayers \in Nat
  BY CaptureAssumption
<1>6. NumLayers * c <= NumLayers * m
  BY <1>4, <1>5
<1> QED
  BY <1>4, <1>6 DEF LayersOf

\* The decode counter is one of layer calls of decode steps.
LEMMA CounterBounded ==
    ASSUME RunOK, KeysOK
    PROVE  st.dc \in 0..(at * NumLayers)
<1>0. NumLayers \in Nat /\ at \in Nat /\ layer \in Nat /\ layer <= NumLayers
  BY CaptureAssumption DEF RunOK
<1>9. \A m \in Nat : NumLayers * m \in Nat /\ m * NumLayers = NumLayers * m
                     /\ NumLayers * (m + 1) = NumLayers * m + NumLayers
  BY <1>0
<1>1. CASE leg \notin Leg
  BY <1>0, <1>1, <1>9 DEF KeysOK, Start
<1>2. CASE leg \in Leg
  <2>1. /\ Place \in Int /\ 1 - Ups(leg) <= Place /\ Ups(leg) \in Nat
    BY <1>2, PlaceFacts
  <2>2. PICK c \in Nat : c = LayersOf(Steps(leg, Place))
    BY <2>1, EarlierFacts, LayersFacts
  <2>3. st.dc = c + (IF Step(leg, Place) THEN Depth ELSE 0) /\ st.dc \in Nat
    BY <1>2, <2>2 DEF KeysOK, CountOK
  <2>4. CASE pc = "idle"
    <3>1. Depth = 0 /\ at = Place - 1 + Ups(leg)
      BY <1>0, <2>1, <2>4 DEF Depth, Place
    <3>2. c <= NumLayers * at
      BY <1>0, <2>1, <2>2, <3>1, StepsBounded
    <3>3. st.dc = c
      BY <2>2, <2>3, <3>1
    <3> QED BY <1>0, <1>9, <2>3, <3>2, <3>3
  <2>5. CASE pc # "idle"
    <3>1. PICK m \in Nat : m = at - 1
      BY <1>0, <2>5 DEF RunOK
    <3>2. Depth = layer /\ m = Place - 1 + Ups(leg)
      BY <1>0, <2>1, <2>5, <3>1 DEF Depth, Place
    <3>3. c <= NumLayers * m
      BY <2>1, <2>2, <3>1, <3>2, StepsBounded
    <3>4. st.dc <= c + layer
      BY <1>0, <2>2, <2>3, <3>2
    <3>5. at * NumLayers = NumLayers * m + NumLayers
      <4>1. at = m + 1
        BY <1>0, <3>1
      <4> QED BY <1>0, <1>9, <4>1
    <3>6. PICK z \in Nat : z = NumLayers * m
      BY <1>9
    <3>7. st.dc <= z + NumLayers /\ z + NumLayers \in Nat
      BY <1>0, <2>2, <2>3, <3>3, <3>4, <3>6
    <3> QED BY <2>3, <3>5, <3>6, <3>7
  <2> QED BY <2>4, <2>5
<1> QED
  BY <1>1, <1>2

\* The layer calls of an earlier decode step are behind the counter.
LEMMA CallsCounted ==
    ASSUME RunOK, KeysOK, leg \in Leg, NEW e, NEW y, Past(leg, e, y, Place, Depth), Step(leg, e)
    PROVE  Calls(leg, e, y) \in Nat /\ Calls(leg, e, y) <= st.dc /\ st.dc \in Nat
<1>0. /\ Place \in Int /\ 1 - Ups(leg) <= Place /\ Ups(leg) \in Nat /\ Depth \in Nat
  BY PlaceFacts
<1>1. /\ e \in Int /\ e >= 1 - Ups(leg) /\ y \in Nat /\ y < NumLayers /\ NumLayers \in Nat
      /\ e < Place \/ (e = Place /\ y < Depth)
  BY CaptureAssumption DEF Past
<1>2. PICK b \in Nat, c \in Nat : b = LayersOf(Steps(leg, e)) /\ c = LayersOf(Steps(leg, Place))
  <2>1. LayersOf(Steps(leg, e)) \in Nat
    BY <1>0, <1>1, EarlierFacts, LayersFacts
  <2>2. LayersOf(Steps(leg, Place)) \in Nat
    BY <1>0, EarlierFacts, LayersFacts
  <2> QED BY <2>1, <2>2
<1>3. st.dc = c + (IF Step(leg, Place) THEN Depth ELSE 0) /\ st.dc \in Nat
  BY <1>2 DEF KeysOK, CountOK
<1>4. ~Prompt(leg, e)
  BY DEF Prompt, Step
<1>5. Calls(leg, e, y) = y + b
  BY <1>2, <1>4 DEF Calls
<1>6. CASE e < Place
  <2>1. b + NumLayers <= c
    BY <1>0, <1>1, <1>2, <1>6, EarlierGrow
  <2>2. c <= st.dc
    BY <1>0, <1>2, <1>3
  <2> QED BY <1>1, <1>2, <1>3, <1>5, <2>1, <2>2
<1>7. CASE e = Place /\ y < Depth
  <2>1. b = c /\ st.dc = c + Depth
    BY <1>2, <1>3, <1>7
  <2> QED BY <1>0, <1>1, <1>2, <1>3, <1>5, <1>7, <2>1
<1> QED
  BY <1>1, <1>6, <1>7

\* The tags are those of prompts and of decode steps so far, and what is
\* recorded is an origin.
LEMMA TagsBounded ==
    ASSUME RunOK, KeysOK, NEW k \in DOMAIN cap
    PROVE  cap[k] \in OriginType /\ k.pass \in 0..(1 + (st.dc \div Group))
<1>0. st.dc \in Nat /\ st.dc \div Group \in Nat
  <2>1. st.dc \in Nat
    <3>1. NumLayers \in Nat /\ at \in Nat
      BY CaptureAssumption DEF RunOK
    <3> QED BY <3>1, CounterBounded
  <2> QED BY <2>1, GroupFacts
<1>1. CASE leg \notin Leg
  BY <1>1 DEF KeysOK, Empty
<1>2. CASE leg \in Leg /\ k.op = "logits"
  <2>1. k.pass = 0 /\ cap[k] \in OriginType
    BY <1>2 DEF KeysOK
  <2> QED BY <1>0, <2>1
<1>3. CASE leg \in Leg /\ k.op # "logits"
  <2>1. FirstOK(leg, cap, Place, Depth)
    BY <1>3 DEF KeysOK
  <2>2. PICK e, y : /\ Past(leg, e, y, Place, Depth) /\ Gives(leg, e, y, k)
                    /\ cap[k] = OriginAt(leg, e, y)
    BY <1>3, <2>1 DEF FirstOK
  <2>3. /\ Ups(leg) \in Nat /\ NumLayers \in Nat
        /\ e \in Int /\ e >= 1 - Ups(leg) /\ y \in 0..(NumLayers - 1)
    BY <1>3, <2>2, StartFacts, CaptureAssumption DEF Past
  <2>4. cap[k] \in OriginType
    <3>1. CASE e <= 0
      <4>1. e + Ups(leg) \in Nat \ {0}
        BY <2>3, <3>1
      <4> QED BY <2>2, <2>3, <3>1, <4>1 DEF OriginAt, OriginType
    <3>2. CASE ~(e <= 0)
      BY <2>2, <2>3, <3>2 DEF OriginAt, OriginType
    <3> QED BY <3>1, <3>2
  <2>5. TagOf(leg, e, y, k)
    <3>1. PICK g : g = leg
      OBVIOUS
    <3>2. TagOf(g, e, y, k)
      BY <2>2, <2>3, <3>1, GiverFacts
    <3> QED BY <3>1, <3>2
  <2>6. CASE k.pass = 0
    BY <1>0, <2>4, <2>6
  <2>7. CASE k.pass # 0
    <3>1. Step(leg, e) /\ (k.pass = 1 \/ k.pass = 1 + Calls(leg, e, y) \div Group)
      BY <2>5, <2>7 DEF TagOf
    <3>2. Calls(leg, e, y) \in Nat /\ Calls(leg, e, y) <= st.dc
      BY <1>3, <2>2, <3>1, CallsCounted
    <3>3. PICK q \in Nat, d \in Nat : q = Calls(leg, e, y) \div Group /\ d = st.dc \div Group /\ q <= d
      BY <1>0, <3>2, GroupFacts
    <3>4. k.pass \in 0..(1 + d)
      BY <3>1, <3>3
    <3> QED BY <2>4, <3>3, <3>4
  <2> QED BY <2>6, <2>7
<1> QED
  BY <1>1, <1>2, <1>3

-----------------------------------------------------------------------------
(* The traces, in closed form.                                               *)

\* The batches that a tap of leg l leaves out, and the forwards it looks at.
TooLong(l, tap) ==
    IF tap \in AttentionTaps \/ (l = "gpu" /\ tap \notin {SinkTap, LogitsTap}) THEN 32 ELSE 1000

Seen(l, tap, e) == Tokens(l, e) < TooLong(l, tap)
SeenBefore(l, tap, e) == {u \in (1 - Ups(l))..(e - 1) : Seen(l, tap, u)}

\* The taps within a layer, all but the logits'.
LayerTaps == Taps \ {LogitsTap}

\* The layers that a tap has looked at when y layers of forward e are done,
\* and the lines they are worth without a limit.
Ran(l, tap, e, y) == LayersOf(SeenBefore(l, tap, e)) + (IF Seen(l, tap, e) THEN y ELSE 0)
Lines(l, tap, e, y) == CallsPerLayer(tap) * Ran(l, tap, e, y)

\* s is what the tap has written before layer j of forward i: up to its limit,
\* line x is of the layer whose lines x is among.
LinesOK(l, tap, s, i, j) ==
    /\ s \in Seq(OriginType)
    /\ Lines(l, tap, i, j) <= Limits[l][tap] => Len(s) = Lines(l, tap, i, j)
    /\ Limits[l][tap] <= Lines(l, tap, i, j) => Len(s) = Limits[l][tap]
    /\ \A x \in 1..Len(s) : \E e, y :
          /\ Past(l, e, y, i, j) /\ Seen(l, tap, e) /\ s[x] = OriginAt(l, e, y)
          /\ Lines(l, tap, e, y) < x /\ x <= Lines(l, tap, e, y) + CallsPerLayer(tap)

\* s is what the tap of the logits has written in a forwards: one line each.
LogitsOK(l, s, a) ==
    /\ s \in Seq(OriginType)
    /\ a <= Limits[l][LogitsTap] => Len(s) = a
    /\ Limits[l][LogitsTap] <= a => Len(s) = Limits[l][LogitsTap]
    /\ \A x \in 1..Len(s) : s[x] = OriginAt(l, x - Ups(l), NumLayers)

\* A trace of leg l is that of the forwards it has run, all of them so far if
\* the leg is the one that runs.
TapOK(l, tap) ==
    \E i \in Int, j \in Nat :
        /\ 1 - Ups(l) <= i /\ Known(i, j) /\ LinesOK(l, tap, trace[l][tap], i, j)
        /\ l = leg => i = Place /\ j = Depth

\* The forwards of this leg whose logits are taken.
Taken == IF pc = "layer" THEN at - 1 ELSE at

\* A trace of logits is of the forwards whose logits leg l has taken.
LogitsTapOK(l) ==
    \E a \in Nat :
        /\ LogitsOK(l, trace[l][LogitsTap], a)
        /\ l = leg /\ pc # "dead" => a = Taken

\* The invariant of the traces: only DSV4 legs are traced, and the second
\* leg's traces are empty until it runs.
TraceOK ==
    /\ trace \in [Leg -> [Taps -> Seq(OriginType)]]
    /\ opt.family # "dsv4" => \A l \in Leg, tap \in Taps : trace[l][tap] = <<>>
    /\ leg = "gpu" => \A tap \in Taps : trace["cpu"][tap] = <<>>
    /\ opt.family = "dsv4" =>
          \A l \in Leg : (\A tap \in LayerTaps : TapOK(l, tap)) /\ LogitsTapOK(l)

\* What the taps are: their lines to a layer, and their limits.
LEMMA TapFacts ==
    /\ \A tap \in LayerTaps : CallsPerLayer(tap) \in {1, 2}
    /\ CallsPerLayer(LogitsTap) = 0 /\ LogitsTap \in Taps
    /\ \A l \in Leg, tap \in Taps : Limits[l][tap] \in Nat
    /\ LayerTaps \subseteq Taps
<1>1. \A tap \in LayerTaps : CallsPerLayer(tap) \in {1, 2}
  BY DEF LayerTaps, CallsPerLayer, LogitsTap, SinkTap
<1>2. CallsPerLayer(LogitsTap) = 0 /\ LogitsTap \in Taps
  BY DEF CallsPerLayer, LogitsTap, SinkTap, Taps
<1> QED
  BY <1>1, <1>2, LimitsAssumption DEF LayerTaps

\* The layers looked at: one more, the next forward, and none at first.
LEMMA RanFacts ==
    ASSUME NEW l, NEW tap, NEW e \in Int, Ups(l) \in Nat, 1 - Ups(l) <= e
    PROVE  /\ \A y \in Nat : Ran(l, tap, e, y) \in Nat
           /\ \A y \in Nat : Ran(l, tap, e, y + 1) = IF Seen(l, tap, e) THEN Ran(l, tap, e, y) + 1
                                                    ELSE Ran(l, tap, e, y)
           /\ Ran(l, tap, e + 1, 0) = Ran(l, tap, e, NumLayers)
           /\ e = 1 - Ups(l) => Ran(l, tap, e, 0) = 0
<1>0. NumLayers \in Nat
  BY CaptureAssumption
<1>1. IsFiniteSet(SeenBefore(l, tap, e))
  <2>1. IsFiniteSet((1 - Ups(l))..(e - 1))
    BY FS_Interval
  <2> QED BY <2>1, FS_Subset DEF SeenBefore
<1>2. PICK b \in Nat : b = LayersOf(SeenBefore(l, tap, e))
  BY <1>1, LayersFacts
<1>3. \A y \in Nat : Ran(l, tap, e, y) = IF Seen(l, tap, e) THEN b + y ELSE b
  BY <1>2 DEF Ran
<1>4. \A y \in Nat : Ran(l, tap, e, y) \in Nat
  BY <1>3
<1>5. ASSUME NEW y \in Nat
      PROVE  Ran(l, tap, e, y + 1) = IF Seen(l, tap, e) THEN Ran(l, tap, e, y) + 1 ELSE Ran(l, tap, e, y)
  <2>1. y + 1 \in Nat
    OBVIOUS
  <2>2. CASE Seen(l, tap, e)
    BY <1>3, <2>1, <2>2
  <2>3. CASE ~Seen(l, tap, e)
    BY <1>3, <2>1, <2>3
  <2> QED BY <2>2, <2>3
<1>6. Ran(l, tap, e + 1, 0) = Ran(l, tap, e, NumLayers)
  <2>1. (1 - Ups(l))..((e + 1) - 1) = (1 - Ups(l))..(e - 1) \cup {e} /\ e \notin (1 - Ups(l))..(e - 1)
    OBVIOUS
  <2>2. CASE Seen(l, tap, e)
    <3>1. SeenBefore(l, tap, e + 1) = SeenBefore(l, tap, e) \cup {e} /\ e \notin SeenBefore(l, tap, e)
      BY <2>1, <2>2 DEF SeenBefore
    <3>2. LayersOf(SeenBefore(l, tap, e + 1)) = b + NumLayers
      BY <1>1, <1>2, <3>1, LayersFacts
    <3>3. b + NumLayers + 0 = b + NumLayers
      BY <1>0
    <3> QED BY <1>0, <1>3, <2>2, <3>2, <3>3 DEF Ran
  <2>3. CASE ~Seen(l, tap, e)
    <3>1. SeenBefore(l, tap, e + 1) = SeenBefore(l, tap, e)
      BY <2>1, <2>3 DEF SeenBefore
    <3>2. b + 0 = b
      OBVIOUS
    <3> QED BY <1>0, <1>2, <1>3, <2>3, <3>1, <3>2 DEF Ran
  <2> QED BY <2>2, <2>3
<1>7. ASSUME e = 1 - Ups(l) PROVE Ran(l, tap, e, 0) = 0
  <2>1. SeenBefore(l, tap, e) = {}
    BY <1>7 DEF SeenBefore
  <2>2. LayersOf({}) = 0
    BY LayersFacts, FS_EmptySet
  <2> QED BY <1>2, <1>3, <2>1, <2>2
<1> QED
  BY <1>4, <1>5, <1>6, <1>7

\* What was looked at before a layer that is looked at.
LEMMA RanApart ==
    ASSUME NEW l, NEW tap, NEW e \in Int, NEW f \in Int, Ups(l) \in Nat, 1 - Ups(l) <= e, 1 - Ups(l) <= f,
           NEW y \in 0..(NumLayers - 1), NEW z \in 0..(NumLayers - 1),
           Seen(l, tap, e), Seen(l, tap, f), e < f \/ (e = f /\ y < z)
    PROVE  Ran(l, tap, e, y) + 1 <= Ran(l, tap, f, z)
<1>0. NumLayers \in Nat /\ y \in Nat /\ z \in Nat /\ y + 1 <= NumLayers
  BY CaptureAssumption
<1>1. IsFiniteSet(SeenBefore(l, tap, e)) /\ IsFiniteSet(SeenBefore(l, tap, f))
  <2>1. ASSUME NEW g \in Int PROVE IsFiniteSet(SeenBefore(l, tap, g))
    <3>1. IsFiniteSet((1 - Ups(l))..(g - 1))
      BY FS_Interval
    <3> QED BY <3>1, FS_Subset DEF SeenBefore
  <2> QED BY <2>1
<1>2. LayersOf(SeenBefore(l, tap, e)) \in Nat
  BY <1>1, LayersFacts
<1>3. LayersOf(SeenBefore(l, tap, f)) \in Nat
  BY <1>1, LayersFacts
<1>4. PICK a \in Nat, b \in Nat : a = LayersOf(SeenBefore(l, tap, e)) /\ b = LayersOf(SeenBefore(l, tap, f))
  BY <1>2, <1>3
<1>5. Ran(l, tap, e, y) = a + y /\ Ran(l, tap, f, z) = b + z
  BY <1>4 DEF Ran
<1>6. CASE e = f /\ y < z
  BY <1>0, <1>4, <1>5, <1>6
<1>7. CASE e < f
  <2>1. SeenBefore(l, tap, e) \in SUBSET SeenBefore(l, tap, f) /\ e \in SeenBefore(l, tap, f)
        /\ e \notin SeenBefore(l, tap, e)
    BY <1>7 DEF SeenBefore
  <2>2. LayersOf(SeenBefore(l, tap, e)) + NumLayers <= LayersOf(SeenBefore(l, tap, f))
    BY <1>1, <2>1, LayersFacts
  <2>3. a + NumLayers <= b
    BY <1>4, <2>2
  <2> QED BY <1>0, <1>4, <1>5, <2>3
<1> QED
  BY <1>6, <1>7

\* Lines of different layers are apart.
LEMMA LinesApart ==
    ASSUME NEW l, NEW tap \in LayerTaps, NEW e \in Int, NEW f \in Int, Ups(l) \in Nat, 1 - Ups(l) <= e, 1 - Ups(l) <= f,
           NEW y \in 0..(NumLayers - 1), NEW z \in 0..(NumLayers - 1),
           Seen(l, tap, e), Seen(l, tap, f), NEW x \in Nat,
           Lines(l, tap, e, y) < x, x <= Lines(l, tap, e, y) + CallsPerLayer(tap),
           Lines(l, tap, f, z) < x, x <= Lines(l, tap, f, z) + CallsPerLayer(tap)
    PROVE  e = f /\ y = z
<1>0. y \in Nat /\ z \in Nat
  BY CaptureAssumption
<1>1. Ran(l, tap, e, y) \in Nat
  BY <1>0, RanFacts
<1>2. Ran(l, tap, f, z) \in Nat
  BY <1>0, RanFacts
<1>3. PICK a \in Nat, b \in Nat, c \in {1, 2} : a = Ran(l, tap, e, y) /\ b = Ran(l, tap, f, z) /\ c = CallsPerLayer(tap)
  BY <1>1, <1>2, TapFacts
<1>4. c * a < x /\ x <= c * a + c /\ c * b < x /\ x <= c * b + c
  BY <1>3 DEF Lines
<1>5. ~(a + 1 <= b) /\ ~(b + 1 <= a)
  <2>1. CASE c = 1
    BY <1>3, <1>4, <2>1
  <2>2. CASE c = 2
    BY <1>3, <1>4, <2>2
  <2> QED BY <2>1, <2>2
<1>6. ~(e < f) /\ ~(e = f /\ y < z)
  BY <1>3, <1>5, RanApart
<1>7. ~(f < e) /\ ~(f = e /\ z < y)
  <2>1. ASSUME NEW g \in Int, NEW h \in Int, g = f, h = e, NEW v \in 0..(NumLayers - 1), NEW w \in 0..(NumLayers - 1), v = z, w = y,
               g < h \/ (g = h /\ v < w)
        PROVE  FALSE
    <3>1. Ran(l, tap, g, v) + 1 <= Ran(l, tap, h, w)
      BY <2>1, RanApart
    <3> QED BY <1>3, <1>5, <2>1, <3>1
  <2> QED BY <2>1
<1> QED
  BY <1>0, <1>6, <1>7

\* Under the premises of TracePairs either leg looks only at the work, and at
\* the same forwards of it.
Pairing(tap) ==
    /\ \A l \in Leg : StartsOutside(l, 1..31)
    /\ tap \in {SinkTap, LogitsTap} => \A l \in Leg : opt.start[l] = <<>>
    /\ tap \in {"layer", "hcpre", "hcpost"} =>
          /\ opt.start["cpu"] = <<>>
          /\ \A i \in DOMAIN work : TokensIn[work[i]] < 32

\* A tap that pairs looks at the same forwards on both legs, none of a start-up.
LEMMA SeenAlike ==
    ASSUME RunOK, NEW tap \in LayerTaps, Pairing(tap)
    PROVE  /\ \A l \in Leg : \A e \in Int : 1 - Ups(l) <= e /\ Seen(l, tap, e) => e >= 1
           /\ \A e \in 1..Works : Seen("gpu", tap, e) <=> Seen("cpu", tap, e)
<1>0. /\ \A l \in Leg : Ups(l) \in Nat /\ DOMAIN opt.start[l] = 1..Ups(l)
      /\ \A l \in Leg : \A i \in 1..Ups(l) : TokensIn[opt.start[l][i]] \in Nat \ {0}
      /\ DOMAIN work = 1..Works /\ Works \in Nat
  <2>1. \A l \in Leg : \A i \in 1..Ups(l) : opt.start[l][i] \in DOMAIN TokensIn
    BY StartFacts
  <2> QED BY <2>1, StartFacts, LenProperties DEF Ups
<1>1. \A l \in Leg : TooLong(l, tap) <= 32 \/ opt.start[l] = <<>>
  <2>1. tap \in AttentionTaps \/ tap \in {SinkTap} \/ tap \in {"layer", "hcpre", "hcpost"}
    BY DEF LayerTaps, Taps
  <2>2. CASE tap \in AttentionTaps
    BY <2>2 DEF TooLong
  <2>3. CASE tap \in {SinkTap}
    BY <2>3 DEF Pairing
  <2>4. CASE tap \in {"layer", "hcpre", "hcpost"}
    <3>1. tap \notin {SinkTap, LogitsTap}
      BY <2>4 DEF SinkTap, LogitsTap
    <3>2. TooLong("gpu", tap) <= 32
      BY <3>1 DEF TooLong
    <3>3. opt.start["cpu"] = <<>>
      BY <2>4 DEF Pairing
    <3> QED BY <3>2, <3>3 DEF Leg
  <2> QED BY <2>1, <2>2, <2>3, <2>4
<1>2. ASSUME NEW l \in Leg, NEW e \in Int, 1 - Ups(l) <= e, Seen(l, tap, e), ~(e >= 1) PROVE FALSE
  <2>1. e + Ups(l) \in 1..Ups(l)
    BY <1>0, <1>2
  <2>2. Tokens(l, e) = TokensIn[opt.start[l][e + Ups(l)]]
    BY <1>2 DEF Tokens
  <2>3. Tokens(l, e) \in Nat \ {0} /\ Tokens(l, e) \notin 1..31
    BY <1>0, <2>1, <2>2 DEF Pairing, StartsOutside
  <2>4. opt.start[l] # <<>>
    <3>1. opt.start[l] = <<>> => Ups(l) = 0
      BY DEF Ups
    <3> QED BY <1>0, <2>1, <3>1
  <2>5. TooLong(l, tap) <= 32 /\ TooLong(l, tap) \in Nat
    BY <1>1, <2>4 DEF TooLong
  <2>6. Tokens(l, e) < TooLong(l, tap)
    BY <1>2 DEF Seen
  <2> QED BY <2>3, <2>5, <2>6
<1>3. ASSUME NEW e \in 1..Works PROVE Seen("gpu", tap, e) <=> Seen("cpu", tap, e)
  <2>0. e >= 1
    BY <1>0
  <2>1. Tokens("gpu", e) = TokensIn[work[e]] /\ Tokens("cpu", e) = TokensIn[work[e]]
    BY <1>0, <2>0 DEF Tokens
  <2>2. CASE tap \in AttentionTaps
    BY <2>1, <2>2 DEF Seen, TooLong
  <2>3. CASE tap \in {SinkTap}
    BY <2>1, <2>3 DEF Seen, TooLong
  <2>4. CASE tap \in {"layer", "hcpre", "hcpost"}
    <3>1. TokensIn[work[e]] < 32 /\ TokensIn[work[e]] \in Nat
      BY <1>0, <2>4, StartFacts DEF Pairing
    <3> QED BY <2>1, <3>1 DEF Seen, TooLong
  <2> QED BY <2>2, <2>3, <2>4 DEF LayerTaps, Taps
<1> QED
  BY <1>2, <1>3

\* So their lines are numbered alike.
LEMMA LinesAgree ==
    ASSUME RunOK, NEW tap \in LayerTaps, Pairing(tap), NEW e \in 1..Works, NEW y
    PROVE  Lines("gpu", tap, e, y) = Lines("cpu", tap, e, y)
<1>0. Works \in Nat /\ \A l \in Leg : Ups(l) \in Nat
  BY StartFacts
<1>1. ASSUME NEW l \in Leg PROVE SeenBefore(l, tap, e) = {u \in 1..(e - 1) : Seen(l, tap, u)}
  <2>1. \A u : u \in (1 - Ups(l))..(e - 1) <=>
           u \in 1..(e - 1) \/ (u \in Int /\ 1 - Ups(l) <= u /\ ~(u >= 1))
    BY <1>0
  <2> QED BY <2>1, SeenAlike DEF SeenBefore
<1>2. \A u \in 1..(e - 1) : u \in 1..Works
  BY <1>0
<1>3. SeenBefore("gpu", tap, e) = SeenBefore("cpu", tap, e)
  BY <1>1, <1>2, SeenAlike DEF Leg
<1>4. Seen("gpu", tap, e) <=> Seen("cpu", tap, e)
  BY SeenAlike
<1> QED
  BY <1>3, <1>4 DEF Lines, Ran

\* A line of a trace, under those premises, is of the work.
LEMMA LineOfWork ==
    ASSUME RunOK, NEW tap \in LayerTaps, Pairing(tap), NEW l \in Leg, TapOK(l, tap),
           NEW x \in 1..Len(trace[l][tap])
    PROVE  \E e \in 1..Works, y \in 0..(NumLayers - 1) :
              /\ Seen(l, tap, e) /\ trace[l][tap][x] = [of |-> "work", n |-> e, layer |-> y]
              /\ Lines(l, tap, e, y) < x /\ x <= Lines(l, tap, e, y) + CallsPerLayer(tap)
<1>1. PICK i \in Int, j \in Nat : Known(i, j) /\ LinesOK(l, tap, trace[l][tap], i, j)
  BY DEF TapOK
<1>2. PICK e, y : /\ Past(l, e, y, i, j) /\ Seen(l, tap, e) /\ trace[l][tap][x] = OriginAt(l, e, y)
                  /\ Lines(l, tap, e, y) < x /\ x <= Lines(l, tap, e, y) + CallsPerLayer(tap)
  BY <1>1 DEF LinesOK
<1>3. e \in Int /\ 1 - Ups(l) <= e /\ y \in 0..(NumLayers - 1) /\ (e < i \/ (e = i /\ y < j))
  BY <1>2, StartFacts DEF Past
<1>4. e >= 1
  BY <1>2, <1>3, SeenAlike
<1>5. e <= Works
  BY <1>1, <1>3, StartFacts, CaptureAssumption DEF Known
<1>6. e \in 1..Works
  BY <1>3, <1>4, <1>5, StartFacts
<1>7. OriginAt(l, e, y) = [of |-> "work", n |-> e, layer |-> y]
  BY <1>4, <1>3 DEF OriginAt
<1> QED
  BY <1>2, <1>3, <1>6, <1>7

\* So the traces pair line for line.
LEMMA TracesTell == RunOK /\ TraceOK => TracePairs
<1> SUFFICES ASSUME RunOK, TraceOK, NEW tap \in Taps, Pairing(tap),
                    NEW x \in DOMAIN trace["gpu"][tap] \cap DOMAIN trace["cpu"][tap]
             PROVE  trace["gpu"][tap][x] = trace["cpu"][tap][x]
  BY DEF TracePairs, Pairing
<1>0. "gpu" \in Leg /\ "cpu" \in Leg
  BY DEF Leg
<1>1. \A l \in Leg : trace[l][tap] \in Seq(OriginType)
  BY DEF TraceOK
<1>2. \A l \in Leg : x \in 1..Len(trace[l][tap]) /\ Len(trace[l][tap]) \in Nat
  BY <1>1, LenProperties DEF Leg
<1>3. x \in Nat
  BY <1>0, <1>2
<1>4. opt.family = "dsv4"
  <2> SUFFICES ASSUME opt.family # "dsv4" PROVE FALSE
    OBVIOUS
  <2>1. trace["gpu"][tap] = <<>>
    BY <1>0 DEF TraceOK
  <2> QED BY <2>1
<1>5. CASE tap \in LayerTaps
  <2>0. TapOK("gpu", tap) /\ TapOK("cpu", tap)
    BY <1>0, <1>4, <1>5 DEF TraceOK
  <2>1. PICK e \in 1..Works, y \in 0..(NumLayers - 1) :
              /\ Seen("gpu", tap, e) /\ trace["gpu"][tap][x] = [of |-> "work", n |-> e, layer |-> y]
              /\ Lines("gpu", tap, e, y) < x /\ x <= Lines("gpu", tap, e, y) + CallsPerLayer(tap)
    BY <1>0, <1>2, <1>5, <2>0, LineOfWork
  <2>2. PICK f \in 1..Works, z \in 0..(NumLayers - 1) :
              /\ Seen("cpu", tap, f) /\ trace["cpu"][tap][x] = [of |-> "work", n |-> f, layer |-> z]
              /\ Lines("cpu", tap, f, z) < x /\ x <= Lines("cpu", tap, f, z) + CallsPerLayer(tap)
    BY <1>0, <1>2, <1>5, <2>0, LineOfWork
  <2>3. Lines("gpu", tap, f, z) = Lines("cpu", tap, f, z)
    BY <1>5, LinesAgree
  <2>4. Seen("gpu", tap, f)
    BY <1>5, <2>2, SeenAlike
  <2>5. /\ Ups("gpu") \in Nat /\ e \in Int /\ f \in Int /\ 1 - Ups("gpu") <= e /\ 1 - Ups("gpu") <= f
    BY <1>0, StartFacts
  <2>6. PICK g : g = "gpu"
    OBVIOUS
  <2>7. /\ Ups(g) \in Nat /\ 1 - Ups(g) <= e /\ 1 - Ups(g) <= f /\ Seen(g, tap, e) /\ Seen(g, tap, f)
        /\ Lines(g, tap, e, y) < x /\ x <= Lines(g, tap, e, y) + CallsPerLayer(tap)
        /\ Lines(g, tap, f, z) < x /\ x <= Lines(g, tap, f, z) + CallsPerLayer(tap)
    BY <2>1, <2>2, <2>3, <2>4, <2>5, <2>6
  <2>8. e = f /\ y = z
    BY <1>3, <1>5, <2>5, <2>7, LinesApart
  <2> QED BY <2>1, <2>2, <2>8
<1>6. CASE tap = LogitsTap
  <2>1. ASSUME NEW l \in Leg PROVE trace[l][tap][x] = [of |-> "work", n |-> x, layer |-> NumLayers]
    <3>1. PICK a \in Nat : LogitsOK(l, trace[l][tap], a)
      BY <1>4, <1>6 DEF TraceOK, LogitsTapOK
    <3>2. trace[l][tap][x] = OriginAt(l, x - Ups(l), NumLayers)
      BY <1>2, <3>1 DEF LogitsOK
    <3>3. opt.start[l] = <<>>
      BY <1>6 DEF Pairing
    <3>4. Ups(l) = 0
      BY <3>3 DEF Ups
    <3>5. x >= 1 /\ x - 0 = x
      BY <1>2, <1>3
    <3> QED BY <1>3, <3>2, <3>4, <3>5 DEF OriginAt
  <2> QED BY <1>0, <2>1
<1> QED
  BY <1>5, <1>6 DEF LayerTaps

\* And keep within the limits.
LEMMA TracesLimited ==
    ASSUME RunOK, TraceOK, NEW l \in Leg, NEW tap \in Taps
    PROVE  Len(trace[l][tap]) <= Limits[l][tap]
<1>0. Limits[l][tap] \in Nat
  BY TapFacts
<1>1. CASE opt.family # "dsv4"
  <2>1. trace[l][tap] = <<>>
    BY <1>1 DEF TraceOK
  <2> QED BY <1>0, <2>1
<1>2. CASE opt.family = "dsv4" /\ tap \in LayerTaps
  <2>1. PICK i \in Int, j \in Nat : 1 - Ups(l) <= i /\ LinesOK(l, tap, trace[l][tap], i, j)
    BY <1>2 DEF TraceOK, TapOK
  <2>2. Ran(l, tap, i, j) \in Nat
    <3>1. Ups(l) \in Nat
      BY StartFacts
    <3> QED BY <2>1, <3>1, RanFacts
  <2>3. PICK n \in Nat : n = Lines(l, tap, i, j)
    <3>1. CallsPerLayer(tap) \in Nat
      BY <1>2, TapFacts
    <3>2. \A a, b \in Nat : a * b \in Nat
      OBVIOUS
    <3> QED BY <2>2, <3>1, <3>2 DEF Lines
  <2> QED BY <1>0, <2>1, <2>3 DEF LinesOK
<1>3. CASE opt.family = "dsv4" /\ tap = LogitsTap
  <2>1. PICK a \in Nat : LogitsOK(l, trace[l][tap], a)
    BY <1>3 DEF TraceOK, LogitsTapOK
  <2> QED BY <1>0, <1>3, <2>1 DEF LogitsOK
<1> QED
  BY <1>1, <1>2, <1>3 DEF LayerTaps

\* The same line several times.
LEMMA SameLines ==
    ASSUME NEW S, NEW o \in S, NEW n \in Nat
    PROVE  /\ [x \in 1..n |-> o] \in Seq(S) /\ Len([x \in 1..n |-> o]) = n
           /\ \A x \in 1..n : [y \in 1..n |-> o][x] = o
<1>1. [x \in 1..n |-> o] \in Seq(S)
  BY IsASeq
<1>2. DOMAIN [x \in 1..n |-> o] = 1..n
  OBVIOUS
<1>3. Len([x \in 1..n |-> o]) = n
  <2>1. PICK s \in Seq(S) : s = [x \in 1..n |-> o]
    BY <1>1
  <2>2. Len(s) \in Nat /\ DOMAIN s = 1..Len(s)
    BY LenProperties
  <2> QED BY <1>2, <2>1, <2>2
<1> QED
  BY <1>1, <1>3

\* A layer adds its lines, as many as there is room for.
LEMMA LinesLayer ==
    ASSUME NEW l \in Leg, NEW tap \in LayerTaps, Ups(l) \in Nat, NEW i \in Int, 1 - Ups(l) <= i,
           NEW j \in 0..(NumLayers - 1), NEW s, LinesOK(l, tap, s, i, j),
           NEW o \in OriginType, o = OriginAt(l, i, j), NEW n,
           ~Seen(l, tap, i) => n = 0,
           Seen(l, tap, i) /\ Limits[l][tap] - Len(s) < CallsPerLayer(tap) => n = Limits[l][tap] - Len(s),
           Seen(l, tap, i) /\ ~(Limits[l][tap] - Len(s) < CallsPerLayer(tap)) => n = CallsPerLayer(tap)
    PROVE  LinesOK(l, tap, s \o [x \in 1..n |-> o], i, j + 1)
<1>0. j \in Nat /\ NumLayers \in Nat
  BY CaptureAssumption
<1>1. Ran(l, tap, i, j) \in Nat
      /\ Ran(l, tap, i, j + 1) = IF Seen(l, tap, i) THEN Ran(l, tap, i, j) + 1 ELSE Ran(l, tap, i, j)
  BY <1>0, RanFacts
<1>2. s \in Seq(OriginType)
  BY DEF LinesOK
<1>3. PICK c \in {1, 2}, a \in Nat, m \in Nat, k \in Nat :
         c = CallsPerLayer(tap) /\ a = Ran(l, tap, i, j) /\ m = Limits[l][tap] /\ k = Len(s)
  BY <1>1, <1>2, TapFacts, LenProperties
<1>4. PICK p \in Nat, q \in Nat :
         /\ q = IF Seen(l, tap, i) THEN p + c ELSE p
         /\ p = Lines(l, tap, i, j) /\ q = Lines(l, tap, i, j + 1)
  <2>1. \A x \in Nat : c * x \in Nat /\ c * (x + 1) = c * x + c
    <3>1. CASE c = 1
      BY <3>1
    <3>2. CASE c = 2
      BY <3>2
    <3> QED BY <3>1, <3>2
  <2>2. c * a \in Nat /\ c * a = Lines(l, tap, i, j)
    BY <1>3, <2>1 DEF Lines
  <2>3. CASE Seen(l, tap, i)
    <3>1. Ran(l, tap, i, j + 1) = a + 1
      BY <1>1, <1>3, <2>3
    <3>2. Lines(l, tap, i, j + 1) = c * a + c /\ c * a + c \in Nat
      BY <1>3, <2>1, <2>2, <3>1 DEF Lines
    <3> QED BY <2>2, <2>3, <3>2
  <2>4. CASE ~Seen(l, tap, i)
    <3>1. Lines(l, tap, i, j + 1) = c * a
      BY <1>1, <1>3, <2>4 DEF Lines
    <3> QED BY <2>2, <2>4, <3>1
  <2> QED BY <2>3, <2>4
<1>5. (p <= m => k = p) /\ (m <= p => k = m)
  BY <1>3, <1>4 DEF LinesOK
<1>6. /\ ~Seen(l, tap, i) => n = 0
      /\ Seen(l, tap, i) /\ m - k < c => n = m - k
      /\ Seen(l, tap, i) /\ ~(m - k < c) => n = c
  BY <1>3
<1>14. k <= m /\ c \in Nat
  BY <1>5
<1>7. n \in Nat /\ n <= c
  <2>1. CASE ~Seen(l, tap, i)
    BY <1>6, <1>14, <2>1
  <2>2. CASE Seen(l, tap, i) /\ m - k < c
    BY <1>6, <1>14, <2>2
  <2>3. CASE Seen(l, tap, i) /\ ~(m - k < c)
    BY <1>6, <1>14, <2>3
  <2> QED BY <2>1, <2>2, <2>3
<1>8. (q <= m => k + n = q) /\ (m <= q => k + n = m)
  <2>1. CASE ~Seen(l, tap, i)
    <3>1. q = p /\ n = 0
      BY <1>4, <1>6, <2>1
    <3> QED BY <1>5, <3>1
  <2>2. CASE Seen(l, tap, i)
    <3>1. q = p + c
      BY <1>4, <2>2
    <3>2. (m - k < c => n = m - k) /\ (~(m - k < c) => n = c)
      BY <1>6, <2>2
    <3> QED BY <1>5, <1>7, <1>14, <3>1, <3>2
  <2> QED BY <2>1, <2>2
<1>9. n > 0 => Seen(l, tap, i) /\ k = p
  <2>1. ASSUME n > 0 PROVE Seen(l, tap, i) /\ k = p
    <3>1. Seen(l, tap, i)
      BY <1>6, <2>1
    <3>2. (m - k < c => n = m - k) /\ (~(m - k < c) => n = c)
      BY <1>6, <3>1
    <3>3. k < m
      BY <1>7, <1>14, <2>1, <3>2
    <3> QED BY <1>5, <3>1, <3>3
  <2> QED BY <2>1
<1>10. PICK r \in Seq(OriginType) : r = [x \in 1..n |-> o] /\ Len(r) = n /\ \A x \in 1..n : r[x] = o
  <2>1. /\ [x \in 1..n |-> o] \in Seq(OriginType) /\ Len([x \in 1..n |-> o]) = n
        /\ \A x \in 1..n : [y \in 1..n |-> o][x] = o
    BY <1>7, SameLines
  <2> QED BY <2>1
<1>11. PICK t \in Seq(OriginType) : /\ t = s \o r /\ Len(t) = k + n
                                   /\ \A x \in 1..(k + n) : t[x] = IF x <= k THEN s[x] ELSE r[x - k]
  <2>1. /\ s \o r \in Seq(OriginType)
        /\ Len(s \o r) = Len(s) + Len(r)
        /\ \A x \in 1..(Len(s) + Len(r)) : (s \o r)[x] = IF x <= Len(s) THEN s[x] ELSE r[x - Len(s)]
    BY <1>2, ConcatProperties
  <2>2. Len(s) = k /\ Len(r) = n
    BY <1>3, <1>10
  <2> QED BY <2>1, <2>2
<1>12. ASSUME NEW x \in 1..(k + n)
       PROVE  \E e, y :
                 /\ Past(l, e, y, i, j + 1) /\ Seen(l, tap, e) /\ t[x] = OriginAt(l, e, y)
                 /\ Lines(l, tap, e, y) < x /\ x <= Lines(l, tap, e, y) + CallsPerLayer(tap)
  <2>1. CASE x <= k
    <3>1. x \in 1..Len(s) /\ t[x] = s[x]
      BY <1>3, <1>7, <1>11, <1>12, <2>1
    <3>2. PICK e, y :
                 /\ Past(l, e, y, i, j) /\ Seen(l, tap, e) /\ s[x] = OriginAt(l, e, y)
                 /\ Lines(l, tap, e, y) < x /\ x <= Lines(l, tap, e, y) + CallsPerLayer(tap)
      BY <3>1 DEF LinesOK
    <3>3. Past(l, e, y, i, j + 1)
      BY <1>0, <3>2 DEF Past
    <3> QED BY <3>1, <3>2, <3>3
  <2>2. CASE ~(x <= k)
    <3>1. x - k \in 1..n /\ n > 0
      BY <1>3, <1>7, <1>12, <2>2
    <3>2. t[x] = o
      BY <1>10, <1>11, <1>12, <2>2, <3>1
    <3>3. Past(l, i, j, i, j + 1)
      BY <1>0 DEF Past
    <3>4. p < x /\ x <= p + c
      BY <1>3, <1>7, <1>9, <1>12, <2>2, <3>1
    <3> QED BY <1>3, <1>4, <1>9, <3>1, <3>2, <3>3, <3>4
  <2> QED BY <2>1, <2>2
<1>13. LinesOK(l, tap, t, i, j + 1)
  BY <1>3, <1>4, <1>8, <1>11, <1>12 DEF LinesOK
<1> QED
  BY <1>10, <1>11, <1>13

\* The next forward, and the first.
LEMMA LinesNext ==
    ASSUME NEW l, NEW tap, NEW i \in Int, Ups(l) \in Nat, 1 - Ups(l) <= i,
           NEW s, LinesOK(l, tap, s, i, NumLayers)
    PROVE  LinesOK(l, tap, s, i + 1, 0)
<1>0. NumLayers \in Nat
  BY CaptureAssumption
<1>1. Ran(l, tap, i + 1, 0) = Ran(l, tap, i, NumLayers)
  BY RanFacts
<1>2. Lines(l, tap, i + 1, 0) = Lines(l, tap, i, NumLayers)
  BY <1>1 DEF Lines
<1>3. \A e, y : Past(l, e, y, i, NumLayers) <=> Past(l, e, y, i + 1, 0)
  BY <1>0 DEF Past
<1> QED
  BY <1>2, <1>3 DEF LinesOK

\* Before a leg's first forward its trace is empty.
LEMMA LinesNone ==
    ASSUME NEW l \in Leg, NEW tap \in LayerTaps, Ups(l) \in Nat, NEW e \in Int, e = 1 - Ups(l)
    PROVE  LinesOK(l, tap, <<>>, e, 0)
<1>1. Ran(l, tap, e, 0) = 0
  BY RanFacts
<1>2. Lines(l, tap, e, 0) = 0
  <2>1. CallsPerLayer(tap) \in {1, 2}
    BY TapFacts
  <2> QED BY <1>1, <2>1 DEF Lines
<1>3. Limits[l][tap] \in Nat
  BY TapFacts
<1>4. <<>> \in Seq(OriginType) /\ Len(<<>>) = 0
  OBVIOUS
<1>5. \A x \in 1..0 : FALSE
  OBVIOUS
<1> QED
  BY <1>2, <1>3, <1>4, <1>5 DEF LinesOK

\* Work that is added changes nothing of what is traced.
LEMMA LinesGrow ==
    ASSUME UNCHANGED opt, NEW l, NEW tap, Ups(l) \in Nat, Works \in Nat, DOMAIN work = 1..Works,
           \A w \in DOMAIN work : work'[w] = work[w],
           NEW s, NEW i \in Int, NEW j \in Nat, Known(i, j), LinesOK(l, tap, s, i, j)
    PROVE  LinesOK(l, tap, s, i, j)'
<1>0. NumLayers \in Nat
  BY CaptureAssumption
<1>1. Ups(l)' = Ups(l)
  BY DEF Ups
<1>2. \A e \in Int : e <= Works => Tokens(l, e)' = Tokens(l, e)
  BY <1>1 DEF Tokens
<1>3. \A e \in Int : e <= Works => (Seen(l, tap, e)' <=> Seen(l, tap, e))
  BY <1>2 DEF Seen, TooLong
<1>4. ASSUME NEW e \in Int, e <= Works + 1 PROVE LayersOf(SeenBefore(l, tap, e))' = LayersOf(SeenBefore(l, tap, e))
  <2>1. SeenBefore(l, tap, e)' = SeenBefore(l, tap, e)
    BY <1>1, <1>3, <1>4 DEF SeenBefore
  <2> QED BY <2>1 DEF LayersOf
<1>5. ASSUME NEW e \in Int, e <= Works, NEW y PROVE Lines(l, tap, e, y)' = Lines(l, tap, e, y)
  BY <1>3, <1>4, <1>5 DEF Lines, Ran, CallsPerLayer
<1>6. Lines(l, tap, i, j)' = Lines(l, tap, i, j)
  <2>1. CASE i <= Works
    BY <1>5, <2>1
  <2>2. CASE i <= Works + 1 /\ j = 0
    <3>1. Ran(l, tap, i, j) = LayersOf(SeenBefore(l, tap, i)) + 0
      BY <2>2 DEF Ran
    <3>2. Ran(l, tap, i, j)' = LayersOf(SeenBefore(l, tap, i))' + 0
      BY <2>2 DEF Ran
    <3>3. Ran(l, tap, i, j)' = Ran(l, tap, i, j)
      BY <1>4, <2>2, <3>1, <3>2
    <3> QED BY <3>3 DEF Lines, CallsPerLayer
  <2> QED BY <2>1, <2>2 DEF Known
<1>7. \A e, y : Past(l, e, y, i, j) => e \in Int /\ e <= Works
  BY <1>0 DEF Past, Known
<1>8. ASSUME NEW x \in 1..Len(s)
      PROVE  (\E e, y :
                 /\ Past(l, e, y, i, j) /\ Seen(l, tap, e) /\ s[x] = OriginAt(l, e, y)
                 /\ Lines(l, tap, e, y) < x /\ x <= Lines(l, tap, e, y) + CallsPerLayer(tap))'
  <2>1. PICK e, y :
                 /\ Past(l, e, y, i, j) /\ Seen(l, tap, e) /\ s[x] = OriginAt(l, e, y)
                 /\ Lines(l, tap, e, y) < x /\ x <= Lines(l, tap, e, y) + CallsPerLayer(tap)
    BY DEF LinesOK
  <2>2. e \in Int /\ e <= Works
    BY <1>7, <2>1
  <2>3. Past(l, e, y, i, j)' /\ OriginAt(l, e, y)' = OriginAt(l, e, y)
    BY <1>1, <2>1 DEF Past, OriginAt
  <2>4. Seen(l, tap, e)' /\ Lines(l, tap, e, y)' = Lines(l, tap, e, y)
    BY <1>3, <1>5, <2>1, <2>2
  <2> QED BY <2>1, <2>3, <2>4 DEF CallsPerLayer
<1> QED
  BY <1>6, <1>8 DEF LinesOK, OriginType

\* A forward adds one line of logits, if there is room for it.
LEMMA LogitsLine ==
    ASSUME NEW l \in Leg, Ups(l) \in Nat, NEW s, NEW a \in Nat, LogitsOK(l, s, a), NEW o \in OriginType,
           o = OriginAt(l, (a + 1) - Ups(l), NumLayers)
    PROVE  /\ Len(s) >= Limits[l][LogitsTap] => LogitsOK(l, s, a + 1)
           /\ ~(Len(s) >= Limits[l][LogitsTap]) => LogitsOK(l, Append(s, o), a + 1)
<1>1. s \in Seq(OriginType)
  BY DEF LogitsOK
<1>2. PICK k \in Nat, m \in Nat : k = Len(s) /\ m = Limits[l][LogitsTap]
  BY <1>1, TapFacts, LenProperties
<1>3. /\ a <= m => k = a
      /\ m <= a => k = m
      /\ \A x \in 1..k : s[x] = OriginAt(l, x - Ups(l), NumLayers)
  BY <1>2 DEF LogitsOK
<1>4. CASE k >= m
  <2>1. (a + 1 <= m => k = a + 1) /\ (m <= a + 1 => k = m)
    BY <1>2, <1>3, <1>4
  <2> QED BY <1>1, <1>2, <1>3, <1>4, <2>1 DEF LogitsOK
<1>5. CASE ~(k >= m)
  <2>1. k = a
    BY <1>2, <1>3, <1>5
  <2>2. PICK t \in Seq(OriginType) : /\ t = Append(s, o) /\ Len(t) = k + 1 /\ t[k + 1] = o
                                    /\ \A x \in 1..k : t[x] = s[x]
    <3>1. /\ Append(s, o) \in Seq(OriginType) /\ Len(Append(s, o)) = Len(s) + 1
          /\ \A x \in 1..Len(s) : Append(s, o)[x] = s[x]
          /\ Append(s, o)[Len(s) + 1] = o
      BY <1>1, AppendProperties
    <3> QED BY <1>2, <3>1
  <2>3. \A x \in 1..(k + 1) : t[x] = OriginAt(l, x - Ups(l), NumLayers)
    <3>1. \A x \in 1..(k + 1) : x \in 1..k \/ x = k + 1
      OBVIOUS
    <3> QED BY <1>3, <2>1, <2>2, <3>1
  <2>4. (a + 1 <= m => k + 1 = a + 1) /\ (m <= a + 1 => k + 1 = m)
    BY <1>2, <1>3, <1>5, <2>1
  <2>5. LogitsOK(l, t, a + 1)
    BY <1>2, <2>2, <2>3, <2>4 DEF LogitsOK
  <2> QED BY <1>2, <1>5, <2>2, <2>5
<1> QED
  BY <1>2, <1>4, <1>5

\* A trace of layers, or of logits, after a step, from what is known before it.
LEMMA TapKept ==
    ASSUME UNCHANGED opt, NEW l \in Leg, NEW tap \in LayerTaps, Ups(l) \in Nat,
           Works \in Nat, DOMAIN work = 1..Works, Works' \in Nat, Works' >= Works,
           \A w \in DOMAIN work : work'[w] = work[w],
           NEW i \in Int, NEW j \in Nat, 1 - Ups(l) <= i, Known(i, j), NEW s, LinesOK(l, tap, s, i, j),
           trace'[l][tap] = s, l = leg' => i = Place' /\ j = Depth'
    PROVE  TapOK(l, tap)'
<1>1. LinesOK(l, tap, s, i, j)'
  BY LinesGrow
<1>2. Known(i, j)'
  <2>1. CASE i <= Works
    <3>1. i <= Works'
      BY <2>1
    <3> QED BY <3>1 DEF Known
  <2>2. CASE i <= Works + 1 /\ j = 0
    <3>1. i <= Works' + 1
      BY <2>2
    <3> QED BY <2>2, <3>1 DEF Known
  <2> QED BY <2>1, <2>2 DEF Known
<1>3. (1 - Ups(l) <= i)'
  BY DEF Ups
<1> QED
  BY <1>1, <1>2, <1>3 DEF TapOK

\* A trace of logits that stays is still that of its forwards.
LEMMA LogitsKept ==
    ASSUME UNCHANGED opt, NEW l \in Leg, NEW a \in Nat, NEW s, LogitsOK(l, s, a),
           trace'[l][LogitsTap] = s, l = leg' /\ pc' # "dead" => a = Taken'
    PROVE  LogitsTapOK(l)'
<1>1. LogitsOK(l, s, a)'
  <2>1. Ups(l)' = Ups(l) /\ \A e, y : OriginAt(l, e, y)' = OriginAt(l, e, y)
    BY DEF Ups, OriginAt
  <2> QED BY <2>1 DEF LogitsOK, OriginType
<1> QED
  BY <1>1 DEF LogitsTapOK

\* Nothing is traced when a leg begins.
LEMMA TraceBegins == CaptureInit => TraceOK
<1> SUFFICES ASSUME CaptureInit PROVE TraceOK
  OBVIOUS
<1>0. RunOK
  BY RunBegins
<1>1. trace = [l \in Leg |-> [tap \in Taps |-> <<>>]] /\ leg = "gpu" /\ at = 0 /\ pc = "idle" /\ Works = 0
  BY DEF CaptureInit, Works
<1>2. <<>> \in Seq(OriginType)
  OBVIOUS
<1>3. \A l \in Leg, tap \in Taps : trace[l][tap] = <<>>
  BY <1>1
<1>4. ASSUME NEW l \in Leg, NEW tap \in LayerTaps PROVE TapOK(l, tap)
  <2>1. Ups(l) \in Nat
    BY <1>0, StartFacts
  <2>2. PICK e \in Int : e = 1 - Ups(l)
    BY <2>1
  <2>3. LinesOK(l, tap, <<>>, e, 0)
    BY <2>1, <2>2, LinesNone
  <2>4. Known(e, 0)
    BY <1>1, <2>1, <2>2 DEF Known
  <2>5. l = leg => e = Place /\ 0 = Depth
    BY <1>1, <2>1, <2>2 DEF Place, Depth
  <2>6. trace[l][tap] = <<>> /\ 1 - Ups(l) <= e
    BY <1>3, <1>4, <2>1, <2>2, TapFacts
  <2> QED BY <2>3, <2>4, <2>5, <2>6 DEF TapOK
<1>5. ASSUME NEW l \in Leg PROVE LogitsTapOK(l)
  <2>1. LogitsOK(l, <<>>, 0)
    <3>1. Limits[l][LogitsTap] \in Nat
      BY TapFacts
    <3>2. Len(<<>>) = 0 /\ \A x \in 1..0 : FALSE
      OBVIOUS
    <3> QED BY <1>2, <3>1, <3>2 DEF LogitsOK
  <2>2. trace[l][LogitsTap] = <<>> /\ Taken = 0
    BY <1>1, <1>3, TapFacts DEF Taken
  <2> QED BY <2>1, <2>2 DEF LogitsTapOK
<1>6. trace \in [Leg -> [Taps -> Seq(OriginType)]]
  BY <1>1, <1>2
<1> QED
  BY <1>3, <1>4, <1>5, <1>6 DEF TraceOK, Leg

\* A step that leaves the traces, and the place or comes to the next forward.
LEMMA TraceStays ==
    ASSUME RunOK, TraceOK, UNCHANGED <<opt, leg, trace>>, Works' \in Nat, Works' >= Works,
           \A w \in DOMAIN work : work'[w] = work[w],
           leg \in Leg => \/ Place' = Place /\ Depth' = Depth
                          \/ Place' = Place + 1 /\ Depth' = 0 /\ Depth = NumLayers /\ Place <= Works,
           leg \in Leg /\ pc' # "dead" => pc # "dead" /\ Taken' = Taken
    PROVE  TraceOK'
<1>0. Works \in Nat /\ DOMAIN work = 1..Works /\ \A l \in Leg : Ups(l) \in Nat
  BY StartFacts
<1>1. OriginType' = OriginType
  BY DEF OriginType
<1>2. ASSUME opt.family = "dsv4", NEW l \in Leg, NEW tap \in LayerTaps PROVE TapOK(l, tap)'
  <2>1. PICK i \in Int, j \in Nat :
           /\ 1 - Ups(l) <= i /\ Known(i, j) /\ LinesOK(l, tap, trace[l][tap], i, j)
           /\ l = leg => i = Place /\ j = Depth
    BY <1>2 DEF TraceOK, TapOK
  <2>2. PICK s : s = trace[l][tap] /\ s = trace'[l][tap]
    OBVIOUS
  <2>3. CASE l # leg \/ (Place' = Place /\ Depth' = Depth)
    <3>1. l = leg' => i = Place' /\ j = Depth'
      BY <2>1, <2>3
    <3>2. 1 - Ups(l) <= i /\ Known(i, j) /\ LinesOK(l, tap, s, i, j) /\ Ups(l) \in Nat
      BY <1>0, <2>1, <2>2
    <3> QED BY <1>0, <2>2, <3>1, <3>2, TapKept
  <2>4. CASE l = leg /\ Place' = Place + 1 /\ Depth' = 0 /\ Depth = NumLayers /\ Place <= Works
    <3>1. Ups(l) \in Nat /\ LinesOK(l, tap, s, i, NumLayers) /\ i <= Works /\ 1 - Ups(l) <= i
      BY <1>0, <2>1, <2>2, <2>4
    <3>2. LinesOK(l, tap, s, i + 1, 0)
      BY <3>1, LinesNext
    <3>3. PICK h \in Int : h = i + 1
      OBVIOUS
    <3>4. Known(h, 0) /\ 1 - Ups(l) <= h /\ LinesOK(l, tap, s, h, 0)
      BY <1>0, <3>1, <3>2, <3>3 DEF Known
    <3>5. l = leg' => h = Place' /\ 0 = Depth'
      BY <2>1, <2>4, <3>3
    <3> QED BY <1>0, <2>2, <3>1, <3>4, <3>5, TapKept
  <2> QED BY <2>3, <2>4
<1>3. ASSUME opt.family = "dsv4", NEW l \in Leg PROVE LogitsTapOK(l)'
  <2>1. PICK a \in Nat : LogitsOK(l, trace[l][LogitsTap], a) /\ (l = leg /\ pc # "dead" => a = Taken)
    BY <1>3 DEF TraceOK, LogitsTapOK
  <2>2. PICK s : s = trace[l][LogitsTap] /\ s = trace'[l][LogitsTap]
    OBVIOUS
  <2>3. l = leg' /\ pc' # "dead" => a = Taken'
    BY <2>1
  <2> QED BY <2>1, <2>2, <2>3, LogitsKept
<1> QED
  BY <1>1, <1>2, <1>3 DEF TraceOK

\* The lines that a layer adds to a trace of its leg.
LinesNow(tap) ==
    IF cur.t >= Shorter(tap) THEN 0
    ELSE IF Limits[leg][tap] - Len(trace[leg][tap]) < CallsPerLayer(tap)
         THEN Limits[leg][tap] - Len(trace[leg][tap]) ELSE CallsPerLayer(tap)

\* What a layer does to the traces: its leg's grow by the lines of each tap.
LEMMA TraceLayerFacts ==
    ASSUME leg \in Leg, trace \in [Leg -> [Taps -> Seq(OriginType)]], trace' = TraceLayer
    PROVE  /\ DOMAIN trace' = Leg /\ \A l \in Leg : l # leg => trace'[l] = trace[l]
           /\ DOMAIN trace'[leg] = Taps /\ trace'[leg] = [tap \in Taps |-> trace'[leg][tap]]
           /\ \A tap \in Taps :
                 trace'[leg][tap] = trace[leg][tap] \o [x \in 1..LinesNow(tap) |-> Origin(layer)]
           /\ trace' = [l \in Leg |-> trace'[l]]
<1>1. trace' = [trace EXCEPT ![leg] =
                   [tap \in Taps |-> trace[leg][tap] \o [x \in 1..LinesNow(tap) |-> Origin(layer)]]]
  BY DEF TraceLayer, LinesNow
<1> QED
  BY <1>1

\* A forward has some tokens.
LEMMA TokensAreNat ==
    ASSUME RunOK, pc = "layer", leg \in Leg
    PROVE  cur.t \in Nat
<1>1. at \in Nat /\ at >= 1 /\ cur = Forward(leg, at) /\ Ups(leg) \in Nat
  BY StartFacts DEF RunOK
<1>2. CASE at - Ups(leg) <= 0
  <2>1. at \in 1..Ups(leg)
    BY <1>1, <1>2
  <2>2. cur.t = TokensIn[opt.start[leg][at]]
    BY <1>1, <1>2 DEF Forward
  <2> QED BY <2>1, <2>2, StartFacts
<1>3. CASE ~(at - Ups(leg) <= 0)
  <2>1. cur.t = TokensIn[work[at - Ups(leg)]]
    BY <1>1, <1>3 DEF Forward
  <2>2. at - Ups(leg) \in DOMAIN work
    <3>1. Place = at - Ups(leg) /\ Place <= Works
      BY PlaceFacts DEF Place
    <3> QED BY <1>1, <1>3, <3>1, StartFacts
  <2> QED BY <2>1, <2>2, StartFacts
<1> QED
  BY <1>2, <1>3

\* A layer.
LEMMA TraceAtLayer ==
    ASSUME RunOK, TraceOK, Layer
    PROVE  TraceOK'
<1>1. /\ pc = "layer" /\ layer < NumLayers /\ layer' = layer + 1 /\ UNCHANGED <<opt, work, leg, at, pc, cur>>
      /\ trace' = IF opt.family = "dsv4" THEN TraceLayer ELSE trace
  BY DEF Layer
<1>2. leg \in Leg /\ layer \in 0..(NumLayers - 1) /\ layer \in Nat /\ NumLayers \in Nat /\ layer \in 0..NumLayers
  BY <1>1, CaptureAssumption DEF RunOK
<1>3. Works \in Nat /\ Works' = Works /\ DOMAIN work = 1..Works /\ \A l \in Leg : Ups(l) \in Nat
  BY <1>1, StartFacts DEF Works
<1>4. /\ Place \in Int /\ 1 - Ups(leg) <= Place /\ Place <= Works /\ cur.t = Tokens(leg, Place)
      /\ Origin(layer) = OriginAt(leg, Place, layer)
  BY <1>1, <1>2, PlaceFacts
<1>5. Origin(layer) \in OriginType
  BY <1>1, <1>2, OriginFacts
<1>6. Place' = Place /\ Depth = layer /\ Depth' = layer + 1
  BY <1>1 DEF Place, Depth, Ups
<1>7. OriginType' = OriginType
  BY DEF OriginType
<1>8. CASE opt.family # "dsv4"
  BY <1>1, <1>7, <1>8 DEF TraceOK
<1>9. CASE opt.family = "dsv4"
  <2>1. trace \in [Leg -> [Taps -> Seq(OriginType)]]
    BY DEF TraceOK
  <2>2. /\ DOMAIN trace' = Leg /\ \A l \in Leg : l # leg => trace'[l] = trace[l]
        /\ DOMAIN trace'[leg] = Taps /\ trace'[leg] = [tap \in Taps |-> trace'[leg][tap]]
        /\ \A tap \in Taps :
              trace'[leg][tap] = trace[leg][tap] \o [x \in 1..LinesNow(tap) |-> Origin(layer)]
        /\ trace' = [l \in Leg |-> trace'[l]]
    BY <1>1, <1>2, <1>9, <2>1, TraceLayerFacts
  <2>3. ASSUME NEW tap \in LayerTaps
        PROVE  \E h \in Int, y \in Nat :
                  /\ h = Place /\ y = layer + 1 /\ LinesOK(leg, tap, trace'[leg][tap], h, y)
    <3>1. LinesOK(leg, tap, trace[leg][tap], Place, layer)
      <4>1. TapOK(leg, tap)
        BY <1>2, <1>9, <2>3 DEF TraceOK
      <4> QED BY <1>6, <4>1 DEF TapOK
    <3>2. PICK g, h, y, s, o, n : /\ g = leg /\ h = Place /\ y = layer /\ s = trace[leg][tap]
                                  /\ o = Origin(layer) /\ n = LinesNow(tap)
      OBVIOUS
    <3>3. /\ g \in Leg /\ Ups(g) \in Nat /\ h \in Int /\ 1 - Ups(g) <= h /\ y \in 0..(NumLayers - 1)
          /\ LinesOK(g, tap, s, h, y) /\ o \in OriginType /\ o = OriginAt(g, h, y)
      BY <1>2, <1>3, <1>4, <1>5, <3>1, <3>2
    <3>4. ~(cur.t >= Shorter(tap)) <=> Seen(g, tap, h)
      <4>1. Shorter(tap) = TooLong(g, tap) /\ Shorter(tap) \in Nat
        BY <3>2 DEF Shorter, TooLong
      <4>2. cur.t = Tokens(g, h) /\ Tokens(g, h) \in Nat
        <5>1. cur.t = Tokens(g, h)
          BY <1>4, <3>2
        <5>2. cur.t \in Nat
          BY <1>1, <1>2, TokensAreNat
        <5> QED BY <5>1, <5>2
      <4> QED BY <4>1, <4>2 DEF Seen
    <3>5. /\ ~Seen(g, tap, h) => n = 0
          /\ Seen(g, tap, h) /\ Limits[g][tap] - Len(s) < CallsPerLayer(tap) => n = Limits[g][tap] - Len(s)
          /\ Seen(g, tap, h) /\ ~(Limits[g][tap] - Len(s) < CallsPerLayer(tap)) => n = CallsPerLayer(tap)
      BY <3>2, <3>4 DEF LinesNow
    <3>6. LinesOK(g, tap, s \o [x \in 1..n |-> o], h, y + 1)
      BY <3>3, <3>5, LinesLayer
    <3>7. trace'[leg][tap] = s \o [x \in 1..n |-> o]
      <4>1. trace'[leg][tap] = trace[leg][tap] \o [x \in 1..LinesNow(tap) |-> Origin(layer)]
        BY <2>2, <2>3, TapFacts
      <4>2. [x \in 1..LinesNow(tap) |-> Origin(layer)] = [x \in 1..n |-> o]
        BY <3>2
      <4>3. trace[leg][tap] = s
        BY <3>2
      <4> QED BY <4>1, <4>2, <4>3, Zenon
    <3>8. PICK z \in Nat : z = y + 1
      BY <1>2, <3>2
    <3> QED BY <3>2, <3>3, <3>6, <3>7, <3>8
  <2>4. trace'[leg][LogitsTap] = trace[leg][LogitsTap]
    <3>1. PICK a \in Nat : LogitsOK(leg, trace[leg][LogitsTap], a)
      BY <1>2, <1>9 DEF TraceOK, LogitsTapOK
    <3>2. PICK s \in Seq(OriginType), m \in Nat : s = trace[leg][LogitsTap] /\ m = Limits[leg][LogitsTap]
      BY <1>2, <3>1, TapFacts DEF LogitsOK
    <3>3. PICK k \in Nat : k = Len(s) /\ k <= m
      <4>1. Len(s) \in Nat
        BY LenProperties
      <4> QED BY <3>1, <3>2, <4>1 DEF LogitsOK
    <3>4. CallsPerLayer(LogitsTap) = 0 /\ ~(m - k < 0)
      BY <3>3, TapFacts
    <3>5. LinesNow(LogitsTap) = 0
      BY <3>2, <3>3, <3>4 DEF LinesNow
    <3>6. [x \in 1..0 |-> Origin(layer)] = <<>>
      OBVIOUS
    <3>7. trace'[leg][LogitsTap] = s \o <<>>
      <4>1. trace'[leg][LogitsTap] = trace[leg][LogitsTap] \o [x \in 1..LinesNow(LogitsTap) |-> Origin(layer)]
        BY <2>2, TapFacts
      <4>2. [x \in 1..LinesNow(LogitsTap) |-> Origin(layer)] = <<>>
        BY <3>5, <3>6
      <4>3. trace[leg][LogitsTap] = s
        BY <3>2
      <4> QED BY <4>1, <4>2, <4>3, Zenon
    <3> QED BY <3>2, <3>7, ConcatEmptySeq
  <2>5. trace' \in [Leg -> [Taps -> Seq(OriginType)]]
    <3>1. \A tap \in Taps : trace'[leg][tap] \in Seq(OriginType)
      <4>1. \A tap \in LayerTaps : trace'[leg][tap] \in Seq(OriginType)
        BY <2>3 DEF LinesOK
      <4>2. trace'[leg][LogitsTap] \in Seq(OriginType)
        BY <1>2, <2>1, <2>4, TapFacts
      <4> QED BY <4>1, <4>2 DEF LayerTaps
    <3>2. trace'[leg] \in [Taps -> Seq(OriginType)]
      BY <2>2, <3>1
    <3>3. \A l \in Leg : trace'[l] \in [Taps -> Seq(OriginType)]
      BY <2>1, <2>2, <3>2
    <3> QED BY <2>2, <3>3
  <2>6. ASSUME NEW l \in Leg, NEW tap \in LayerTaps PROVE TapOK(l, tap)'
    <3>0. PICK s : s = trace'[l][tap]
      OBVIOUS
    <3>1. CASE l = leg
      <4>1. PICK h \in Int, y \in Nat : h = Place /\ y = layer + 1 /\ LinesOK(leg, tap, trace'[leg][tap], h, y)
        BY <2>3
      <4>2. LinesOK(l, tap, s, h, y) /\ Known(h, y) /\ 1 - Ups(l) <= h
        BY <1>4, <3>0, <3>1, <4>1 DEF Known
      <4>3. h = Place' /\ y = Depth'
        BY <1>6, <4>1
      <4> QED BY <1>1, <1>3, <3>0, <4>2, <4>3, TapKept
    <3>2. CASE l # leg
      <4>1. PICK i \in Int, j \in Nat : 1 - Ups(l) <= i /\ Known(i, j) /\ LinesOK(l, tap, trace[l][tap], i, j)
        BY <1>9 DEF TraceOK, TapOK
      <4>2. LinesOK(l, tap, s, i, j) /\ l # leg'
        BY <1>1, <2>2, <3>0, <3>2, <4>1
      <4> QED BY <1>1, <1>3, <3>0, <4>1, <4>2, TapKept
    <3> QED BY <3>1, <3>2
  <2>7. ASSUME NEW l \in Leg PROVE LogitsTapOK(l)'
    <3>1. PICK a \in Nat : LogitsOK(l, trace[l][LogitsTap], a) /\ (l = leg /\ pc # "dead" => a = Taken)
      BY <1>9 DEF TraceOK, LogitsTapOK
    <3>2. PICK s : s = trace'[l][LogitsTap] /\ s = trace[l][LogitsTap]
      BY <2>2, <2>4
    <3>3. Taken' = Taken
      BY <1>1 DEF Taken
    <3> QED BY <1>1, <3>1, <3>2, <3>3, LogitsKept
  <2>8. leg' = "gpu" => \A tap \in Taps : trace'["cpu"][tap] = <<>>
    <3>1. leg = "gpu" => trace'["cpu"] = trace["cpu"]
      BY <2>2 DEF Leg
    <3> QED BY <1>1, <3>1 DEF TraceOK
  <2> QED BY <1>1, <1>7, <1>9, <2>5, <2>6, <2>7, <2>8 DEF TraceOK
<1> QED
  BY <1>8, <1>9

\* The logits of a forward.
LEMMA TraceAtLogits ==
    ASSUME RunOK, TraceOK, Logits
    PROVE  TraceOK'
<1>1. /\ pc = "layer" /\ layer = NumLayers /\ pc' = "save" /\ UNCHANGED <<opt, work, leg, at, layer, cur>>
      /\ trace' = IF opt.family = "dsv4" THEN TraceLogits ELSE trace
  BY DEF Logits
<1>2. leg \in Leg /\ NumLayers \in Nat /\ NumLayers \in 0..NumLayers /\ at \in Nat /\ at >= 1
  BY <1>1, CaptureAssumption DEF RunOK
<1>3. Works \in Nat /\ Works' = Works /\ DOMAIN work = 1..Works /\ \A l \in Leg : Ups(l) \in Nat
  BY <1>1, StartFacts DEF Works
<1>4. Place = at - Ups(leg) /\ Origin(NumLayers) = OriginAt(leg, Place, NumLayers)
  BY <1>1, <1>2, PlaceFacts DEF Place
<1>5. Origin(NumLayers) \in OriginType
  BY <1>1, <1>2, OriginFacts
<1>6. Place' = Place /\ Depth' = Depth /\ Taken = at - 1 /\ Taken' = at
  BY <1>1 DEF Place, Depth, Ups, Taken
<1>7. OriginType' = OriginType
  BY DEF OriginType
<1>8. CASE opt.family # "dsv4"
  BY <1>1, <1>7, <1>8 DEF TraceOK
<1>9. CASE opt.family = "dsv4"
  <2>0. trace \in [Leg -> [Taps -> Seq(OriginType)]] /\ LogitsTap \in Taps
    BY TapFacts DEF TraceOK
  <2>1. /\ \A l \in Leg : l # leg => trace'[l] = trace[l]
        /\ \A tap \in LayerTaps : trace'[leg][tap] = trace[leg][tap]
        /\ trace'[leg][LogitsTap] =
              IF Len(trace[leg][LogitsTap]) >= Limits[leg][LogitsTap] THEN trace[leg][LogitsTap]
              ELSE Append(trace[leg][LogitsTap], Origin(NumLayers))
        /\ trace' \in [Leg -> [Taps -> Seq(OriginType)]]
    <3>1. CASE Len(trace[leg][LogitsTap]) >= Limits[leg][LogitsTap]
      <4>1. trace' = trace
        BY <1>1, <1>9, <3>1 DEF TraceLogits
      <4> QED BY <2>0, <3>1, <4>1
    <3>2. CASE ~(Len(trace[leg][LogitsTap]) >= Limits[leg][LogitsTap])
      <4>1. trace' = [trace EXCEPT ![leg] = [trace[leg] EXCEPT ![LogitsTap] = Append(trace[leg][LogitsTap], Origin(NumLayers))]]
        BY <1>1, <1>9, <3>2 DEF TraceLogits
      <4>2. PICK t \in Seq(OriginType) : t = Append(trace[leg][LogitsTap], Origin(NumLayers))
        <5>1. trace[leg][LogitsTap] \in Seq(OriginType)
          BY <1>2, <2>0
        <5> QED BY <1>5, <5>1, AppendProperties
      <4>3. trace' = [trace EXCEPT ![leg] = [trace[leg] EXCEPT ![LogitsTap] = t]]
        BY <4>1, <4>2
      <4>4. trace'[leg][LogitsTap] = t /\ \A tap \in LayerTaps : trace'[leg][tap] = trace[leg][tap]
        BY <1>2, <2>0, <4>3 DEF LayerTaps
      <4>5. trace' \in [Leg -> [Taps -> Seq(OriginType)]] /\ \A l \in Leg : l # leg => trace'[l] = trace[l]
        BY <1>2, <2>0, <4>3
      <4> QED BY <3>2, <4>2, <4>4, <4>5
    <3> QED BY <3>1, <3>2
  <2>2. ASSUME NEW l \in Leg, NEW tap \in LayerTaps PROVE TapOK(l, tap)'
    <3>1. PICK i \in Int, j \in Nat : /\ 1 - Ups(l) <= i /\ Known(i, j) /\ LinesOK(l, tap, trace[l][tap], i, j)
                                      /\ l = leg => i = Place /\ j = Depth
      BY <1>9 DEF TraceOK, TapOK
    <3>2. PICK s : s = trace[l][tap]
      OBVIOUS
    <3>3. trace'[l][tap] = s
      BY <2>1, <3>2
    <3>4. l = leg' => i = Place' /\ j = Depth'
      BY <1>1, <1>6, <3>1
    <3>5. LinesOK(l, tap, s, i, j)
      BY <3>1, <3>2
    <3> QED BY <1>1, <1>3, <3>1, <3>3, <3>4, <3>5, TapKept
  <2>3. ASSUME NEW l \in Leg PROVE LogitsTapOK(l)'
    <3>1. PICK a \in Nat : LogitsOK(l, trace[l][LogitsTap], a) /\ (l = leg /\ pc # "dead" => a = Taken)
      BY <1>9 DEF TraceOK, LogitsTapOK
    <3>2. PICK s, t : s = trace[l][LogitsTap] /\ t = trace'[l][LogitsTap]
      OBVIOUS
    <3>3. CASE l # leg
      <4>1. t = s /\ l # leg'
        BY <1>1, <2>1, <3>2, <3>3
      <4> QED BY <1>1, <3>1, <3>2, <4>1, LogitsKept
    <3>4. CASE l = leg
      <4>1. PICK o : o = Origin(NumLayers)
        OBVIOUS
      <4>2. a = at - 1 /\ a + 1 = at
        BY <1>1, <1>2, <1>6, <3>1, <3>4
      <4>3. o \in OriginType /\ o = OriginAt(l, (a + 1) - Ups(l), NumLayers)
        BY <1>4, <1>5, <3>4, <4>1, <4>2
      <4>4. Ups(l) \in Nat /\ LogitsOK(l, s, a)
        BY <1>3, <3>1, <3>2
      <4>5. /\ Len(s) >= Limits[l][LogitsTap] => LogitsOK(l, s, a + 1)
            /\ ~(Len(s) >= Limits[l][LogitsTap]) => LogitsOK(l, Append(s, o), a + 1)
        BY <4>3, <4>4, LogitsLine
      <4>6. t = IF Len(s) >= Limits[l][LogitsTap] THEN s ELSE Append(s, o)
        BY <2>1, <3>2, <3>4, <4>1
      <4>7. PICK b \in Nat : b = a + 1 /\ LogitsOK(l, t, b)
        BY <4>5, <4>6
      <4>8. l = leg' /\ pc' # "dead" => b = Taken'
        BY <1>6, <4>2, <4>7
      <4> QED BY <1>1, <3>2, <4>7, <4>8, LogitsKept
    <3> QED BY <3>3, <3>4
  <2>4. leg' = "gpu" => \A tap \in Taps : trace'["cpu"][tap] = <<>>
    <3>1. leg = "gpu" => trace'["cpu"] = trace["cpu"]
      BY <2>1 DEF Leg
    <3> QED BY <1>1, <3>1 DEF TraceOK
  <2> QED BY <1>1, <1>7, <1>9, <2>1, <2>2, <2>3, <2>4 DEF TraceOK
<1> QED
  BY <1>8, <1>9

\* The next leg.
LEMMA TraceAtEndLeg ==
    ASSUME RunOK, TraceOK, EndLeg
    PROVE  TraceOK'
<1>1. /\ pc = "idle" /\ leg \in Leg /\ at' = 0 /\ UNCHANGED <<opt, work, pc, trace>>
      /\ leg' = IF leg = "gpu" THEN "cpu" ELSE "done"
  BY DEF EndLeg, RunOK
<1>3. Works \in Nat /\ Works' = Works /\ DOMAIN work = 1..Works /\ \A l \in Leg : Ups(l) \in Nat
  BY <1>1, StartFacts DEF Works
<1>7. OriginType' = OriginType /\ leg' # leg /\ leg' # "gpu"
  BY <1>1 DEF OriginType, Leg
<1>2. leg' \in Leg => leg = "gpu" /\ leg' = "cpu"
  BY <1>1 DEF Leg
<1>4. ASSUME opt.family = "dsv4", NEW l \in Leg, NEW tap \in LayerTaps PROVE TapOK(l, tap)'
  <2>1. CASE l # leg'
    <3>1. PICK i \in Int, j \in Nat : 1 - Ups(l) <= i /\ Known(i, j) /\ LinesOK(l, tap, trace[l][tap], i, j)
      BY <1>4 DEF TraceOK, TapOK
    <3>2. PICK s : s = trace[l][tap] /\ s = trace'[l][tap]
      BY <1>1
    <3>3. LinesOK(l, tap, s, i, j)
      BY <3>1, <3>2
    <3> QED BY <1>1, <1>3, <2>1, <3>1, <3>2, <3>3, TapKept
  <2>2. CASE l = leg'
    <3>1. PICK e \in Int : e = 1 - Ups(l)
      BY <1>3
    <3>2. trace'[l][tap] = <<>>
      <4>1. leg = "gpu" /\ l = "cpu" /\ tap \in Taps
        BY <1>2, <2>2, TapFacts
      <4> QED BY <1>1, <4>1 DEF TraceOK
    <3>3. LinesOK(l, tap, <<>>, e, 0) /\ Known(e, 0) /\ 1 - Ups(l) <= e
      <4>1. Ups(l) \in Nat
        BY <1>3
      <4>2. LinesOK(l, tap, <<>>, e, 0)
        BY <3>1, <4>1, LinesNone
      <4> QED BY <1>3, <3>1, <4>1, <4>2 DEF Known
    <3>4. e = Place' /\ 0 = Depth'
      <4>1. Ups(l)' = Ups(l)
        BY <1>1 DEF Ups
      <4>2. Ups(leg)' = Ups(l)
        BY <2>2, <4>1
      <4>3. Place' = 0 - Ups(leg)' + 1 /\ Depth' = 0
        BY <1>1 DEF Place, Depth
      <4> QED BY <1>3, <3>1, <4>2, <4>3
    <3> QED BY <1>1, <1>3, <3>2, <3>3, <3>4, TapKept
  <2> QED BY <2>1, <2>2
<1>5. ASSUME opt.family = "dsv4", NEW l \in Leg PROVE LogitsTapOK(l)'
  <2>1. CASE l # leg'
    <3>1. PICK a \in Nat : LogitsOK(l, trace[l][LogitsTap], a)
      BY <1>5 DEF TraceOK, LogitsTapOK
    <3>2. PICK s : s = trace[l][LogitsTap] /\ s = trace'[l][LogitsTap]
      BY <1>1
    <3> QED BY <1>1, <2>1, <3>1, <3>2, LogitsKept
  <2>2. CASE l = leg'
    <3>1. trace'[l][LogitsTap] = <<>>
      <4>1. leg = "gpu" /\ l = "cpu" /\ LogitsTap \in Taps
        BY <1>2, <2>2, TapFacts
      <4> QED BY <1>1, <4>1 DEF TraceOK
    <3>2. LogitsOK(l, <<>>, 0)
      <4>1. Limits[l][LogitsTap] \in Nat
        BY TapFacts
      <4>2. <<>> \in Seq(OriginType) /\ Len(<<>>) = 0 /\ \A x \in 1..0 : FALSE
        OBVIOUS
      <4> QED BY <4>1, <4>2 DEF LogitsOK
    <3>3. Taken' = 0
      BY <1>1 DEF Taken
    <3> QED BY <1>1, <3>1, <3>2, <3>3, LogitsKept
  <2> QED BY <2>1, <2>2
<1> QED
  BY <1>1, <1>4, <1>5, <1>7 DEF TraceOK

\* Every step keeps to it.
LEMMA TraceGoesOn ==
    ASSUME RunOK, TraceOK, [CaptureNext]_captureVars
    PROVE  TraceOK'
<1>0. Works \in Nat /\ DOMAIN work = 1..Works
  BY StartFacts
<1>1. CASE UNCHANGED captureVars
  <2>1. UNCHANGED <<opt, work, leg, at, pc, layer, trace>>
    BY <1>1 DEF captureVars
  <2>2. Works' = Works /\ Place' = Place /\ Depth' = Depth /\ Taken' = Taken
    BY <2>1 DEF Works, Place, Depth, Taken, Ups
  <2> QED BY <1>0, <2>1, <2>2, TraceStays
<1>2. CASE Begin
  <2>1. /\ leg \in Leg /\ pc = "idle" /\ pc' = "layer" /\ at' = at + 1 /\ layer' = 0
        /\ work' \in Seq(Requests) /\ Works' >= Works
        /\ \A w \in DOMAIN work : work'[w] = work[w]
        /\ UNCHANGED <<opt, leg>> /\ Ups(leg)' = Ups(leg)
    BY <1>2, BeginFacts
  <2>2. trace' = trace /\ Works' \in Nat /\ at \in Nat /\ Ups(leg) \in Nat
    BY <1>2, <2>1, LenProperties, StartFacts DEF Begin, Works, RunOK
  <2>3. Place' = Place /\ Depth' = Depth /\ Taken' = Taken
    BY <2>1, <2>2 DEF Place, Depth, Taken
  <2> QED BY <2>1, <2>2, <2>3, TraceStays
<1>3. CASE Layer
  BY <1>3, TraceAtLayer
<1>4. CASE Logits
  BY <1>4, TraceAtLogits
<1>5. CASE Save \/ (\E r \in Ranks : Dump(r)) \/ Kill
  <2>1. /\ pc # "idle" /\ pc' # "idle" /\ UNCHANGED <<opt, work, leg, at, layer, trace>>
        /\ pc' # "dead" => pc \in {"save", "dump"} /\ pc' = "dump"
    BY <1>5 DEF Save, Dump, Kill
  <2>2. Works' = Works /\ Place' = Place /\ Depth' = Depth /\ (pc' # "dead" => Taken' = Taken)
    BY <2>1 DEF Works, Place, Depth, Taken, Ups
  <2> QED BY <1>0, <2>1, <2>2, TraceStays
<1>6. CASE EndForward
  <2>1. /\ pc = "dump" /\ pc' = "idle" /\ layer = NumLayers /\ UNCHANGED <<opt, work, leg, at, layer, trace>>
    BY <1>6 DEF EndForward, RunOK
  <2>2. leg \in Leg
    BY <2>1 DEF RunOK
  <2>3. Place <= Works
    BY <2>1, <2>2, PlaceFacts
  <2>4. Works' = Works /\ Place' = Place + 1 /\ Depth' = 0 /\ Depth = NumLayers /\ Taken' = Taken
    BY <2>1 DEF Works, Place, Depth, Taken, Ups
  <2> QED BY <1>0, <2>1, <2>3, <2>4, TraceStays
<1>7. CASE EndLeg
  BY <1>7, TraceAtEndLeg
<1> QED
  BY <1>1, <1>2, <1>3, <1>4, <1>5, <1>6, <1>7 DEF CaptureNext

\* The types, and the limits of the taps.
LEMMA TypeTells == RunOK /\ BindOK /\ KeysOK /\ TraceOK => CaptureTypeOK
<1> SUFFICES ASSUME RunOK, BindOK, KeysOK, TraceOK PROVE CaptureTypeOK
  OBVIOUS
<1>1. /\ leg \in Leg \cup {"done"} /\ pc \in {"idle", "layer", "logits", "save", "dump", "dead"}
      /\ layer \in 0..NumLayers
  BY DEF RunOK
<1>2. \A f \in Files : DOMAIN bound[f] \subseteq LayersTapped
  BY BoundLayers
<1>3. \A k \in DOMAIN cap : cap[k] \in OriginType /\ k.pass \in 0..(1 + (st.dc \div Group))
  BY TagsBounded
<1>4. st.dc \in 0..(at * NumLayers)
  BY CounterBounded
<1>5. \A l \in Leg, tap \in Taps : Len(trace[l][tap]) <= Limits[l][tap]
  BY TracesLimited
<1> QED
  BY <1>1, <1>2, <1>3, <1>4, <1>5 DEF CaptureTypeOK

\* Both legs bind to the same prompt, the tags of one step agree, the diff and
\* the traces lay side by side what was computed at the same step of the same
\* work, and the diff names the layer at which the legs part: for every number
\* of layers and of layer calls to a tag, whatever the prompts, requests,
\* start-up forwards and limits, wherever an engine is killed.
THEOREM LegsArePaired == CaptureSpec => []LegsPair
<1> DEFINE Inv == RunOK /\ SavedOK /\ BindOK /\ KeysOK /\ TraceOK
<1>1. CaptureInit => Inv
  BY RunBegins, SavedBegins, BindBegins, KeysBegin, TraceBegins
<1>2. Inv /\ [CaptureNext]_captureVars => Inv'
  <2> SUFFICES ASSUME Inv, [CaptureNext]_captureVars PROVE Inv'
    OBVIOUS
  <2>1. RunOK' /\ SavedOK'
    BY RunGoesOn, SavedGoesOn
  <2>2. BindOK'
    BY BindGoesOn
  <2>3. KeysOK'
    BY KeysGoOn
  <2>4. TraceOK'
    BY TraceGoesOn
  <2> QED BY <2>1, <2>2, <2>3, <2>4
<1>3. Inv => LegsPair
  <2> SUFFICES ASSUME Inv PROVE LegsPair
    OBVIOUS
  <2>1. CaptureTypeOK
    BY TypeTells
  <2>2. BoundToOnePrompt
    BY BindTells
  <2> QED BY <2>1, <2>2, TagsTell, KeysAreOfOneStep, FirstIsNamed, TracesTell DEF LegsPair
<1> QED
  BY <1>1, <1>2, <1>3, PTL DEF CaptureSpec

LEMMA LeastNat ==
    ASSUME NEW T \in SUBSET Nat, T # {}
    PROVE  \E x \in T : \A y \in T : x <= y
<1> DEFINE Lt == {p \in Nat \X Nat : p[1] < p[2]}
<1>1. OpToRel(<, Nat) = Lt
  BY Zenon DEF OpToRel
<1>2. IsWellFoundedOn(Lt, Nat)
  BY <1>1, NatLessThanWellFounded, Zenon
<1> HIDE DEF Lt
<1>3. PICK x \in T : \A y \in T : ~(<<y, x>> \in Lt)
  BY <1>2, WFMin, Zenon
<1>4. \A y \in T : ~(y < x)
  BY <1>3 DEF Lt
<1> QED
  BY <1>4

-----------------------------------------------------------------------------
(* The folds over the steps of a group, and over the groups. *)

Do(kind, s, t) == IF kind = "step" THEN DoStep(s, t) ELSE DoGroup(s, t)

\* The recursion by which the library folds.
Folds(g, kind, s, seq, n) ==
    g = [S \in SUBSET (1..n) |->
            IF S = {} THEN s
            ELSE LET x == Max(S) IN Do(kind, g[S \ {x}], seq[x])]

\* The states a fold goes through.
Walk(W, kind, s, seq, n) ==
    /\ W[0] = s
    /\ \A k \in 1..n : W[k] = Do(kind, W[k - 1], seq[k])

LEMMA LargestOf ==
    ASSUME NEW k \in Nat, NEW S \in SUBSET (1..k), k \in S
    PROVE  Max(S) = k
<1>1. \A y \in S : k >= y /\ y \in Nat
  OBVIOUS
<1>2. k \in S /\ \A y \in S : k >= y
  BY <1>1
<1>3. \A x \in S : (\A y \in S : x >= y) => x = k
  BY <1>1
<1> QED
  BY <1>2, <1>3 DEF Max

\* The recursion has a solution.
LEMMA FoldsExist ==
    ASSUME NEW kind, NEW s, NEW seq, NEW n \in Nat
    PROVE  \E g : Folds(g, kind, s, seq, n)
<1> DEFINE Bad == {k \in Nat : ~ \E g : Folds(g, kind, s, seq, k)}
<1>1. SUFFICES ASSUME Bad # {} PROVE FALSE
  OBVIOUS
<1>2. PICK k \in Bad : \A m \in Bad : k <= m
  <2>1. Bad \in SUBSET Nat
    OBVIOUS
  <2> HIDE DEF Bad
  <2> QED
    BY <1>1, <2>1, LeastNat
<1>3. k \in Nat /\ ~ \E g : Folds(g, kind, s, seq, k)
  BY <1>2
<1>4. CASE k = 0
  <2> DEFINE g == [S \in SUBSET (1..0) |-> s]
  <2>1. \A S \in SUBSET (1..0) : S = {}
    OBVIOUS
  <2>2. g = [S \in SUBSET (1..0) |->
                IF S = {} THEN s
                ELSE LET x == Max(S) IN Do(kind, g[S \ {x}], seq[x])]
    BY <2>1
  <2>3. Folds(g, kind, s, seq, 0)
    <3> HIDE DEF g
    <3> QED
      BY <2>2 DEF Folds
  <2> QED
    BY <1>3, <1>4, <2>3
<1>5. CASE k # 0
  <2>1. k - 1 \in Nat /\ k - 1 \notin Bad
    <3>1. k \in Nat /\ k - 1 \in Nat
      BY <1>3, <1>5
    <3> HIDE DEF Bad
    <3> QED
      BY <1>2, <3>1
  <2>2. PICK g : Folds(g, kind, s, seq, k - 1)
    BY <2>1
  <2> DEFINE h == [S \in SUBSET (1..k) |->
                      IF k \in S THEN Do(kind, g[S \ {k}], seq[k]) ELSE g[S]]
             F(f, S) == IF S = {} THEN s
                        ELSE LET x == Max(S) IN Do(kind, f[S \ {x}], seq[x])
  <2>3. \A S \in SUBSET (1..k) : k \notin S => S \in SUBSET (1..(k - 1))
    <3>1. \A x \in 1..k : x # k => x \in 1..(k - 1)
      BY <2>1
    <3> QED
      BY <3>1
  <2>4. ASSUME NEW S \in SUBSET (1..k), k \in S PROVE h[S] = F(h, S)
    <3>1. Max(S) = k /\ S # {}
      BY <1>3, <2>4, LargestOf
    <3>2. S \ {k} \in SUBSET (1..k) /\ k \notin S \ {k}
      OBVIOUS
    <3>3. h[S \ {k}] = g[S \ {k}]
      BY <3>2
    <3>4. h[S] = Do(kind, g[S \ {k}], seq[k])
      BY <2>4
    <3> HIDE DEF h
    <3> QED
      BY <3>1, <3>3, <3>4
  <2>5. ASSUME NEW S \in SUBSET (1..k), k \notin S PROVE h[S] = F(h, S)
    <3>1. S \in SUBSET (1..(k - 1))
      BY <2>3, <2>5
    <3>2. h[S] = g[S]
      BY <2>5
    <3>3. g[S] = F(g, S)
      BY <2>2, <3>1 DEF Folds
    <3>4. \A x : h[S \ {x}] = g[S \ {x}]
      <4>1. \A x : S \ {x} \in SUBSET (1..k) /\ k \notin S \ {x}
        BY <2>5
      <4> QED
        BY <4>1
    <3> HIDE DEF h
    <3> QED
      BY <3>2, <3>3, <3>4
  <2>6. \A S \in SUBSET (1..k) : h[S] = F(h, S)
    BY <2>4, <2>5
  <2>7. h = [S \in SUBSET (1..k) |-> h[S]]
    OBVIOUS
  <2> HIDE DEF h
  <2>8. h = [S \in SUBSET (1..k) |-> F(h, S)]
    BY <2>6, <2>7
  <2>9. Folds(h, kind, s, seq, k)
    BY <2>8 DEF Folds
  <2> QED
    BY <1>3, <2>9
<1> QED
  BY <1>4, <1>5

\* Any solution walks through the sequence.
LEMMA FoldsWalk ==
    ASSUME NEW g, NEW kind, NEW s, NEW seq, NEW n \in Nat, Folds(g, kind, s, seq, n)
    PROVE  \E W : Walk(W, kind, s, seq, n) /\ W[n] = g[1..n]
<1> DEFINE W == [k \in 0..n |-> g[1..k]]
<1>1. \A S \in SUBSET (1..n) :
         g[S] = IF S = {} THEN s ELSE LET x == Max(S) IN Do(kind, g[S \ {x}], seq[x])
  BY DEF Folds
<1>2. W[0] = s
  <2>1. 1..0 = {} /\ {} \in SUBSET (1..n)
    OBVIOUS
  <2>2. g[{}] = s
    BY <1>1, <2>1
  <2>3. W[0] = g[1..0]
    OBVIOUS
  <2> HIDE DEF W
  <2> QED
    BY <2>1, <2>2, <2>3, Zenon
<1>3. ASSUME NEW k \in 1..n PROVE W[k] = Do(kind, W[k - 1], seq[k])
  <2>1. 1..k \in SUBSET (1..n) /\ k \in 1..k /\ (1..k) \ {k} = 1..(k - 1)
    OBVIOUS
  <2>2. Max(1..k) = k
    BY <2>1, LargestOf
  <2>3. g[1..k] = Do(kind, g[1..(k - 1)], seq[k])
    <3>1. 1..k # {}
      BY <2>1
    <3>2. PICK S : S = 1..k
      OBVIOUS
    <3> QED
      BY <1>1, <2>1, <2>2, <3>1, <3>2
  <2>4. W[k] = g[1..k] /\ W[k - 1] = g[1..(k - 1)]
    OBVIOUS
  <2> HIDE DEF W
  <2> QED
    BY <2>3, <2>4
<1>4. W[n] = g[1..n]
  OBVIOUS
<1> HIDE DEF W
<1> QED
  BY <1>2, <1>3, <1>4 DEF Walk

\* A fold ends where the walk ends.
LEMMA StepsWalk ==
    ASSUME NEW s, NEW seq, NEW n \in Nat, DOMAIN seq = 1..n
    PROVE  \E W : Walk(W, "step", s, seq, n) /\ W[n] = FoldLeft(DoStep, s, seq)
<1> DEFINE Rec(g) == g = [S \in SUBSET (1..n) |->
                             IF S = {} THEN s
                             ELSE LET x == Max(S) IN DoStep(g[S \ {x}], seq[x])]
           h == CHOOSE g : Rec(g)
<1>1. \A g : Rec(g) <=> Folds(g, "step", s, seq, n)
  BY DEF Folds, Do
<1>2. FoldLeft(DoStep, s, seq) = h[1..n]
  BY Zenon DEF FoldLeft, MapThenFoldSet
<1>3. Rec(h)
  <2>1. \E g : Rec(g)
    <3> HIDE DEF Rec
    <3> QED
      BY <1>1, FoldsExist
  <2> HIDE DEF Rec
  <2> QED
    BY <2>1
<1> HIDE DEF Rec, h
<1> QED
  BY <1>1, <1>2, <1>3, FoldsWalk

LEMMA GroupsWalk ==
    ASSUME NEW s, NEW seq, NEW n \in Nat, DOMAIN seq = 1..n
    PROVE  \E W : Walk(W, "group", s, seq, n) /\ W[n] = FoldLeft(DoGroup, s, seq)
<1> DEFINE Rec(g) == g = [S \in SUBSET (1..n) |->
                             IF S = {} THEN s
                             ELSE LET x == Max(S) IN DoGroup(g[S \ {x}], seq[x])]
           h == CHOOSE g : Rec(g)
<1>1. \A g : Rec(g) <=> Folds(g, "group", s, seq, n)
  BY DEF Folds, Do
<1>2. FoldLeft(DoGroup, s, seq) = h[1..n]
  BY Zenon DEF FoldLeft, MapThenFoldSet
<1>3. Rec(h)
  <2>1. \E g : Rec(g)
    <3> HIDE DEF Rec
    <3> QED
      BY <1>1, FoldsExist
  <2> HIDE DEF Rec
  <2> QED
    BY <2>1
<1> HIDE DEF Rec, h
<1> QED
  BY <1>1, <1>2, <1>3, FoldsWalk

-----------------------------------------------------------------------------
(* Piles. *)

\* What a plugin may answer for in an engine that is not for the CPU.
Allowed ==
    (IF "TP_GLOO" \in job.env THEN {"gloo"} ELSE {})
        \cup (IF "FP8_BF16" \in job.env THEN {"bf16_matmul"} ELSE {})
        \cup (IF "DETERMINISTIC_DUMMY" \in job.env THEN {"by_name"} ELSE {})

Fits(h) == "cpu" \notin job.env /\ h.kind = "answer" => h.name \in Allowed

FitPile(p) == (\E S : p \in Seq(S)) /\ \A i \in DOMAIN p : Fits(p[i])

\* A call on the pile does not end in what only CUDA has.
Solid(p) == \E i \in DOMAIN p : p[i].kind # "tap"

LEMMA PileAppends ==
    ASSUME NEW p, FitPile(p), NEW h, Fits(h)
    PROVE  /\ FitPile(Append(p, h)) /\ Append(p, h) # <<>>
           /\ Solid(p) \/ h.kind # "tap" => Solid(Append(p, h))
           /\ p # <<>> => Head(Append(p, h)) = Head(p)
<1> DEFINE q == Append(p, h)
           n == Len(p)
<1> PICK S : p \in Seq(S)
  BY DEF FitPile
<1>1. p \in Seq(S \cup {h}) /\ n \in Nat /\ DOMAIN p = 1..n
  OBVIOUS
<1>2. q \in Seq(S \cup {h}) /\ Len(q) = n + 1 /\ DOMAIN q = 1..(n + 1)
      /\ q[n + 1] = h /\ \A i \in 1..n : q[i] = p[i]
  BY <1>1
<1> HIDE DEF q, n
<1>3. FitPile(q)
  <2>1. \A i \in 1..(n + 1) : Fits(q[i])
    <3> SUFFICES ASSUME NEW i \in 1..(n + 1) PROVE Fits(q[i])
      OBVIOUS
    <3>1. i = n + 1 \/ i \in 1..n
      BY <1>1
    <3> QED
      BY <1>1, <1>2, <3>1 DEF FitPile
  <2> QED
    BY <1>2, <2>1 DEF FitPile
<1>4. Solid(p) \/ h.kind # "tap" => Solid(q)
  <2>1. n + 1 \in 1..(n + 1) /\ 1..n \subseteq 1..(n + 1)
    BY <1>1
  <2> QED
    BY <1>1, <1>2, <2>1 DEF Solid
<1>5. p # <<>> => Head(q) = Head(p)
  <2>1. p # <<>> => n # 0
    BY <1>1 DEF n
  <2>2. p # <<>> => Head(p) = p[1] /\ Head(q) = q[1] /\ 1 \in 1..n
    BY <1>1, <1>2, <2>1 DEF q
  <2> QED
    BY <1>2, <2>2
<1>6. q # <<>>
  BY <1>1, <1>2
<1> QED
  BY <1>3, <1>4, <1>5, <1>6 DEF q

LEMMA PileOfOne ==
    ASSUME NEW h, Fits(h)
    PROVE  /\ FitPile(<<h>>) /\ <<h>> # <<>> /\ Head(<<h>>) = h
           /\ h.kind # "tap" => Solid(<<h>>)
<1>1. <<h>> \in Seq({h}) /\ DOMAIN <<h>> = {1} /\ <<h>>[1] = h
  OBVIOUS
<1>2. \E S : <<h>> \in Seq(S)
  BY <1>1
<1> QED
  BY <1>1, <1>2 DEF FitPile, Solid

LEMMA EmptyPile == FitPile(<<>>) /\ ~Solid(<<>>)
<1>1. <<>> \in Seq({1}) /\ DOMAIN <<>> = {}
  OBVIOUS
<1> QED
  BY <1>1 DEF FitPile, Solid

LEMMA PileOver ==
    ASSUME NEW f, NEW g, NEW b
    PROVE  Pile(Over(f, g), b) = IF b \in DOMAIN f THEN f[b] ELSE Pile(g, b)
  BY DEF Pile, Over

LEMMA PileAssign ==
    ASSUME NEW f, NEW b, NEW p, NEW c
    PROVE  Pile(Assign(f, b, p), c) = IF c = b THEN p ELSE Pile(f, c)
<1> DEFINE one == [x \in {b} |-> p]
<1>1. DOMAIN one = {b} /\ one[b] = p
  OBVIOUS
<1>2. Pile(Over(one, f), c) = IF c \in DOMAIN one THEN one[c] ELSE Pile(f, c)
  BY PileOver, Zenon
<1> HIDE DEF one
<1>3. Pile(Over(one, f), c) = IF c = b THEN p ELSE Pile(f, c)
  BY <1>1, <1>2
<1> QED
  BY <1>3 DEF Assign, one

-----------------------------------------------------------------------------
(* Importers by value. *)

TopkCopy == At("topk", "module", "grouped_topk")
TopkHome == At("topk", "module", "grouped_topk_cpu")
Copies == {p[1] : p \in Copied}
Homes == {p[2] : p \in Copied}

LEMMA PairsAre ==
    ASSUME NEW p \in Copied
    PROVE  LET c == p[1]
               h == p[2]
           IN  \/ c[1] = "v4" /\ c[3] = "get_rope_wrapper" /\ h = At("rope", "module", "get_rope_wrapper")
               \/ c[1] = "model_runner" /\ c[3] = "adjust_config" /\ h = At("update_config", "module", "adjust_config")
               \/ c[1] = "model_runner" /\ c[3] = "free_memory" /\ h = At("common", "module", "free_memory")
               \/ c[1] = "allocation" /\ c[3] = "support_triton" /\ h = At("common", "module", "support_triton")
               \/ c[1] = "batch_info" /\ c[3] = "support_triton" /\ h = At("common", "module", "support_triton")
               \/ c[1] = "loader" /\ c[3] = "dummy_weights" /\ h = At("weight_utils", "module", "dummy_weights")
               \/ c[1] = "v2" /\ c[3] = "silu_clamp" /\ h = At("dsv4_moe", "module", "silu_clamp")
               \/ c[1] = "topk" /\ c[3] = "grouped_topk" /\ h = At("topk", "module", "grouped_topk_cpu")
<1>1. ASSUME p = <<At("v4", "module", "get_rope_wrapper"), At("rope", "module", "get_rope_wrapper")>>
      PROVE  p[1][1] = "v4" /\ p[1][3] = "get_rope_wrapper" /\ p[2] = At("rope", "module", "get_rope_wrapper")
  BY <1>1 DEF At
<1>2. ASSUME p = <<At("model_runner", "module", "adjust_config"), At("update_config", "module", "adjust_config")>>
      PROVE  p[1][1] = "model_runner" /\ p[1][3] = "adjust_config" /\ p[2] = At("update_config", "module", "adjust_config")
  BY <1>2 DEF At
<1>3. ASSUME p = <<At("model_runner", "module", "free_memory"), At("common", "module", "free_memory")>>
      PROVE  p[1][1] = "model_runner" /\ p[1][3] = "free_memory" /\ p[2] = At("common", "module", "free_memory")
  BY <1>3 DEF At
<1>4. ASSUME p = <<At("allocation", "module", "support_triton"), At("common", "module", "support_triton")>>
      PROVE  p[1][1] = "allocation" /\ p[1][3] = "support_triton" /\ p[2] = At("common", "module", "support_triton")
  BY <1>4 DEF At
<1>5. ASSUME p = <<At("batch_info", "module", "support_triton"), At("common", "module", "support_triton")>>
      PROVE  p[1][1] = "batch_info" /\ p[1][3] = "support_triton" /\ p[2] = At("common", "module", "support_triton")
  BY <1>5 DEF At
<1>6. ASSUME p = <<At("loader", "module", "dummy_weights"), At("weight_utils", "module", "dummy_weights")>>
      PROVE  p[1][1] = "loader" /\ p[1][3] = "dummy_weights" /\ p[2] = At("weight_utils", "module", "dummy_weights")
  BY <1>6 DEF At
<1>7. ASSUME p = <<At("v2", "module", "silu_clamp"), At("dsv4_moe", "module", "silu_clamp")>>
      PROVE  p[1][1] = "v2" /\ p[1][3] = "silu_clamp" /\ p[2] = At("dsv4_moe", "module", "silu_clamp")
  BY <1>7 DEF At
<1>8. ASSUME p = <<At("topk", "module", "grouped_topk"), At("topk", "module", "grouped_topk_cpu")>>
      PROVE  p[1][1] = "topk" /\ p[1][3] = "grouped_topk" /\ p[2] = At("topk", "module", "grouped_topk_cpu")
  BY <1>8 DEF At
<1>9. \/ p = <<At("v4", "module", "get_rope_wrapper"), At("rope", "module", "get_rope_wrapper")>>
      \/ p = <<At("model_runner", "module", "adjust_config"), At("update_config", "module", "adjust_config")>>
      \/ p = <<At("model_runner", "module", "free_memory"), At("common", "module", "free_memory")>>
      \/ p = <<At("allocation", "module", "support_triton"), At("common", "module", "support_triton")>>
      \/ p = <<At("batch_info", "module", "support_triton"), At("common", "module", "support_triton")>>
      \/ p = <<At("loader", "module", "dummy_weights"), At("weight_utils", "module", "dummy_weights")>>
      \/ p = <<At("v2", "module", "silu_clamp"), At("dsv4_moe", "module", "silu_clamp")>>
      \/ p = <<At("topk", "module", "grouped_topk"), At("topk", "module", "grouped_topk_cpu")>>
  BY Zenon DEF Copied, V4
<1> QED
  BY <1>1, <1>2, <1>3, <1>4, <1>5, <1>6, <1>7, <1>8, <1>9, Zenon

LEMMA PairIs ==
    ASSUME NEW p \in Copied, NEW q \in Copied, p[1] = q[1]
    PROVE  p[2] = q[2]
  BY PairsAre

LEMMA CopiesAre ==
    /\ DOMAIN CopyOf = Copies
    /\ \A p \in Copied : CopyOf[p[1]] = p[2]
<1>1. DOMAIN CopyOf = Copies
  BY DEF CopyOf, Copies
<1>2. ASSUME NEW p \in Copied PROVE CopyOf[p[1]] = p[2]
  <2> DEFINE q == CHOOSE q \in Copied : q[1] = p[1]
  <2>1. q \in Copied /\ q[1] = p[1]
    OBVIOUS
  <2>2. CopyOf[p[1]] = q[2]
    BY DEF CopyOf
  <2> HIDE DEF q
  <2> QED
    BY <2>1, <2>2, PairIs
<1> QED
  BY <1>1, <1>2

LEMMA HomesApart == Copies \cap Homes = {}
<1> SUFFICES ASSUME NEW p \in Copied, NEW q \in Copied, p[1] = q[2] PROVE FALSE
  BY DEF Copies, Homes
<1>1. p[1][1] = q[2][1] /\ p[1][3] = q[2][3]
  OBVIOUS
<1>2. /\ q[2][1] \in {"rope", "update_config", "common", "weight_utils", "dsv4_moe", "topk"}
      /\ q[2][1] = "topk" => q[2][3] = "grouped_topk_cpu"
  <2> DEFINE Of(h) == /\ h[1] \in {"rope", "update_config", "common", "weight_utils", "dsv4_moe", "topk"}
                      /\ h[1] = "topk" => h[3] = "grouped_topk_cpu"
  <2>1. /\ Of(At("rope", "module", "get_rope_wrapper")) /\ Of(At("update_config", "module", "adjust_config"))
        /\ Of(At("common", "module", "free_memory")) /\ Of(At("common", "module", "support_triton"))
        /\ Of(At("weight_utils", "module", "dummy_weights")) /\ Of(At("dsv4_moe", "module", "silu_clamp"))
        /\ Of(At("topk", "module", "grouped_topk_cpu"))
    BY DEF At
  <2> HIDE DEF Of
  <2>2. Of(q[2])
    BY <2>1, PairsAre, Zenon
  <2> QED
    BY <2>2 DEF Of
<1>3. /\ p[1][1] \in {"v4", "model_runner", "allocation", "batch_info", "loader", "v2", "topk"}
      /\ p[1][1] = "topk" => p[1][3] = "grouped_topk"
  BY PairsAre
<1> QED
  BY <1>1, <1>2, <1>3

LEMMA HomeIs ==
    ASSUME NEW c \in DOMAIN CopyOf
    PROVE  CopyOf[c] \in Homes /\ CopyOf[c] \notin DOMAIN CopyOf
  BY CopiesAre, HomesApart DEF Copies, Homes

LEMMA TopkIs ==
    /\ TopkCopy \in DOMAIN CopyOf /\ CopyOf[TopkCopy] = TopkHome /\ TopkCopy # TopkHome
    /\ TopkHome \notin DOMAIN CopyOf /\ TopkHome[1] = "topk" /\ TopkCopy[1] = "topk"
    /\ "topk" \in Importers
<1>1. <<TopkCopy, TopkHome>> \in Copied
  BY DEF Copied, TopkCopy, TopkHome
<1>2. TopkCopy \in DOMAIN CopyOf /\ CopyOf[TopkCopy] = TopkHome
  BY <1>1, CopiesAre DEF Copies
<1>3. TopkHome[1] = "topk" /\ TopkCopy[1] = "topk" /\ TopkCopy # TopkHome
  BY DEF At, TopkCopy, TopkHome
<1> QED
  BY <1>2, <1>3, HomeIs DEF Importers

-----------------------------------------------------------------------------
(* What a step keeps. *)

Fields == {"live", "bind", "flags", "placed", "ok"}

\* The bindings of a state of the load.
Sound(s) ==
    /\ DOMAIN s = Fields
    /\ \A b \in DOMAIN s.bind : FitPile(s.bind[b])
    /\ Pile(s.bind, TopkCopy) = Pile(s.bind, TopkHome)

\* A binding does not end in what only CUDA has, nor does it when the module
\* that imports it by value is imported later.
Has(s, b) ==
    /\ Solid(Pile(s.bind, b))
    /\ b \in DOMAIN CopyOf => Solid(Pile(s.bind, CopyOf[b]))

\* GLM's mhc_post is in force.
Post == Mhc("post")
PostOn(s) == LET p == Pile(s.bind, Post) IN p # <<>> /\ Head(p) = Answer("adaptive_post")

Keeps(s, u, calm) ==
    /\ \A b : Has(s, b) => Has(u, b)
    /\ calm /\ PostOn(s) => PostOn(u)

LEMMA KeepsOn ==
    ASSUME NEW s, NEW u, NEW v, NEW calm, Keeps(s, u, calm), Keeps(u, v, calm)
    PROVE  Keeps(s, v, calm)
  BY Zenon DEF Keeps

LEMMA KeepsSame ==
    ASSUME NEW s, NEW u, NEW calm, u.bind = s.bind
    PROVE  Keeps(s, u, calm)
  BY DEF Keeps, Has, PostOn

LEMMA PileFits ==
    ASSUME NEW s, Sound(s), NEW b
    PROVE  FitPile(Pile(s.bind, b))
  BY EmptyPile DEF Sound, Pile

LEMMA PostIsNoCopy == Post \notin DOMAIN CopyOf /\ Post # TopkCopy /\ Post # TopkHome
<1>1. Post[1] = "mhc"
  BY DEF At, Post, Mhc
<1>2. \A p \in Copied : p[1][1] # "mhc"
  BY PairsAre
<1>3. Post \notin DOMAIN CopyOf
  <2> SUFFICES ASSUME NEW p \in Copied, Post = p[1] PROVE FALSE
    BY CopiesAre DEF Copies
  <2> QED
    BY <1>1, <1>2
<1> QED
  BY <1>1, <1>3, TopkIs

LEMMA ImportedIs ==
    ASSUME NEW s, Sound(s), NEW m
    PROVE  LET u == Imported(s, m)
           IN  /\ Sound(u) /\ u.flags = s.flags /\ u.ok = s.ok
               /\ \A calm : Keeps(s, u, calm)
               /\ m \in Importers => m \in u.live
<1> DEFINE u == Imported(s, m)
           D == {d \in DOMAIN CopyOf : d[1] = m /\ CopyOf[d] \in DOMAIN s.bind}
           f == [c \in D |-> s.bind[CopyOf[c]]]
<1>1. CASE m \in s.live \/ m \notin Importers
  <2>1. u = s
    BY <1>1 DEF Imported
  <2> QED
    BY <1>1, <2>1, KeepsSame
<1>2. CASE ~(m \in s.live \/ m \notin Importers)
  <2>1. u = [s EXCEPT !.live = @ \cup {m}, !.bind = Over(f, @)]
    BY <1>2 DEF Imported
  <2>2. /\ DOMAIN u = Fields /\ u.live = s.live \cup {m} /\ u.bind = Over(f, s.bind)
        /\ u.flags = s.flags /\ u.ok = s.ok
    <3> HIDE DEF u, f
    <3> QED
      BY <2>1 DEF Sound, Fields
  <2>3. \A b : Pile(u.bind, b) = IF b \in D THEN Pile(s.bind, CopyOf[b]) ELSE Pile(s.bind, b)
    <3>1. DOMAIN f = D /\ \A b \in D : f[b] = Pile(s.bind, CopyOf[b])
      BY DEF Pile
    <3> HIDE DEF u, f, D
    <3> QED
      BY <2>2, <3>1, PileOver
  <2>4. \A b \in D : b \in DOMAIN CopyOf /\ CopyOf[b] \notin D
    BY HomeIs
  <2>5. TopkHome \notin D /\ Post \notin D /\ CopyOf[TopkCopy] = TopkHome
    BY TopkIs, PostIsNoCopy
  <2>6. \A b \in DOMAIN u.bind : FitPile(u.bind[b])
    <3>1. \A b : FitPile(Pile(u.bind, b))
      BY <2>3, PileFits
    <3> HIDE DEF u
    <3> QED
      BY <3>1 DEF Pile
  <2>7. \A b \in DOMAIN CopyOf : CopyOf[b] \notin D
    BY HomeIs
  <2> HIDE DEF u, D, f
  <2>8. Sound(u)
    BY <2>2, <2>3, <2>5, <2>6 DEF Sound
  <2>9. ASSUME NEW calm PROVE Keeps(s, u, calm)
    <3>1. ASSUME NEW b, Has(s, b) PROVE Has(u, b)
      BY <2>3, <2>4, <2>7, <3>1 DEF Has
    <3>2. PostOn(s) => PostOn(u)
      BY <2>3, <2>5 DEF PostOn
    <3> QED
      BY <3>1, <3>2 DEF Keeps
  <2> QED
    BY <2>2, <2>8, <2>9 DEF u
<1> QED
  BY <1>1, <1>2

\* One binding is assigned.
LEMMA AssignKeeps ==
    ASSUME NEW u, Sound(u), NEW v, DOMAIN v = Fields, NEW b, NEW p, NEW calm,
           v.bind = Assign(u.bind, b, p), FitPile(p), b # TopkCopy, b # TopkHome,
           Has(u, b) => Solid(p),
           \A c \in DOMAIN CopyOf : CopyOf[c] = b /\ Solid(Pile(u.bind, b)) => Solid(p),
           calm /\ b = Post /\ PostOn(u) => p # <<>> /\ Head(p) = Answer("adaptive_post")
    PROVE  Sound(v) /\ Keeps(u, v, calm)
<1>1. Pile(v.bind, b) = p /\ \A c : c # b => Pile(v.bind, c) = Pile(u.bind, c)
  <2>1. Pile(Assign(u.bind, b, p), b) = p /\ \A c : c # b => Pile(Assign(u.bind, b, p), c) = Pile(u.bind, c)
    BY PileAssign
  <2> QED
    BY <2>1
<1>2. \A c : FitPile(Pile(v.bind, c))
  BY <1>1, PileFits
<1>3. Sound(v)
  <2>1. \A c \in DOMAIN v.bind : FitPile(v.bind[c])
    BY <1>2 DEF Pile
  <2> QED
    BY <1>1, <2>1 DEF Sound
<1>4. ASSUME NEW c, Has(u, c) PROVE Has(v, c)
  BY <1>1, <1>4 DEF Has
<1>5. calm /\ PostOn(u) => PostOn(v)
  BY <1>1 DEF PostOn
<1> QED
  BY <1>3, <1>4, <1>5 DEF Keeps

\* A step of an installer: what is put answers for itself, and the grouped
\* top-k is only swept.
Good(t) ==
    /\ t.do \in {"put", "maybe_put", "wrap", "maybe_wrap", "copy", "sweep", "read"}
    /\ t.on \subseteq job.env => Fits(t.hook)
    /\ t.do \in {"put", "maybe_put"} => t.hook.kind # "tap"
    /\ t.do = "copy" => t.at \in DOMAIN CopyOf
    /\ t.at # TopkCopy /\ (t.at = TopkHome => t.do = "sweep")

\* A step that leaves GLM's mhc_post in force.
Calm(t) == t.at # Post \/ t.do \notin {"put", "maybe_put"} \/ t.hook = Answer("adaptive_post")

\* A step that is taken: what it does to the state u of the import.
Applied(u, v, t) ==
    LET old == Pile(u.bind, t.at)
        Same == {c \in DOMAIN CopyOf : /\ CopyOf[c] = t.at /\ c[1] \in u.live
                                       /\ Pile(u.bind, c) = old}
    IN  /\ t.do \in {"put", "maybe_put"} => v = PutAt(u, t.at, <<t.hook>>, t.hook)
        /\ t.do \in {"wrap", "maybe_wrap"} => v = PutAt(u, t.at, Append(old, t.hook), t.hook)
        /\ t.do = "copy" => v = [u EXCEPT !.bind = Assign(@, t.at, Pile(@, CopyOf[t.at]))]
        /\ t.do = "sweep" => v = PutAt([u EXCEPT !.bind = Over([c \in Same |-> Append(old, t.hook)], @)],
                                       t.at, Append(old, t.hook), t.hook)
        /\ t.do = "read" => v = u

LEMMA StepIsTaken ==
    ASSUME NEW s, NEW t, Good(t), s.ok, t.on \subseteq job.env, ~Lacking(s, t)
    PROVE  Applied(Imported(s, t.at[1]), DoStep(s, t), t)
  BY DEF DoStep, Applied, Good

LEMMA PlaceIs ==
    ASSUME NEW u, DOMAIN u = Fields, NEW b, NEW p, NEW h
    PROVE  LET v == PutAt(u, b, p, h)
           IN  /\ DOMAIN v = Fields /\ v.bind = Assign(u.bind, b, p)
               /\ v.live = u.live /\ v.flags = u.flags /\ v.ok = u.ok
  BY DEF PutAt, Fields

\* What a step that is taken keeps, and what it gives.
LEMMA PutKeeps ==
    ASSUME NEW u, Sound(u), NEW v, NEW t, Good(t), Applied(u, v, t), t.on \subseteq job.env,
           t.do \in {"put", "maybe_put"}
    PROVE  /\ Sound(v) /\ Keeps(u, v, Calm(t)) /\ v.flags = u.flags /\ v.ok = u.ok
           /\ t.at \notin DOMAIN CopyOf => Has(v, t.at)
           /\ t.at = Post /\ t.hook = Answer("adaptive_post") => PostOn(v)
<1>1. v = PutAt(u, t.at, <<t.hook>>, t.hook)
  BY DEF Applied
<1>2. /\ DOMAIN v = Fields /\ v.bind = Assign(u.bind, t.at, <<t.hook>>)
      /\ v.flags = u.flags /\ v.ok = u.ok
  <2>1. DOMAIN u = Fields
    BY DEF Sound
  <2> QED
    BY <1>1, <2>1, PlaceIs
<1>3. /\ FitPile(<<t.hook>>) /\ Solid(<<t.hook>>) /\ <<t.hook>> # <<>> /\ Head(<<t.hook>>) = t.hook
      /\ t.at # TopkCopy /\ t.at # TopkHome
  BY PileOfOne DEF Good
<1>4. Sound(v) /\ Keeps(u, v, Calm(t))
  BY <1>2, <1>3, AssignKeeps DEF Calm
<1>5. Pile(v.bind, t.at) = <<t.hook>>
  <2>1. Pile(Assign(u.bind, t.at, <<t.hook>>), t.at) = <<t.hook>>
    BY PileAssign
  <2> QED
    BY <1>2, <2>1
<1> QED
  BY <1>2, <1>3, <1>4, <1>5 DEF Has, PostOn

LEMMA WrapKeeps ==
    ASSUME NEW u, Sound(u), NEW v, NEW t, Good(t), Applied(u, v, t), t.on \subseteq job.env,
           t.do \in {"wrap", "maybe_wrap"}
    PROVE  /\ Sound(v) /\ Keeps(u, v, Calm(t)) /\ v.flags = u.flags /\ v.ok = u.ok
           /\ t.at \notin DOMAIN CopyOf /\ t.hook.kind # "tap" => Has(v, t.at)
<1> DEFINE old == Pile(u.bind, t.at)
           p == Append(old, t.hook)
<1>1. v = PutAt(u, t.at, p, t.hook)
  BY DEF Applied
<1>2. FitPile(old)
  BY PileFits
<1>3. /\ FitPile(p) /\ p # <<>> /\ (old # <<>> => Head(p) = Head(old))
      /\ Solid(old) \/ t.hook.kind # "tap" => Solid(p)
      /\ t.at # TopkCopy /\ t.at # TopkHome
  BY <1>2, PileAppends DEF Good
<1> HIDE DEF p
<1>4. DOMAIN v = Fields /\ v.bind = Assign(u.bind, t.at, p) /\ v.flags = u.flags /\ v.ok = u.ok
  <2>1. DOMAIN u = Fields
    BY DEF Sound
  <2> QED
    BY <1>1, <2>1, PlaceIs
<1>5. Sound(v) /\ Keeps(u, v, Calm(t))
  BY <1>3, <1>4, AssignKeeps DEF Has, PostOn
<1>6. Pile(v.bind, t.at) = p
  <2>1. Pile(Assign(u.bind, t.at, p), t.at) = p
    BY PileAssign
  <2> QED
    BY <1>4, <2>1
<1> QED
  BY <1>3, <1>4, <1>5, <1>6 DEF Has

LEMMA CopyKeeps ==
    ASSUME NEW u, Sound(u), NEW v, NEW t, Good(t), Applied(u, v, t), t.do = "copy"
    PROVE  /\ Sound(v) /\ Keeps(u, v, Calm(t)) /\ v.flags = u.flags /\ v.ok = u.ok
           /\ Solid(Pile(u.bind, CopyOf[t.at])) => Has(v, t.at)
<1> DEFINE p == Pile(u.bind, CopyOf[t.at])
<1>1. v = [u EXCEPT !.bind = Assign(@, t.at, p)]
  BY DEF Applied
<1>2. DOMAIN v = Fields /\ v.bind = Assign(u.bind, t.at, p) /\ v.flags = u.flags /\ v.ok = u.ok
  BY <1>1 DEF Sound, Fields
<1>3. FitPile(p)
  BY PileFits
<1>4. /\ t.at \in DOMAIN CopyOf /\ t.at # TopkCopy /\ t.at # TopkHome /\ t.at # Post
      /\ CopyOf[t.at] # t.at
  BY HomeIs, PostIsNoCopy, TopkIs DEF Good
<1>5. \A c \in DOMAIN CopyOf : CopyOf[c] # t.at
  BY <1>4, HomeIs
<1>6. Has(u, t.at) => Solid(p)
  BY <1>4 DEF Has
<1>7. Sound(v) /\ Keeps(u, v, Calm(t))
  BY <1>2, <1>3, <1>4, <1>5, <1>6, AssignKeeps
<1>8. Pile(v.bind, t.at) = p /\ Pile(v.bind, CopyOf[t.at]) = p
  BY <1>2, <1>4, PileAssign
<1> QED
  BY <1>2, <1>7, <1>8 DEF Has

LEMMA SweepKeeps ==
    ASSUME NEW u, Sound(u), NEW v, NEW t, Good(t), Applied(u, v, t), t.on \subseteq job.env,
           t.do = "sweep", t.at = TopkHome => "topk" \in u.live
    PROVE  /\ Sound(v) /\ Keeps(u, v, Calm(t)) /\ v.flags = u.flags /\ v.ok = u.ok
           /\ t.hook.kind # "tap" => /\ t.at \notin DOMAIN CopyOf => Has(v, t.at)
                                     /\ t.at = TopkHome => Has(v, TopkCopy)
<1> DEFINE old == Pile(u.bind, t.at)
           p == Append(old, t.hook)
           Same == {c \in DOMAIN CopyOf : CopyOf[c] = t.at /\ c[1] \in u.live /\ Pile(u.bind, c) = old}
           f == [c \in Same |-> p]
           w == [u EXCEPT !.bind = Over(f, @)]
<1>1. v = PutAt(w, t.at, p, t.hook)
  BY DEF Applied
<1>2. FitPile(old)
  BY PileFits
<1>3. /\ FitPile(p) /\ p # <<>> /\ (old # <<>> => Head(p) = Head(old))
      /\ Solid(old) \/ t.hook.kind # "tap" => Solid(p)
      /\ t.at # TopkCopy
  BY <1>2, PileAppends DEF Good
<1>4. /\ DOMAIN w = Fields /\ w.bind = Over(f, u.bind) /\ w.live = u.live
      /\ w.flags = u.flags /\ w.ok = u.ok
  <2> HIDE DEF f
  <2> QED
    BY DEF Sound, Fields
<1>5. v.bind = Assign(Over(f, u.bind), t.at, p) /\ DOMAIN v = Fields /\ v.flags = u.flags /\ v.ok = u.ok
  <2> HIDE DEF w, f, p
  <2> QED
    BY <1>1, <1>4, PlaceIs
<1>6. DOMAIN f = Same /\ \A c \in Same : f[c] = p
  OBVIOUS
<1> HIDE DEF w, f, p
<1>7. \A b : Pile(v.bind, b) = IF b = t.at \/ b \in Same THEN p ELSE Pile(u.bind, b)
  <2> SUFFICES ASSUME NEW b PROVE Pile(v.bind, b) = IF b = t.at \/ b \in Same THEN p ELSE Pile(u.bind, b)
    OBVIOUS
  <2>1. Pile(Assign(Over(f, u.bind), t.at, p), b) = IF b = t.at THEN p ELSE Pile(Over(f, u.bind), b)
    BY PileAssign
  <2>2. Pile(Over(f, u.bind), b) = IF b \in DOMAIN f THEN f[b] ELSE Pile(u.bind, b)
    BY PileOver
  <2> HIDE DEF Same
  <2> QED
    BY <1>5, <1>6, <2>1, <2>2
<1>8. \A b \in Same : b \in DOMAIN CopyOf /\ CopyOf[b] = t.at /\ Pile(u.bind, b) = old
  OBVIOUS
<1>9. TopkHome \notin Same /\ Post \notin Same /\ (TopkCopy \in Same <=> t.at = TopkHome)
  <2>1. Pile(u.bind, TopkCopy) = Pile(u.bind, TopkHome)
    BY DEF Sound
  <2> QED
    BY <2>1, TopkIs, PostIsNoCopy
<1> HIDE DEF Same
<1>10. Sound(v)
  <2>1. \A b : FitPile(Pile(v.bind, b))
    BY <1>3, <1>7, PileFits
  <2>2. \A b \in DOMAIN v.bind : FitPile(v.bind[b])
    BY <2>1 DEF Pile
  <2>3. Pile(u.bind, TopkCopy) = Pile(u.bind, TopkHome)
    BY DEF Sound
  <2>4. Pile(v.bind, TopkCopy) = Pile(v.bind, TopkHome)
    BY <1>3, <1>7, <1>9, <2>3
  <2> QED
    BY <1>5, <2>2, <2>4 DEF Sound
<1>11. \A b : Solid(Pile(u.bind, b)) => Solid(Pile(v.bind, b))
  BY <1>3, <1>7, <1>8
<1>12. \A b : Has(u, b) => Has(v, b)
  BY <1>11 DEF Has
<1>13. PostOn(u) => PostOn(v)
  BY <1>3, <1>7, <1>9 DEF PostOn
<1>14. t.at = TopkHome => Pile(v.bind, TopkCopy) = p /\ Pile(v.bind, TopkHome) = p
  BY <1>7, <1>9
<1>15. Pile(v.bind, t.at) = p
  BY <1>7
<1> QED
  BY <1>3, <1>5, <1>10, <1>12, <1>13, <1>14, <1>15, TopkIs DEF Keeps, Has

-----------------------------------------------------------------------------
(* A step, whether it is taken or not. *)

\* SGLang lacks nothing.
Whole == job.lacks = {}

LEMMA NothingMissing ==
    ASSUME Whole, NEW b
    PROVE  ~Missing(b) /\ \A s, t : ~Lacking(s, t)
  BY DEF Whole, Missing, Lacking

\* What a taken step gives the bindings that a call must not fall through.
Yields(t, b) ==
    /\ t.on \subseteq job.env /\ t.hook.kind # "tap"
    /\ \/ t.do \in {"put", "maybe_put", "wrap", "maybe_wrap", "sweep"} /\ t.at = b /\ b \notin DOMAIN CopyOf
       \/ t.do = "sweep" /\ t.at = TopkHome /\ b = TopkCopy

Carries(t, b) == t.do = "copy" /\ t.on \subseteq job.env /\ t.at = b

Posts(t) ==
    /\ t.on \subseteq job.env /\ t.at = Post /\ t.hook = Answer("adaptive_post")
    /\ t.do \in {"put", "maybe_put"}

LEMMA StepKeeps ==
    ASSUME NEW s, Sound(s), NEW t, Good(t)
    PROVE  LET v == DoStep(s, t)
           IN  /\ Sound(v) /\ Keeps(s, v, Calm(t)) /\ v.flags = s.flags
               /\ Whole /\ s.ok =>
                      /\ v.ok
                      /\ \A b : Yields(t, b) => Has(v, b)
                      /\ \A b : Carries(t, b) /\ Has(s, CopyOf[b]) => Has(v, b)
                      /\ Posts(t) => PostOn(v)
<1> DEFINE v == DoStep(s, t)
           u == Imported(s, t.at[1])
<1>1. CASE ~s.ok \/ ~(t.on \subseteq job.env)
  <2>1. v = s
    BY <1>1 DEF DoStep
  <2> HIDE DEF v
  <2>2. Keeps(s, v, Calm(t))
    BY <2>1, KeepsSame
  <2> QED
    BY <1>1, <2>1, <2>2 DEF v, Yields, Carries, Posts
<1>2. CASE s.ok /\ t.on \subseteq job.env /\ Lacking(s, t)
  <2>1. v = [s EXCEPT !.ok = t.do \in {"maybe_put", "maybe_wrap", "copy"}]
    BY <1>2 DEF DoStep
  <2>2. DOMAIN v = Fields /\ v.bind = s.bind /\ v.flags = s.flags
    <3> HIDE DEF v
    <3> QED
      BY <2>1 DEF Sound, Fields
  <2>3. ~Whole
    BY <1>2, NothingMissing
  <2> HIDE DEF v
  <2>4. Keeps(s, v, Calm(t))
    BY <2>2, KeepsSame
  <2>5. Sound(v)
    BY <2>2 DEF Sound
  <2> QED
    BY <2>2, <2>3, <2>4, <2>5 DEF v
<1>3. CASE s.ok /\ t.on \subseteq job.env /\ ~Lacking(s, t)
  <2>1. /\ Sound(u) /\ u.flags = s.flags /\ u.ok = s.ok
        /\ \A calm : Keeps(s, u, calm)
        /\ t.at[1] \in Importers => t.at[1] \in u.live
    BY ImportedIs
  <2>2. Applied(u, v, t)
    BY <1>3, StepIsTaken
  <2> HIDE DEF u, v
  <2>3. /\ Sound(v) /\ Keeps(u, v, Calm(t)) /\ v.flags = u.flags /\ v.ok = u.ok
        /\ \A b : Yields(t, b) => Has(v, b)
        /\ \A b : Carries(t, b) /\ Has(u, CopyOf[b]) => Has(v, b)
        /\ Posts(t) => PostOn(v)
    <3>1. CASE t.do \in {"put", "maybe_put"}
      <4>1. /\ Sound(v) /\ Keeps(u, v, Calm(t)) /\ v.flags = u.flags /\ v.ok = u.ok
            /\ t.at \notin DOMAIN CopyOf => Has(v, t.at)
            /\ t.at = Post /\ t.hook = Answer("adaptive_post") => PostOn(v)
        BY <1>3, <2>1, <2>2, <3>1, PutKeeps
      <4> QED
        BY <3>1, <4>1 DEF Yields, Carries, Posts
    <3>2. CASE t.do \in {"wrap", "maybe_wrap"}
      <4>1. /\ Sound(v) /\ Keeps(u, v, Calm(t)) /\ v.flags = u.flags /\ v.ok = u.ok
            /\ t.at \notin DOMAIN CopyOf /\ t.hook.kind # "tap" => Has(v, t.at)
        BY <1>3, <2>1, <2>2, <3>2, WrapKeeps
      <4> QED
        BY <3>2, <4>1 DEF Yields, Carries, Posts
    <3>3. CASE t.do = "copy"
      <4>1. /\ Sound(v) /\ Keeps(u, v, Calm(t)) /\ v.flags = u.flags /\ v.ok = u.ok
            /\ Solid(Pile(u.bind, CopyOf[t.at])) => Has(v, t.at)
        BY <2>1, <2>2, <3>3, CopyKeeps
      <4> QED
        BY <3>3, <4>1 DEF Yields, Carries, Posts, Has
    <3>4. CASE t.do = "sweep"
      <4>1. t.at = TopkHome => "topk" \in u.live
        BY <2>1, TopkIs
      <4>2. /\ Sound(v) /\ Keeps(u, v, Calm(t)) /\ v.flags = u.flags /\ v.ok = u.ok
            /\ t.hook.kind # "tap" => /\ t.at \notin DOMAIN CopyOf => Has(v, t.at)
                                      /\ t.at = TopkHome => Has(v, TopkCopy)
        BY <1>3, <2>1, <2>2, <3>4, <4>1, SweepKeeps
      <4> QED
        BY <3>4, <4>2 DEF Yields, Carries, Posts
    <3>5. CASE t.do = "read"
      <4>1. v = u
        BY <2>2, <3>5 DEF Applied
      <4>2. Keeps(u, v, Calm(t))
        BY <4>1, KeepsSame
      <4> QED
        BY <2>1, <3>5, <4>1, <4>2 DEF Yields, Carries, Posts
    <3> QED
      BY <3>1, <3>2, <3>3, <3>4, <3>5 DEF Good
  <2>4. Keeps(s, v, Calm(t))
    BY <2>1, <2>3, KeepsOn
  <2>5. \A b : Has(s, b) => Has(u, b)
    BY <2>1 DEF Keeps
  <2> QED
    BY <1>3, <2>1, <2>3, <2>4, <2>5 DEF v
<1> QED
  BY <1>1, <1>2, <1>3

-----------------------------------------------------------------------------
(* A sequence of steps, a group, an installer. *)

\* A group under one of these flags binds what the flag goes with.
Flagged ==
    {<<"pin_memory", Torch("empty")>>, <<"capability", Torch("capability")>>,
     <<"hash", Moe2("forward_cpu")>>, <<"fp4", At("fp8", "Fp8MoEMethod", "process_weights")>>}

FlagsHold(s) == \A p \in Flagged : p[1] \in s.flags => Has(s, p[2])

\* From s to u: what is sound stays sound, what is bound stays bound, and where
\* SGLang lacks nothing, nothing fails and the flags go on telling the truth.
Leads(s, u, calm) ==
    /\ Sound(u) /\ Keeps(s, u, calm)
    /\ Whole /\ s.ok => u.ok /\ \A p \in Flagged : p[1] \in u.flags => p[1] \in s.flags \/ Has(u, p[2])

LEMMA LeadsSame ==
    ASSUME NEW s, Sound(s), NEW calm
    PROVE  Leads(s, s, calm)
  BY KeepsSame DEF Leads

LEMMA LeadsOn ==
    ASSUME NEW s, NEW u, NEW v, NEW calm, Leads(s, u, calm), Leads(u, v, calm)
    PROVE  Leads(s, v, calm)
<1>1. Keeps(s, v, calm)
  BY KeepsOn DEF Leads
<1>2. \A b : Has(u, b) => Has(v, b)
  BY DEF Leads, Keeps
<1> QED
  BY <1>1, <1>2 DEF Leads

LEMMA LeadsHold ==
    ASSUME NEW s, NEW u, NEW calm, Leads(s, u, calm), Whole, s.ok, FlagsHold(s)
    PROVE  FlagsHold(u)
<1>1. \A b : Has(s, b) => Has(u, b)
  BY DEF Leads, Keeps
<1> QED
  BY <1>1 DEF Leads, FlagsHold

\* Along a walk each state leads to the later ones.
LEMMA WalkLeads ==
    ASSUME NEW W, NEW kind, NEW s, Sound(s), NEW seq, NEW n \in Nat, Walk(W, kind, s, seq, n),
           NEW calm,
           \A k \in 1..n : \A x : Sound(x) => Leads(x, Do(kind, x, seq[k]), calm)
    PROVE  \A j, k \in 0..n : j <= k => Sound(W[j]) /\ Leads(W[j], W[k], calm)
<1>1. \A k \in 0..n : Sound(W[k])
  <2> DEFINE Bad == {k \in Nat : k \in 0..n /\ ~Sound(W[k])}
  <2>1. SUFFICES ASSUME Bad # {} PROVE FALSE
    OBVIOUS
  <2>2. PICK k \in Bad : \A m \in Bad : k <= m
    <3>1. Bad \in SUBSET Nat
      OBVIOUS
    <3> HIDE DEF Bad
    <3> QED
      BY <2>1, <3>1, LeastNat
  <2>3. k \in 0..n /\ ~Sound(W[k]) /\ k # 0
    BY DEF Walk
  <2>4. k - 1 \in Nat /\ k - 1 \in 0..n /\ k \in 1..n /\ ~(k <= k - 1)
    BY <2>3
  <2>5. Sound(W[k - 1])
    BY <2>2, <2>4
  <2>6. W[k] = Do(kind, W[k - 1], seq[k])
    BY <2>4 DEF Walk
  <2> QED
    BY <2>3, <2>4, <2>5, <2>6 DEF Leads
<1>2. SUFFICES ASSUME NEW j \in 0..n
               PROVE  \A k \in 0..n : j <= k => Leads(W[j], W[k], calm)
  BY <1>1
<1> DEFINE Bad == {k \in Nat : k \in 0..n /\ j <= k /\ ~Leads(W[j], W[k], calm)}
<1>3. SUFFICES ASSUME Bad # {} PROVE FALSE
  OBVIOUS
<1>4. PICK k \in Bad : \A m \in Bad : k <= m
  <2>1. Bad \in SUBSET Nat
    OBVIOUS
  <2> HIDE DEF Bad
  <2> QED
    BY <1>3, <2>1, LeastNat
<1>5. k \in 0..n /\ j <= k /\ ~Leads(W[j], W[k], calm)
  OBVIOUS
<1>6. k # j
  BY <1>1, <1>5, LeadsSame
<1>7. k - 1 \in Nat /\ k - 1 \in 0..n /\ k \in 1..n /\ j <= k - 1 /\ ~(k <= k - 1)
  BY <1>5, <1>6
<1>8. Leads(W[j], W[k - 1], calm)
  BY <1>4, <1>7
<1>9. W[k] = Do(kind, W[k - 1], seq[k])
  BY <1>7 DEF Walk
<1>10. Leads(W[k - 1], W[k], calm)
  BY <1>1, <1>7, <1>9
<1> QED
  BY <1>5, <1>8, <1>10, LeadsOn

LEMMA StepLeads ==
    ASSUME NEW s, Sound(s), NEW t, Good(t), NEW calm, calm => Calm(t)
    PROVE  Leads(s, DoStep(s, t), calm)
<1> DEFINE v == DoStep(s, t)
<1>1. Sound(v) /\ Keeps(s, v, Calm(t)) /\ v.flags = s.flags /\ (Whole /\ s.ok => v.ok)
  BY StepKeeps
<1> HIDE DEF v
<1>2. Keeps(s, v, calm)
  BY <1>1 DEF Keeps
<1> QED
  BY <1>1, <1>2 DEF Leads, v

\* What a sequence of steps gives.
GivenBy(seq, n, b) ==
    \/ \E k \in 1..n : Yields(seq[k], b)
    \/ \E j, k \in 1..n : j < k /\ Yields(seq[j], CopyOf[b]) /\ Carries(seq[k], b)

GoodSteps(seq, n, calm) == \A k \in 1..n : Good(seq[k]) /\ (calm => Calm(seq[k]))

LEMMA StepsLead ==
    ASSUME NEW s, Sound(s), NEW seq, NEW n \in Nat, DOMAIN seq = 1..n, NEW calm, GoodSteps(seq, n, calm)
    PROVE  LET v == FoldLeft(DoStep, s, seq)
           IN  /\ Leads(s, v, calm) /\ v.flags = s.flags
               /\ Whole /\ s.ok =>
                      /\ \A b : GivenBy(seq, n, b) => Has(v, b)
                      /\ (\E k \in 1..n : Posts(seq[k]) /\ \A m \in (k + 1)..n : Calm(seq[m])) => PostOn(v)
<1> DEFINE v == FoldLeft(DoStep, s, seq)
<1>1. PICK W : Walk(W, "step", s, seq, n) /\ W[n] = v
  BY StepsWalk
<1> HIDE DEF v
<1>2. \A k \in 1..n : W[k] = DoStep(W[k - 1], seq[k])
  BY <1>1 DEF Walk, Do
<1>3. \A k \in 1..n : \A x : Sound(x) => Leads(x, Do("step", x, seq[k]), calm)
  BY StepLeads DEF Do, GoodSteps
<1>4. \A j, k \in 0..n : j <= k => Sound(W[j]) /\ Leads(W[j], W[k], calm)
  BY <1>1, <1>3, WalkLeads
<1>5. Leads(s, v, calm)
  <2>1. 0 \in 0..n /\ n \in 0..n /\ 0 <= n /\ W[0] = s
    BY <1>1 DEF Walk
  <2> QED
    BY <1>1, <1>4, <2>1
<1>6. v.flags = s.flags
  <2> DEFINE Bad == {k \in Nat : k \in 0..n /\ W[k].flags # s.flags}
  <2>1. SUFFICES ASSUME Bad # {} PROVE FALSE
    BY <1>1
  <2>2. PICK k \in Bad : \A m \in Bad : k <= m
    <3>1. Bad \in SUBSET Nat
      OBVIOUS
    <3> HIDE DEF Bad
    <3> QED
      BY <2>1, <3>1, LeastNat
  <2>3. k \in 0..n /\ W[k].flags # s.flags /\ k # 0
    BY <1>1 DEF Walk
  <2>4. k - 1 \in Nat /\ k - 1 \in 0..n /\ k \in 1..n /\ ~(k <= k - 1) /\ k - 1 <= k
    BY <2>3
  <2>5. W[k - 1].flags = s.flags
    BY <2>2, <2>4
  <2>6. Sound(W[k - 1]) /\ Good(seq[k]) /\ W[k] = DoStep(W[k - 1], seq[k])
    BY <1>2, <1>4, <2>4 DEF GoodSteps
  <2>7. W[k].flags = W[k - 1].flags
    BY <2>6, StepKeeps
  <2> QED
    BY <2>3, <2>5, <2>7
<1>7. ASSUME Whole, s.ok PROVE /\ \A k \in 0..n : W[k].ok
                               /\ \A k \in 0..n : \A b : Has(W[k], b) => Has(v, b)
  <2>1. \A k \in 0..n : 0 <= k /\ k <= n /\ 0 \in 0..n /\ n \in 0..n
    OBVIOUS
  <2>2. W[0] = s
    BY <1>1 DEF Walk
  <2>3. \A k \in 0..n : Leads(s, W[k], calm) /\ Leads(W[k], v, calm)
    BY <1>1, <1>4, <2>1, <2>2
  <2> QED
    BY <1>7, <2>3 DEF Leads, Keeps
<1>8. ASSUME Whole, s.ok, NEW k \in 1..n
      PROVE  /\ \A b : Yields(seq[k], b) => Has(W[k], b)
             /\ \A b : Carries(seq[k], b) /\ Has(W[k - 1], CopyOf[b]) => Has(W[k], b)
             /\ Posts(seq[k]) => PostOn(W[k])
  <2>1. k - 1 \in 0..n /\ k \in 0..n /\ k - 1 <= k
    OBVIOUS
  <2>2. Sound(W[k - 1]) /\ Good(seq[k]) /\ W[k - 1].ok
    BY <1>4, <1>7, <1>8, <2>1 DEF GoodSteps
  <2> QED
    BY <1>2, <1>8, <2>2, StepKeeps
<1>9. ASSUME Whole, s.ok, NEW b, GivenBy(seq, n, b) PROVE Has(v, b)
  <2>1. CASE \E k \in 1..n : Yields(seq[k], b)
    <3>1. PICK k \in 1..n : Yields(seq[k], b)
      BY <2>1
    <3>2. k \in 0..n
      OBVIOUS
    <3> QED
      BY <1>7, <1>8, <1>9, <3>1, <3>2
  <2>2. CASE \E j, k \in 1..n : j < k /\ Yields(seq[j], CopyOf[b]) /\ Carries(seq[k], b)
    <3>1. PICK j, k \in 1..n : j < k /\ Yields(seq[j], CopyOf[b]) /\ Carries(seq[k], b)
      BY <2>2
    <3>2. j \in 0..n /\ k \in 0..n /\ k - 1 \in 0..n /\ j <= k - 1
      BY <3>1
    <3>3. Has(W[j], CopyOf[b])
      BY <1>8, <1>9, <3>1
    <3>4. Has(W[k - 1], CopyOf[b])
      BY <1>4, <3>2, <3>3 DEF Leads, Keeps
    <3>5. Has(W[k], b)
      BY <1>8, <1>9, <3>1, <3>4
    <3> QED
      BY <1>7, <1>9, <3>2, <3>5
  <2> QED
    BY <1>9, <2>1, <2>2 DEF GivenBy
<1>10. ASSUME Whole, s.ok, NEW k \in 1..n, Posts(seq[k]), \A m \in (k + 1)..n : Calm(seq[m])
       PROVE  PostOn(v)
  <2> DEFINE Bad == {m \in Nat : m \in k..n /\ ~PostOn(W[m])}
  <2>1. SUFFICES ASSUME Bad # {} PROVE FALSE
    BY <1>1
  <2>2. PICK m \in Bad : \A x \in Bad : m <= x
    <3>1. Bad \in SUBSET Nat
      OBVIOUS
    <3> HIDE DEF Bad
    <3> QED
      BY <2>1, <3>1, LeastNat
  <2>3. m \in k..n /\ ~PostOn(W[m]) /\ m # k
    BY <1>8, <1>10
  <2>4. /\ m - 1 \in Nat /\ m - 1 \in k..n /\ m \in 1..n /\ m \in (k + 1)..n /\ ~(m <= m - 1)
        /\ m - 1 \in 0..n /\ m - 1 <= m /\ m \in 0..n
    BY <2>3
  <2>5. PostOn(W[m - 1])
    BY <2>2, <2>4
  <2>6. Sound(W[m - 1]) /\ Good(seq[m]) /\ W[m] = DoStep(W[m - 1], seq[m]) /\ Calm(seq[m])
    BY <1>2, <1>4, <1>10, <2>4 DEF GoodSteps
  <2>7. Keeps(W[m - 1], W[m], Calm(seq[m]))
    BY <2>6, StepKeeps
  <2> QED
    BY <2>3, <2>5, <2>6, <2>7 DEF Keeps
<1> QED
  BY <1>5, <1>6, <1>9, <1>10 DEF v

GoodGroup(g, calm) ==
    \E n \in Nat :
        /\ DOMAIN g.steps = 1..n /\ GoodSteps(g.steps, n, calm)
        /\ \A p \in Flagged : g.flag = p[1] => GivenBy(g.steps, n, p[2])

GroupGives(g, b) ==
    /\ g.flag = "none" \/ <<g.flag, b>> \in Flagged
    /\ \E n \in Nat : DOMAIN g.steps = 1..n /\ GivenBy(g.steps, n, b)

GroupPosts(g) ==
    /\ g.flag = "none"
    /\ \E n \in Nat : /\ DOMAIN g.steps = 1..n
                      /\ \E k \in 1..n : Posts(g.steps[k]) /\ \A m \in (k + 1)..n : Calm(g.steps[m])

LEMMA GroupLeads ==
    ASSUME NEW s, Sound(s), NEW g, NEW calm, GoodGroup(g, calm)
    PROVE  LET v == DoGroup(s, g)
           IN  /\ Leads(s, v, calm)
               /\ Whole /\ s.ok /\ FlagsHold(s) =>
                      /\ \A b : GroupGives(g, b) => Has(v, b)
                      /\ GroupPosts(g) => PostOn(v)
<1> DEFINE v == DoGroup(s, g)
           end == FoldLeft(DoStep, s, g.steps)
<1>1. CASE ~s.ok \/ (g.flag # "none" /\ g.flag \in s.flags)
  <2>1. v = s
    BY <1>1 DEF DoGroup
  <2>2. Leads(s, v, calm)
    BY <2>1, LeadsSame
  <2>3. ASSUME s.ok, FlagsHold(s), NEW b, GroupGives(g, b) PROVE Has(s, b)
    <3>1. <<g.flag, b>> \in Flagged /\ <<g.flag, b>>[1] = g.flag /\ <<g.flag, b>>[2] = b
      BY <1>1, <2>3 DEF GroupGives
    <3> QED
      BY <1>1, <2>3, <3>1 DEF FlagsHold
  <2> HIDE DEF v
  <2> QED
    BY <1>1, <2>1, <2>2, <2>3 DEF v, GroupPosts
<1>2. CASE ~(~s.ok \/ (g.flag # "none" /\ g.flag \in s.flags))
  <2>1. v = [end EXCEPT !.ok = @ \/ g.soft, !.flags = IF end.ok THEN @ \cup {g.flag} ELSE @]
    BY <1>2 DEF DoGroup
  <2>2. PICK n \in Nat :
            /\ DOMAIN g.steps = 1..n /\ GoodSteps(g.steps, n, calm)
            /\ \A p \in Flagged : g.flag = p[1] => GivenBy(g.steps, n, p[2])
    BY DEF GoodGroup
  <2>3. /\ Leads(s, end, calm) /\ end.flags = s.flags
        /\ Whole /\ s.ok =>
               /\ \A b : GivenBy(g.steps, n, b) => Has(end, b)
               /\ (\E k \in 1..n : Posts(g.steps[k]) /\ \A m \in (k + 1)..n : Calm(g.steps[m])) => PostOn(end)
    BY <2>2, StepsLead
  <2> HIDE DEF end, v
  <2>4. /\ DOMAIN v = Fields /\ v.bind = end.bind /\ v.ok = (end.ok \/ g.soft)
        /\ v.flags = IF end.ok THEN end.flags \cup {g.flag} ELSE end.flags
    BY <2>1, <2>3 DEF Leads, Sound, Fields
  <2>5. Sound(v) /\ Keeps(end, v, calm) /\ \A b : Has(end, b) => Has(v, b)
    <3>1. Keeps(end, v, calm)
      BY <2>4, KeepsSame
    <3> QED
      BY <2>3, <2>4, <3>1 DEF Leads, Sound, Keeps
  <2>6. Keeps(s, v, calm)
    BY <2>3, <2>5, KeepsOn DEF Leads
  <2>7. ASSUME Whole, s.ok PROVE v.ok /\ \A p \in Flagged : p[1] \in v.flags => p[1] \in s.flags \/ Has(v, p[2])
    <3>1. end.ok
      BY <2>3, <2>7 DEF Leads
    <3>2. \A p \in Flagged : g.flag = p[1] => Has(v, p[2])
      BY <2>2, <2>3, <2>5, <2>7
    <3> QED
      BY <2>3, <2>4, <3>1, <3>2
  <2>8. Leads(s, v, calm)
    BY <2>5, <2>6, <2>7 DEF Leads
  <2>9. ASSUME Whole, s.ok, NEW b, GroupGives(g, b) PROVE Has(v, b)
    <3>1. PICK m \in Nat : DOMAIN g.steps = 1..m /\ GivenBy(g.steps, m, b)
      BY <2>9 DEF GroupGives
    <3>2. m = n
      BY <2>2, <3>1
    <3> QED
      BY <2>3, <2>5, <2>9, <3>1, <3>2
  <2>10. ASSUME Whole, s.ok, GroupPosts(g) PROVE PostOn(v)
    <3>1. PICK m \in Nat : /\ DOMAIN g.steps = 1..m
                           /\ \E k \in 1..m : Posts(g.steps[k]) /\ \A x \in (k + 1)..m : Calm(g.steps[x])
      BY <2>10 DEF GroupPosts
    <3>2. m = n
      BY <2>2, <3>1
    <3>3. PostOn(end)
      BY <2>3, <2>10, <3>1, <3>2
    <3> QED
      BY <2>4, <3>3 DEF PostOn
  <2> QED
    BY <2>8, <2>9, <2>10 DEF v
<1> QED
  BY <1>1, <1>2

GoodInstaller(i, calm) ==
    i.when \subseteq job.env =>
        \E n \in Nat : DOMAIN i.groups = 1..n /\ \A k \in 1..n : GoodGroup(i.groups[k], calm)

Asks(i, b) == i.when \subseteq job.env /\ (i.guard = "none" \/ <<i.guard, b>> \in Flagged)

InstallerGives(i, b) == Asks(i, b) /\ \E k \in DOMAIN i.groups : GroupGives(i.groups[k], b)

InstallerPosts(i) ==
    /\ i.when \subseteq job.env /\ i.guard = "none"
    /\ \E n \in Nat : DOMAIN i.groups = 1..n /\ n >= 1 /\ GroupPosts(i.groups[n])

LEMMA NowIs ==
    /\ DOMAIN Now = Fields /\ Now.live = live /\ Now.bind = bind /\ Now.flags = flags
    /\ Now.placed = placed /\ Now.ok
  BY DEF Now, Fields

LEMMA RunLeads ==
    ASSUME Sound(Now), NEW i, NEW calm, GoodInstaller(i, calm)
    PROVE  LET v == Run(i)
           IN  /\ Leads(Now, v, calm)
               /\ Whole /\ FlagsHold(Now) =>
                      /\ \A b : InstallerGives(i, b) => Has(v, b)
                      /\ InstallerPosts(i) => PostOn(v)
<1> DEFINE v == Run(i)
<1>1. CASE \/ ~(i.when \subseteq job.env) \/ \E p \in i.needs : p \in job.lacks
           \/ i.guard # "none" /\ i.guard \in flags
  <2>1. v = Now
    BY <1>1 DEF Run
  <2>2. Leads(Now, v, calm)
    BY <2>1, LeadsSame
  <2>3. ASSUME Whole, FlagsHold(Now), NEW b, InstallerGives(i, b) PROVE Has(Now, b)
    <3>1. i.when \subseteq job.env /\ (i.guard = "none" \/ <<i.guard, b>> \in Flagged)
      BY <2>3 DEF InstallerGives, Asks
    <3>2. i.guard # "none" /\ i.guard \in flags
      BY <1>1, <2>3, <3>1 DEF Whole
    <3>3. <<i.guard, b>> \in Flagged /\ <<i.guard, b>>[1] = i.guard /\ <<i.guard, b>>[2] = b
      BY <3>1, <3>2
    <3> QED
      BY <2>3, <3>2, <3>3, NowIs DEF FlagsHold
  <2>4. Whole => ~InstallerPosts(i)
    BY <1>1 DEF InstallerPosts, Whole
  <2> HIDE DEF v
  <2> QED
    BY <2>1, <2>2, <2>3, <2>4 DEF v
<1>2. CASE ~(\/ ~(i.when \subseteq job.env) \/ \E p \in i.needs : p \in job.lacks
             \/ i.guard # "none" /\ i.guard \in flags)
  <2>1. v = FoldLeft(DoGroup, Now, i.groups)
    BY <1>2 DEF Run
  <2>2. PICK n \in Nat : DOMAIN i.groups = 1..n /\ \A k \in 1..n : GoodGroup(i.groups[k], calm)
    BY <1>2 DEF GoodInstaller
  <2>3. PICK W : Walk(W, "group", Now, i.groups, n) /\ W[n] = v
    BY <2>1, <2>2, GroupsWalk
  <2> HIDE DEF v
  <2>4. W[0] = Now /\ \A k \in 1..n : W[k] = DoGroup(W[k - 1], i.groups[k])
    BY <2>3 DEF Walk, Do
  <2>5. \A k \in 1..n : \A x : Sound(x) => Leads(x, Do("group", x, i.groups[k]), calm)
    BY <2>2, GroupLeads DEF Do
  <2>6. \A j, k \in 0..n : j <= k => Sound(W[j]) /\ Leads(W[j], W[k], calm)
    BY <2>3, <2>5, WalkLeads
  <2>7. \A k \in 0..n : Sound(W[k]) /\ Leads(Now, W[k], calm) /\ Leads(W[k], v, calm)
    <3>1. \A k \in 0..n : 0 <= k /\ k <= n /\ 0 \in 0..n /\ n \in 0..n
      OBVIOUS
    <3> QED
      BY <2>3, <2>4, <2>6, <3>1
  <2>8. ASSUME Whole, FlagsHold(Now), NEW k \in 1..n
        PROVE  /\ \A b : GroupGives(i.groups[k], b) => Has(W[k], b)
               /\ GroupPosts(i.groups[k]) => PostOn(W[k])
    <3>1. k - 1 \in 0..n
      OBVIOUS
    <3>2. Sound(W[k - 1]) /\ W[k - 1].ok
      BY <2>7, <2>8, <3>1, NowIs DEF Leads
    <3>3. FlagsHold(W[k - 1])
      BY <2>7, <2>8, <3>1, NowIs, LeadsHold
    <3> QED
      BY <2>2, <2>4, <2>8, <3>2, <3>3, GroupLeads
  <2>9. ASSUME Whole, FlagsHold(Now), NEW b, InstallerGives(i, b) PROVE Has(v, b)
    <3>1. PICK k \in 1..n : GroupGives(i.groups[k], b)
      BY <2>2, <2>9 DEF InstallerGives
    <3>2. k \in 0..n
      OBVIOUS
    <3>3. Has(W[k], b)
      BY <2>8, <2>9, <3>1
    <3> QED
      BY <2>7, <3>2, <3>3 DEF Leads, Keeps
  <2>10. ASSUME Whole, FlagsHold(Now), InstallerPosts(i) PROVE PostOn(v)
    <3>1. PICK m \in Nat : DOMAIN i.groups = 1..m /\ m >= 1 /\ GroupPosts(i.groups[m])
      BY <2>10 DEF InstallerPosts
    <3>2. m = n /\ n \in 1..n
      BY <2>2, <3>1
    <3> QED
      BY <2>3, <2>8, <2>10, <3>1, <3>2
  <2>11. Leads(Now, v, calm)
    <3>1. 0 \in 0..n
      OBVIOUS
    <3> QED
      BY <2>4, <2>7, <3>1
  <2> QED
    BY <2>9, <2>10, <2>11 DEF v
<1> QED
  BY <1>1, <1>2

-----------------------------------------------------------------------------
(* The installers, one by one. *)

\* A step that may stand in any installer but MhcCpu.
Fine(t, calm) == Good(t) /\ (calm => Calm(t))

\* A binding that is put or wrapped: nothing assigns the grouped top-k.
Off(b) == b # TopkCopy /\ b # TopkHome

LEMMA OffBy ==
    ASSUME NEW b
    PROVE  /\ b[1] # "topk" => Off(b)
           /\ b[1] # "mhc" => b # Post
           /\ b[2] # "module" => Off(b) /\ b # Post
<1>1. TopkCopy[1] = "topk" /\ TopkHome[1] = "topk" /\ TopkCopy[2] = "module" /\ TopkHome[2] = "module"
  BY DEF At, TopkCopy, TopkHome
<1>2. Post[1] = "mhc" /\ Post[2] = "module"
  BY DEF At, Post, Mhc
<1> QED
  BY <1>1, <1>2 DEF Off

LEMMA HookIs ==
    ASSUME NEW n
    PROVE  /\ Fits(Adjust(n)) /\ Fits(Tap(n))
           /\ "cpu" \in job.env \/ n \in Allowed => Fits(Answer(n))
           /\ Answer(n).kind = "answer" /\ Adjust(n).kind = "adjust" /\ Tap(n).kind = "tap"
  BY DEF Answer, Adjust, Tap, Fits

LEMMA FineStep ==
    ASSUME NEW b, Off(b), NEW h, Fits(h), NEW calm
    PROVE  /\ Fine(Wrap(b, h), calm) /\ Fine(Maybe(b, h), calm)
           /\ h.kind # "tap" /\ (calm => b # Post \/ h = Answer("adaptive_post")) =>
                  Fine(Put(b, h), calm) /\ Fine(MaybePut(b, h), calm)
  BY DEF Fine, Good, Calm, Off, Wrap, Maybe, Put, MaybePut, StepOf

LEMMA FineIf ==
    ASSUME NEW x, NEW b, NEW h, NEW calm
    PROVE  /\ Fine(Put(b, h), calm) => Fine(If(x, Put(b, h)), calm)
           /\ Fine(Wrap(b, h), calm) => Fine(If(x, Wrap(b, h)), calm)
  BY DEF Fine, Good, Calm, If, Put, Wrap, StepOf

LEMMA FineTimed ==
    ASSUME NEW b, Off(b), NEW n, NEW calm
    PROVE  Fine(Timed(b, n), calm)
<1>1. Fits(Tap(n))
  BY HookIs
<1> QED
  BY <1>1, FineStep, FineIf DEF Timed

LEMMA FineOther ==
    ASSUME NEW calm
    PROVE  /\ \A c \in DOMAIN CopyOf : Off(c) => Fine(Copy(c), calm)
           /\ \A b, h : b # TopkCopy /\ Fits(h) => Fine(Sweep(b, h), calm)
           /\ \A b : Off(b) => Fine(Read(b), calm)
           /\ \A m : Fine(Import(m), calm)
<1>1. Fits(Tap("none"))
  BY HookIs
<1>2. \A m : At(m, "module", "module") # TopkCopy /\ At(m, "module", "module") # TopkHome
  BY DEF At, TopkCopy, TopkHome
<1> QED
  BY <1>1, <1>2 DEF Fine, Good, Calm, Off, Copy, Sweep, Read, Import, StepOf


LEMMA FinePutAnswer ==
    ASSUME NEW x, NEW y, NEW z, NEW n, NEW calm,
           x # "topk" \/ y # "module", ~calm \/ x # "mhc" \/ y # "module", "cpu" \in job.env \/ n \in Allowed
    PROVE  Fine(Put(At(x, y, z), Answer(n)), calm)
<1>1. Off(At(x, y, z)) /\ (x # "mhc" \/ y # "module" => At(x, y, z) # Post)
  <2>1. At(x, y, z)[1] = x /\ At(x, y, z)[2] = y
    BY DEF At
  <2> QED
    BY <2>1, OffBy
<1>2. Fits(Answer(n)) /\ Answer(n).kind # "tap"
  BY HookIs
<1> QED
  BY <1>1, <1>2, FineStep

LEMMA FinePutAdjust ==
    ASSUME NEW x, NEW y, NEW z, NEW n, NEW calm,
           x # "topk" \/ y # "module", ~calm \/ x # "mhc" \/ y # "module"
    PROVE  Fine(Put(At(x, y, z), Adjust(n)), calm)
<1>1. Off(At(x, y, z)) /\ (x # "mhc" \/ y # "module" => At(x, y, z) # Post)
  <2>1. At(x, y, z)[1] = x /\ At(x, y, z)[2] = y
    BY DEF At
  <2> QED
    BY <2>1, OffBy
<1>2. Fits(Adjust(n)) /\ Adjust(n).kind # "tap"
  BY HookIs
<1> QED
  BY <1>1, <1>2, FineStep

LEMMA FineMaybePutAnswer ==
    ASSUME NEW x, NEW y, NEW z, NEW n, NEW calm,
           x # "topk" \/ y # "module", ~calm \/ x # "mhc" \/ y # "module", "cpu" \in job.env \/ n \in Allowed
    PROVE  Fine(MaybePut(At(x, y, z), Answer(n)), calm)
<1>1. Off(At(x, y, z)) /\ (x # "mhc" \/ y # "module" => At(x, y, z) # Post)
  <2>1. At(x, y, z)[1] = x /\ At(x, y, z)[2] = y
    BY DEF At
  <2> QED
    BY <2>1, OffBy
<1>2. Fits(Answer(n)) /\ Answer(n).kind # "tap"
  BY HookIs
<1> QED
  BY <1>1, <1>2, FineStep

LEMMA FineWrapAnswer ==
    ASSUME NEW x, NEW y, NEW z, NEW n, NEW calm,
           x # "topk" \/ y # "module", "cpu" \in job.env \/ n \in Allowed
    PROVE  Fine(Wrap(At(x, y, z), Answer(n)), calm)
<1>1. Off(At(x, y, z))
  <2>1. At(x, y, z)[1] = x /\ At(x, y, z)[2] = y
    BY DEF At
  <2> QED
    BY <2>1, OffBy
<1>2. Fits(Answer(n))
  BY HookIs
<1> QED
  BY <1>1, <1>2, FineStep

LEMMA FineWrapAdjust ==
    ASSUME NEW x, NEW y, NEW z, NEW n, NEW calm,
           x # "topk" \/ y # "module"
    PROVE  Fine(Wrap(At(x, y, z), Adjust(n)), calm)
<1>1. Off(At(x, y, z))
  <2>1. At(x, y, z)[1] = x /\ At(x, y, z)[2] = y
    BY DEF At
  <2> QED
    BY <2>1, OffBy
<1>2. Fits(Adjust(n))
  BY HookIs
<1> QED
  BY <1>1, <1>2, FineStep

LEMMA FineWrapTap ==
    ASSUME NEW x, NEW y, NEW z, NEW n, NEW calm,
           x # "topk" \/ y # "module"
    PROVE  Fine(Wrap(At(x, y, z), Tap(n)), calm)
<1>1. Off(At(x, y, z))
  <2>1. At(x, y, z)[1] = x /\ At(x, y, z)[2] = y
    BY DEF At
  <2> QED
    BY <2>1, OffBy
<1>2. Fits(Tap(n))
  BY HookIs
<1> QED
  BY <1>1, <1>2, FineStep

LEMMA FineMaybeTap ==
    ASSUME NEW x, NEW y, NEW z, NEW n, NEW calm,
           x # "topk" \/ y # "module"
    PROVE  Fine(Maybe(At(x, y, z), Tap(n)), calm)
<1>1. Off(At(x, y, z))
  <2>1. At(x, y, z)[1] = x /\ At(x, y, z)[2] = y
    BY DEF At
  <2> QED
    BY <2>1, OffBy
<1>2. Fits(Tap(n))
  BY HookIs
<1> QED
  BY <1>1, <1>2, FineStep

LEMMA FineMaybeAnswer ==
    ASSUME NEW x, NEW y, NEW z, NEW n, NEW calm,
           x # "topk" \/ y # "module", "cpu" \in job.env \/ n \in Allowed
    PROVE  Fine(Maybe(At(x, y, z), Answer(n)), calm)
<1>1. Off(At(x, y, z))
  <2>1. At(x, y, z)[1] = x /\ At(x, y, z)[2] = y
    BY DEF At
  <2> QED
    BY <2>1, OffBy
<1>2. Fits(Answer(n))
  BY HookIs
<1> QED
  BY <1>1, <1>2, FineStep

LEMMA FineMaybeAdjust ==
    ASSUME NEW x, NEW y, NEW z, NEW n, NEW calm,
           x # "topk" \/ y # "module"
    PROVE  Fine(Maybe(At(x, y, z), Adjust(n)), calm)
<1>1. Off(At(x, y, z))
  <2>1. At(x, y, z)[1] = x /\ At(x, y, z)[2] = y
    BY DEF At
  <2> QED
    BY <2>1, OffBy
<1>2. Fits(Adjust(n))
  BY HookIs
<1> QED
  BY <1>1, <1>2, FineStep

LEMMA FineTimedAt ==
    ASSUME NEW x, NEW y, NEW z, NEW n, NEW calm, x # "topk" \/ y # "module"
    PROVE  Fine(Timed(At(x, y, z), n), calm)
<1>1. Off(At(x, y, z))
  <2>1. At(x, y, z)[1] = x /\ At(x, y, z)[2] = y
    BY DEF At
  <2> QED
    BY <2>1, OffBy
<1> QED
  BY <1>1, FineTimed

LEMMA FineCopies ==
    /\ V4("get_rope_wrapper") \in DOMAIN CopyOf /\ CopyOf[V4("get_rope_wrapper")] = At("rope", "module", "get_rope_wrapper")
    /\ At("model_runner", "module", "adjust_config") \in DOMAIN CopyOf
    /\ At("model_runner", "module", "free_memory") \in DOMAIN CopyOf
    /\ At("loader", "module", "dummy_weights") \in DOMAIN CopyOf
    /\ At("v2", "module", "silu_clamp") \in DOMAIN CopyOf
    /\ CopyOf[At("v2", "module", "silu_clamp")] = At("dsv4_moe", "module", "silu_clamp")
<1>1. \A c, h : <<c, h>> \in Copied => c \in DOMAIN CopyOf /\ CopyOf[c] = h
  <2> SUFFICES ASSUME NEW c, NEW h, <<c, h>> \in Copied PROVE c \in DOMAIN CopyOf /\ CopyOf[c] = h
    OBVIOUS
  <2>1. <<c, h>>[1] = c /\ <<c, h>>[2] = h
    OBVIOUS
  <2> QED
    BY <2>1, CopiesAre DEF Copies
<1>2. /\ <<V4("get_rope_wrapper"), At("rope", "module", "get_rope_wrapper")>> \in Copied
      /\ <<At("model_runner", "module", "adjust_config"), At("update_config", "module", "adjust_config")>> \in Copied
      /\ <<At("model_runner", "module", "free_memory"), At("common", "module", "free_memory")>> \in Copied
      /\ <<At("loader", "module", "dummy_weights"), At("weight_utils", "module", "dummy_weights")>> \in Copied
      /\ <<At("v2", "module", "silu_clamp"), At("dsv4_moe", "module", "silu_clamp")>> \in Copied
  BY DEF Copied
<1> QED
  BY <1>1, <1>2

LEMMA FineCopy ==
    ASSUME NEW x, NEW y, NEW z, NEW calm, At(x, y, z) \in DOMAIN CopyOf, x # "topk"
    PROVE  Fine(Copy(At(x, y, z)), calm)
<1>1. Off(At(x, y, z))
  <2>1. At(x, y, z)[1] = x
    BY DEF At
  <2> QED
    BY <2>1, OffBy
<1> QED
  BY <1>1, FineOther

LEMMA FineSweepAdjust ==
    ASSUME NEW x, NEW y, NEW z, NEW n, NEW calm, z # "grouped_topk"
    PROVE  Fine(Sweep(At(x, y, z), Adjust(n)), calm)
<1>1. At(x, y, z) # TopkCopy
  BY DEF At, TopkCopy
<1> QED
  BY <1>1, HookIs, FineOther

LEMMA FineRead ==
    ASSUME NEW x, NEW y, NEW z, NEW calm, x # "topk" \/ y # "module"
    PROVE  Fine(Read(At(x, y, z)), calm)
<1>1. Off(At(x, y, z))
  <2>1. At(x, y, z)[1] = x /\ At(x, y, z)[2] = y
    BY DEF At
  <2> QED
    BY <2>1, OffBy
<1> QED
  BY <1>1, FineOther

LEMMA FineImport ==
    ASSUME NEW m, NEW calm
    PROVE  Fine(Import(m), calm)
  BY FineOther

\* A sequence of fine steps.
Fines(seq, calm) == \E n \in Nat : DOMAIN seq = 1..n /\ \A k \in 1..n : Fine(seq[k], calm)

LEMMA Fines1 ==
    ASSUME NEW a, NEW calm,
           Fine(a, calm)
    PROVE  Fines(<<a>>, calm)
<1> DEFINE q == <<a>>
<1>1. DOMAIN q = 1..1 /\ q[1] = a
  OBVIOUS
<1> HIDE DEF q
<1>2. \A k \in 1..1 : Fine(q[k], calm)
  BY <1>1
<1> QED
  BY <1>1, <1>2 DEF Fines, q

LEMMA Fines2 ==
    ASSUME NEW a, NEW b, NEW calm,
           Fine(a, calm), Fine(b, calm)
    PROVE  Fines(<<a, b>>, calm)
<1> DEFINE q == <<a, b>>
<1>1. DOMAIN q = 1..2 /\ q[1] = a /\ q[2] = b
  OBVIOUS
<1> HIDE DEF q
<1>2. \A k \in 1..2 : Fine(q[k], calm)
  BY <1>1
<1> QED
  BY <1>1, <1>2 DEF Fines, q

LEMMA Fines3 ==
    ASSUME NEW a, NEW b, NEW c, NEW calm,
           Fine(a, calm), Fine(b, calm), Fine(c, calm)
    PROVE  Fines(<<a, b, c>>, calm)
<1> DEFINE q == <<a, b, c>>
<1>1. DOMAIN q = 1..3 /\ q[1] = a /\ q[2] = b /\ q[3] = c
  OBVIOUS
<1> HIDE DEF q
<1>2. \A k \in 1..3 : Fine(q[k], calm)
  BY <1>1
<1> QED
  BY <1>1, <1>2 DEF Fines, q

LEMMA Fines4 ==
    ASSUME NEW a, NEW b, NEW c, NEW d, NEW calm,
           Fine(a, calm), Fine(b, calm), Fine(c, calm), Fine(d, calm)
    PROVE  Fines(<<a, b, c, d>>, calm)
<1> DEFINE q == <<a, b, c, d>>
<1>1. DOMAIN q = 1..4 /\ q[1] = a /\ q[2] = b /\ q[3] = c /\ q[4] = d
  OBVIOUS
<1> HIDE DEF q
<1>2. \A k \in 1..4 : Fine(q[k], calm)
  BY <1>1
<1> QED
  BY <1>1, <1>2 DEF Fines, q

LEMMA Fines5 ==
    ASSUME NEW a, NEW b, NEW c, NEW d, NEW e, NEW calm,
           Fine(a, calm), Fine(b, calm), Fine(c, calm), Fine(d, calm), Fine(e, calm)
    PROVE  Fines(<<a, b, c, d, e>>, calm)
<1> DEFINE q == <<a, b, c, d, e>>
<1>1. DOMAIN q = 1..5 /\ q[1] = a /\ q[2] = b /\ q[3] = c /\ q[4] = d /\ q[5] = e
  OBVIOUS
<1> HIDE DEF q
<1>2. \A k \in 1..5 : Fine(q[k], calm)
  BY <1>1
<1> QED
  BY <1>1, <1>2 DEF Fines, q

LEMMA Fines6 ==
    ASSUME NEW a, NEW b, NEW c, NEW d, NEW e, NEW f, NEW calm,
           Fine(a, calm), Fine(b, calm), Fine(c, calm), Fine(d, calm), Fine(e, calm), Fine(f, calm)
    PROVE  Fines(<<a, b, c, d, e, f>>, calm)
<1> DEFINE q == <<a, b, c, d, e, f>>
<1>1. DOMAIN q = 1..6 /\ q[1] = a /\ q[2] = b /\ q[3] = c /\ q[4] = d /\ q[5] = e /\ q[6] = f
  OBVIOUS
<1> HIDE DEF q
<1>2. \A k \in 1..6 : Fine(q[k], calm)
  BY <1>1
<1> QED
  BY <1>1, <1>2 DEF Fines, q

LEMMA Fines7 ==
    ASSUME NEW a, NEW b, NEW c, NEW d, NEW e, NEW f, NEW g, NEW calm,
           Fine(a, calm), Fine(b, calm), Fine(c, calm), Fine(d, calm), Fine(e, calm), Fine(f, calm), Fine(g, calm)
    PROVE  Fines(<<a, b, c, d, e, f, g>>, calm)
<1> DEFINE q == <<a, b, c, d, e, f, g>>
<1>1. DOMAIN q = 1..7 /\ q[1] = a /\ q[2] = b /\ q[3] = c /\ q[4] = d /\ q[5] = e /\ q[6] = f /\ q[7] = g
  OBVIOUS
<1> HIDE DEF q
<1>2. \A k \in 1..7 : Fine(q[k], calm)
  BY <1>1
<1> QED
  BY <1>1, <1>2 DEF Fines, q

LEMMA Fines8 ==
    ASSUME NEW a, NEW b, NEW c, NEW d, NEW e, NEW f, NEW g, NEW h, NEW calm,
           Fine(a, calm), Fine(b, calm), Fine(c, calm), Fine(d, calm), Fine(e, calm), Fine(f, calm), Fine(g, calm), Fine(h, calm)
    PROVE  Fines(<<a, b, c, d, e, f, g, h>>, calm)
<1> DEFINE q == <<a, b, c, d, e, f, g, h>>
<1>1. DOMAIN q = 1..8 /\ q[1] = a /\ q[2] = b /\ q[3] = c /\ q[4] = d /\ q[5] = e /\ q[6] = f /\ q[7] = g /\ q[8] = h
  OBVIOUS
<1> HIDE DEF q
<1>2. \A k \in 1..8 : Fine(q[k], calm)
  BY <1>1
<1> QED
  BY <1>1, <1>2 DEF Fines, q

LEMMA Fines10 ==
    ASSUME NEW a, NEW b, NEW c, NEW d, NEW e, NEW f, NEW g, NEW h, NEW i, NEW j, NEW calm,
           Fine(a, calm), Fine(b, calm), Fine(c, calm), Fine(d, calm), Fine(e, calm), Fine(f, calm), Fine(g, calm), Fine(h, calm), Fine(i, calm), Fine(j, calm)
    PROVE  Fines(<<a, b, c, d, e, f, g, h, i, j>>, calm)
<1> DEFINE q == <<a, b, c, d, e, f, g, h, i, j>>
<1>1. DOMAIN q = 1..10 /\ q[1] = a /\ q[2] = b /\ q[3] = c /\ q[4] = d /\ q[5] = e /\ q[6] = f /\ q[7] = g /\ q[8] = h /\ q[9] = i /\ q[10] = j
  OBVIOUS
<1> HIDE DEF q
<1>2. \A k \in 1..10 : Fine(q[k], calm)
  BY <1>1
<1> QED
  BY <1>1, <1>2 DEF Fines, q

\* A sequence of good groups.
Groups(seq, calm) == \E n \in Nat : DOMAIN seq = 1..n /\ \A k \in 1..n : GoodGroup(seq[k], calm)

LEMMA GroupIs ==
    ASSUME NEW f, f \notin {"pin_memory", "capability", "hash", "fp4"}, NEW seq, NEW calm, Fines(seq, calm)
    PROVE  GoodGroup(Hard(f, seq), calm) /\ GoodGroup(Soft(f, seq), calm)
<1>1. \A p \in Flagged : f # p[1]
  BY DEF Flagged
<1>2. PICK n \in Nat : DOMAIN seq = 1..n /\ \A k \in 1..n : Fine(seq[k], calm)
  BY DEF Fines
<1>3. GoodSteps(seq, n, calm)
  BY <1>2 DEF GoodSteps, Fine
<1> QED
  BY <1>1, <1>2, <1>3 DEF GoodGroup, Hard, Soft

LEMMA Groups1 ==
    ASSUME NEW a, NEW calm,
           GoodGroup(a, calm)
    PROVE  Groups(<<a>>, calm)
<1> DEFINE q == <<a>>
<1>1. DOMAIN q = 1..1 /\ q[1] = a
  OBVIOUS
<1> HIDE DEF q
<1>2. \A k \in 1..1 : GoodGroup(q[k], calm)
  BY <1>1
<1> QED
  BY <1>1, <1>2 DEF Groups, q

LEMMA Groups2 ==
    ASSUME NEW a, NEW b, NEW calm,
           GoodGroup(a, calm), GoodGroup(b, calm)
    PROVE  Groups(<<a, b>>, calm)
<1> DEFINE q == <<a, b>>
<1>1. DOMAIN q = 1..2 /\ q[1] = a /\ q[2] = b
  OBVIOUS
<1> HIDE DEF q
<1>2. \A k \in 1..2 : GoodGroup(q[k], calm)
  BY <1>1
<1> QED
  BY <1>1, <1>2 DEF Groups, q

LEMMA Groups3 ==
    ASSUME NEW a, NEW b, NEW c, NEW calm,
           GoodGroup(a, calm), GoodGroup(b, calm), GoodGroup(c, calm)
    PROVE  Groups(<<a, b, c>>, calm)
<1> DEFINE q == <<a, b, c>>
<1>1. DOMAIN q = 1..3 /\ q[1] = a /\ q[2] = b /\ q[3] = c
  OBVIOUS
<1> HIDE DEF q
<1>2. \A k \in 1..3 : GoodGroup(q[k], calm)
  BY <1>1
<1> QED
  BY <1>1, <1>2 DEF Groups, q

LEMMA Groups4 ==
    ASSUME NEW a, NEW b, NEW c, NEW d, NEW calm,
           GoodGroup(a, calm), GoodGroup(b, calm), GoodGroup(c, calm), GoodGroup(d, calm)
    PROVE  Groups(<<a, b, c, d>>, calm)
<1> DEFINE q == <<a, b, c, d>>
<1>1. DOMAIN q = 1..4 /\ q[1] = a /\ q[2] = b /\ q[3] = c /\ q[4] = d
  OBVIOUS
<1> HIDE DEF q
<1>2. \A k \in 1..4 : GoodGroup(q[k], calm)
  BY <1>1
<1> QED
  BY <1>1, <1>2 DEF Groups, q

LEMMA Groups7 ==
    ASSUME NEW a, NEW b, NEW c, NEW d, NEW e, NEW f, NEW g, NEW calm,
           GoodGroup(a, calm), GoodGroup(b, calm), GoodGroup(c, calm), GoodGroup(d, calm), GoodGroup(e, calm), GoodGroup(f, calm), GoodGroup(g, calm)
    PROVE  Groups(<<a, b, c, d, e, f, g>>, calm)
<1> DEFINE q == <<a, b, c, d, e, f, g>>
<1>1. DOMAIN q = 1..7 /\ q[1] = a /\ q[2] = b /\ q[3] = c /\ q[4] = d /\ q[5] = e /\ q[6] = f /\ q[7] = g
  OBVIOUS
<1> HIDE DEF q
<1>2. \A k \in 1..7 : GoodGroup(q[k], calm)
  BY <1>1
<1> QED
  BY <1>1, <1>2 DEF Groups, q

LEMMA InstallerIs ==
    ASSUME NEW when, NEW needs, NEW guard, NEW groups, NEW calm,
           when \subseteq job.env => Groups(groups, calm)
    PROVE  GoodInstaller(Installer(when, needs, guard, groups), calm)
  BY DEF GoodInstaller, Installer, Groups

-----------------------------------------------------------------------------
(* What the steps of a group give. *)

Given(seq, b) == \E n \in Nat : DOMAIN seq = 1..n /\ GivenBy(seq, n, b)

LEMMA Given1 ==
    ASSUME NEW a, NEW x,
           Yields(a, x)
    PROVE  Given(<<a>>, x)
<1> DEFINE q == <<a>>
<1>1. DOMAIN q = 1..1 /\ q[1] = a
  OBVIOUS
<1> HIDE DEF q
<1>2. \E k \in 1..1 : Yields(q[k], x)
  BY <1>1
<1> QED
  BY <1>1, <1>2 DEF Given, GivenBy, q

LEMMA Given2 ==
    ASSUME NEW a, NEW b, NEW x,
           Yields(a, x) \/ Yields(b, x)
    PROVE  Given(<<a, b>>, x)
<1> DEFINE q == <<a, b>>
<1>1. DOMAIN q = 1..2 /\ q[1] = a /\ q[2] = b
  OBVIOUS
<1> HIDE DEF q
<1>2. \E k \in 1..2 : Yields(q[k], x)
  BY <1>1
<1> QED
  BY <1>1, <1>2 DEF Given, GivenBy, q

LEMMA Given3 ==
    ASSUME NEW a, NEW b, NEW c, NEW x,
           Yields(a, x) \/ Yields(b, x) \/ Yields(c, x)
    PROVE  Given(<<a, b, c>>, x)
<1> DEFINE q == <<a, b, c>>
<1>1. DOMAIN q = 1..3 /\ q[1] = a /\ q[2] = b /\ q[3] = c
  OBVIOUS
<1> HIDE DEF q
<1>2. \E k \in 1..3 : Yields(q[k], x)
  BY <1>1
<1> QED
  BY <1>1, <1>2 DEF Given, GivenBy, q

LEMMA Given4 ==
    ASSUME NEW a, NEW b, NEW c, NEW d, NEW x,
           Yields(a, x) \/ Yields(b, x) \/ Yields(c, x) \/ Yields(d, x)
    PROVE  Given(<<a, b, c, d>>, x)
<1> DEFINE q == <<a, b, c, d>>
<1>1. DOMAIN q = 1..4 /\ q[1] = a /\ q[2] = b /\ q[3] = c /\ q[4] = d
  OBVIOUS
<1> HIDE DEF q
<1>2. \E k \in 1..4 : Yields(q[k], x)
  BY <1>1
<1> QED
  BY <1>1, <1>2 DEF Given, GivenBy, q

LEMMA Given5 ==
    ASSUME NEW a, NEW b, NEW c, NEW d, NEW e, NEW x,
           Yields(a, x) \/ Yields(b, x) \/ Yields(c, x) \/ Yields(d, x) \/ Yields(e, x)
    PROVE  Given(<<a, b, c, d, e>>, x)
<1> DEFINE q == <<a, b, c, d, e>>
<1>1. DOMAIN q = 1..5 /\ q[1] = a /\ q[2] = b /\ q[3] = c /\ q[4] = d /\ q[5] = e
  OBVIOUS
<1> HIDE DEF q
<1>2. \E k \in 1..5 : Yields(q[k], x)
  BY <1>1
<1> QED
  BY <1>1, <1>2 DEF Given, GivenBy, q

LEMMA Given6 ==
    ASSUME NEW a, NEW b, NEW c, NEW d, NEW e, NEW f, NEW x,
           Yields(a, x) \/ Yields(b, x) \/ Yields(c, x) \/ Yields(d, x) \/ Yields(e, x) \/ Yields(f, x)
    PROVE  Given(<<a, b, c, d, e, f>>, x)
<1> DEFINE q == <<a, b, c, d, e, f>>
<1>1. DOMAIN q = 1..6 /\ q[1] = a /\ q[2] = b /\ q[3] = c /\ q[4] = d /\ q[5] = e /\ q[6] = f
  OBVIOUS
<1> HIDE DEF q
<1>2. \E k \in 1..6 : Yields(q[k], x)
  BY <1>1
<1> QED
  BY <1>1, <1>2 DEF Given, GivenBy, q

LEMMA Given7 ==
    ASSUME NEW a, NEW b, NEW c, NEW d, NEW e, NEW f, NEW g, NEW x,
           Yields(a, x) \/ Yields(b, x) \/ Yields(c, x) \/ Yields(d, x) \/ Yields(e, x) \/ Yields(f, x) \/ Yields(g, x)
    PROVE  Given(<<a, b, c, d, e, f, g>>, x)
<1> DEFINE q == <<a, b, c, d, e, f, g>>
<1>1. DOMAIN q = 1..7 /\ q[1] = a /\ q[2] = b /\ q[3] = c /\ q[4] = d /\ q[5] = e /\ q[6] = f /\ q[7] = g
  OBVIOUS
<1> HIDE DEF q
<1>2. \E k \in 1..7 : Yields(q[k], x)
  BY <1>1
<1> QED
  BY <1>1, <1>2 DEF Given, GivenBy, q

LEMMA Given8 ==
    ASSUME NEW a, NEW b, NEW c, NEW d, NEW e, NEW f, NEW g, NEW h, NEW x,
           Yields(a, x) \/ Yields(b, x) \/ Yields(c, x) \/ Yields(d, x) \/ Yields(e, x) \/ Yields(f, x) \/ Yields(g, x) \/ Yields(h, x)
    PROVE  Given(<<a, b, c, d, e, f, g, h>>, x)
<1> DEFINE q == <<a, b, c, d, e, f, g, h>>
<1>1. DOMAIN q = 1..8 /\ q[1] = a /\ q[2] = b /\ q[3] = c /\ q[4] = d /\ q[5] = e /\ q[6] = f /\ q[7] = g /\ q[8] = h
  OBVIOUS
<1> HIDE DEF q
<1>2. \E k \in 1..8 : Yields(q[k], x)
  BY <1>1
<1> QED
  BY <1>1, <1>2 DEF Given, GivenBy, q

LEMMA Given10 ==
    ASSUME NEW a, NEW b, NEW c, NEW d, NEW e, NEW f, NEW g, NEW h, NEW i, NEW j, NEW x,
           Yields(a, x) \/ Yields(b, x) \/ Yields(c, x) \/ Yields(d, x) \/ Yields(e, x) \/ Yields(f, x) \/ Yields(g, x) \/ Yields(h, x) \/ Yields(i, x) \/ Yields(j, x)
    PROVE  Given(<<a, b, c, d, e, f, g, h, i, j>>, x)
<1> DEFINE q == <<a, b, c, d, e, f, g, h, i, j>>
<1>1. DOMAIN q = 1..10 /\ q[1] = a /\ q[2] = b /\ q[3] = c /\ q[4] = d /\ q[5] = e /\ q[6] = f /\ q[7] = g /\ q[8] = h /\ q[9] = i /\ q[10] = j
  OBVIOUS
<1> HIDE DEF q
<1>2. \E k \in 1..10 : Yields(q[k], x)
  BY <1>1
<1> QED
  BY <1>1, <1>2 DEF Given, GivenBy, q

\* The names that are imported by value.
CopyNames == {"get_rope_wrapper", "adjust_config", "free_memory", "support_triton", "dummy_weights",
              "silu_clamp", "grouped_topk"}

LEMMA NoCopy ==
    ASSUME NEW x, NEW y, NEW z, z \notin CopyNames
    PROVE  At(x, y, z) \notin DOMAIN CopyOf
<1>1. At(x, y, z)[3] = z
  BY DEF At
<1>2. \A p \in Copied : p[1][3] \in CopyNames
  BY PairsAre DEF CopyNames
<1> QED
  BY <1>1, <1>2, CopiesAre DEF Copies

LEMMA GivesIs ==
    ASSUME NEW b, b \notin DOMAIN CopyOf, NEW h, h.kind # "tap"
    PROVE  /\ Yields(Put(b, h), b) /\ Yields(MaybePut(b, h), b) /\ Yields(Wrap(b, h), b)
           /\ Yields(Maybe(b, h), b) /\ Yields(Sweep(b, h), b)
  BY DEF Yields, Put, MaybePut, Wrap, Maybe, Sweep, StepOf

LEMMA GivesPutAnswer ==
    ASSUME NEW x, NEW y, NEW z, NEW n, z \notin CopyNames
    PROVE  Yields(Put(At(x, y, z), Answer(n)), At(x, y, z))
  BY NoCopy, GivesIs, HookIs

LEMMA GivesPutAdjust ==
    ASSUME NEW x, NEW y, NEW z, NEW n, z \notin CopyNames
    PROVE  Yields(Put(At(x, y, z), Adjust(n)), At(x, y, z))
  BY NoCopy, GivesIs, HookIs

LEMMA GivesMaybePutAnswer ==
    ASSUME NEW x, NEW y, NEW z, NEW n, z \notin CopyNames
    PROVE  Yields(MaybePut(At(x, y, z), Answer(n)), At(x, y, z))
  BY NoCopy, GivesIs, HookIs

LEMMA GivesWrapAnswer ==
    ASSUME NEW x, NEW y, NEW z, NEW n, z \notin CopyNames
    PROVE  Yields(Wrap(At(x, y, z), Answer(n)), At(x, y, z))
  BY NoCopy, GivesIs, HookIs

LEMMA GivesWrapAdjust ==
    ASSUME NEW x, NEW y, NEW z, NEW n, z \notin CopyNames
    PROVE  Yields(Wrap(At(x, y, z), Adjust(n)), At(x, y, z))
  BY NoCopy, GivesIs, HookIs

LEMMA GivesMaybeAnswer ==
    ASSUME NEW x, NEW y, NEW z, NEW n, z \notin CopyNames
    PROVE  Yields(Maybe(At(x, y, z), Answer(n)), At(x, y, z))
  BY NoCopy, GivesIs, HookIs

LEMMA GivesMaybeAdjust ==
    ASSUME NEW x, NEW y, NEW z, NEW n, z \notin CopyNames
    PROVE  Yields(Maybe(At(x, y, z), Adjust(n)), At(x, y, z))
  BY NoCopy, GivesIs, HookIs

LEMMA FlagGroupIs ==
    ASSUME NEW f, NEW b, <<f, b>> \in Flagged, NEW seq, NEW calm, Fines(seq, calm), Given(seq, b)
    PROVE  GoodGroup(Hard(f, seq), calm)
<1>1. \A p, q \in Flagged : p[1] = q[1] => p[2] = q[2]
  BY DEF Flagged
<1>2. \A p \in Flagged : f = p[1] => p[2] = b
  <2>1. <<f, b>>[1] = f /\ <<f, b>>[2] = b
    OBVIOUS
  <2> QED
    BY <1>1, <2>1
<1>3. PICK n \in Nat : DOMAIN seq = 1..n /\ \A k \in 1..n : Fine(seq[k], calm)
  BY DEF Fines
<1>4. GoodSteps(seq, n, calm)
  BY <1>3 DEF GoodSteps, Fine
<1>5. GivenBy(seq, n, b)
  <2>1. PICK m \in Nat : DOMAIN seq = 1..m /\ GivenBy(seq, m, b)
    BY DEF Given
  <2>2. m = n
    BY <1>3, <2>1
  <2> QED
    BY <2>1, <2>2
<1> QED
  BY <1>2, <1>3, <1>4, <1>5 DEF GoodGroup, Hard

LEMMA GroupGivesIs ==
    ASSUME NEW f, NEW seq, NEW b, f = "none" \/ <<f, b>> \in Flagged, Given(seq, b)
    PROVE  GroupGives(Hard(f, seq), b) /\ GroupGives(Soft(f, seq), b)
  BY DEF Given, GroupGives, Hard, Soft

LEMMA GoodLayerCapture ==
    ASSUME NEW calm
    PROVE  GoodInstaller(LayerCapture, calm)
  BY FineRead, FineWrapTap, Fines3, GroupIs, Groups1, InstallerIs
     DEF LayerCapture, Layer4, Model4

LEMMA GoodAttnIoCapture ==
    ASSUME NEW calm
    PROVE  GoodInstaller(AttnIoCapture, calm)
  BY FineMaybeTap, FineWrapTap, Fines3, GroupIs, Groups1, InstallerIs
     DEF AttnIoCapture, Layer4, Mqa

LEMMA GoodMoeTopkCapture ==
    ASSUME NEW calm
    PROVE  GoodInstaller(MoeTopkCapture, calm)
  BY FineMaybeTap, FineWrapTap, Fines4, GroupIs, Groups1, InstallerIs
     DEF MoeTopkCapture, Model4, Moe2, TopK, HashTopK

LEMMA GoodAttnOutCapture ==
    ASSUME NEW calm
    PROVE  GoodInstaller(AttnOutCapture, calm)
  BY FineMaybeTap, FineWrapTap, Fines3, GroupIs, Groups1, InstallerIs
     DEF AttnOutCapture, Mqa, Model4

LEMMA GoodConfigure ==
    ASSUME NEW calm
    PROVE  GoodInstaller(Configure, calm)
  BY FineImport, FinePutAdjust, Fines4, GroupIs, Groups1, InstallerIs
     DEF Configure

LEMMA GoodPagedAllocator ==
    ASSUME NEW calm
    PROVE  GoodInstaller(PagedAllocator, calm)
  BY FinePutAnswer, FineSweepAdjust, FineWrapAdjust, Fines2, GroupIs, Groups3, InstallerIs
     DEF PagedAllocator

LEMMA GoodDsaCpuKernels ==
    ASSUME NEW calm
    PROVE  GoodInstaller(DsaCpuKernels, calm)
  BY FinePutAnswer, FineWrapAdjust, Fines3, GroupIs, Groups1, InstallerIs
     DEF DsaCpuKernels

LEMMA GoodCoreKernels ==
    ASSUME NEW calm
    PROVE  GoodInstaller(CoreKernels, calm)
  BY FinePutAnswer, Fines5, GroupIs, Groups1, InstallerIs
     DEF CoreKernels, V4

LEMMA GoodAttentionCpu ==
    ASSUME NEW calm
    PROVE  GoodInstaller(AttentionCpu, calm)
  BY FinePutAnswer, FineTimedAt, Fines1, Fines2, GroupIs, Groups2, InstallerIs
     DEF AttentionCpu

LEMMA GoodMoeGateFix ==
    ASSUME NEW calm
    PROVE  GoodInstaller(MoeGateFix, calm)
  BY FineWrapAdjust, Fines1, GroupIs, Groups1, InstallerIs
     DEF MoeGateFix

LEMMA GoodDsaWire ==
    ASSUME NEW calm
    PROVE  GoodInstaller(DsaWire, calm)
  BY FinePutAnswer, FineTimedAt, Fines6, GroupIs, Groups1, InstallerIs
     DEF DsaWire, Backend

LEMMA GoodProfileBypass ==
    ASSUME NEW calm
    PROVE  GoodInstaller(ProfileBypass, calm)
  BY FineMaybePutAnswer, FineWrapAnswer, Fines3, GroupIs, Groups1, InstallerIs
     DEF ProfileBypass, Backend

LEMMA GoodPhaseTag ==
    ASSUME NEW calm
    PROVE  GoodInstaller(PhaseTag, calm)
  BY FineWrapTap, Fines1, GroupIs, Groups1, InstallerIs
     DEF PhaseTag, Model4

LEMMA GoodHcPreTimers ==
    ASSUME NEW calm
    PROVE  GoodInstaller(HcPreTimers, calm)
  BY FineWrapAnswer, Fines1, GroupIs, Groups1, InstallerIs
     DEF HcPreTimers, Layer4

LEMMA GoodGemmTimeit ==
    ASSUME NEW calm
    PROVE  GoodInstaller(GemmTimeit, calm)
  BY FineWrapTap, Fines1, GroupIs, Groups2, InstallerIs
     DEF GemmTimeit, Fp8, Bf16

LEMMA GoodLayerTimeit ==
    ASSUME NEW calm
    PROVE  GoodInstaller(LayerTimeit, calm)
  BY FineMaybeTap, FineWrapTap, Fines1, Fines3, GroupIs, Groups3, InstallerIs
     DEF LayerTimeit, Layer4, LogitsProcessor

LEMMA GoodDecodeThreadCap ==
    ASSUME NEW calm
    PROVE  GoodInstaller(DecodeThreadCap, calm)
  BY FineWrapTap, Fines1, GroupIs, Groups1, InstallerIs
     DEF DecodeThreadCap, Model4

LEMMA GoodFp8Parity ==
    ASSUME NEW calm
    PROVE  GoodInstaller(Fp8Parity, calm)
  BY FineRead, FineWrapTap, Fines3, GroupIs, Groups1, InstallerIs
     DEF Fp8Parity, Fp8

LEMMA GoodWoaUnpack ==
    ASSUME NEW calm
    PROVE  GoodInstaller(WoaUnpack, calm)
  BY FineMaybeAdjust, FineWrapAnswer, Fines1, GroupIs, Groups4, InstallerIs
     DEF WoaUnpack, Mqa, Fp8, Bf16

LEMMA GoodRealRouter ==
    ASSUME NEW calm
    PROVE  GoodInstaller(RealRouter, calm)
  BY FineWrapAdjust, FineWrapAnswer, Fines1, GroupIs, Groups3, InstallerIs
     DEF RealRouter, HashTopK

LEMMA GoodExpertHist ==
    ASSUME NEW calm
    PROVE  GoodInstaller(ExpertHist, calm)
  BY FineMaybeTap, FineWrapTap, Fines2, GroupIs, Groups1, InstallerIs
     DEF ExpertHist, TopK, HashTopK

LEMMA GoodFullCapture ==
    ASSUME NEW calm
    PROVE  GoodInstaller(FullCapture, calm)
  BY FineMaybeTap, FineWrapTap, Fines1, Fines3, GroupIs, Groups4, InstallerIs
     DEF FullCapture, V4, Layer4, Mqa, Backend, LogitsProcessor

LEMMA GoodGlmKda ==
    ASSUME NEW calm
    PROVE  GoodInstaller(GlmKda, calm)
  BY FinePutAnswer, Fines3, GroupIs, Groups1, InstallerIs
     DEF GlmKda

LEMMA GoodGlmGatedNorm ==
    ASSUME NEW calm
    PROVE  GoodInstaller(GlmGatedNorm, calm)
  BY FineWrapAdjust, Fines1, GroupIs, Groups1, InstallerIs
     DEF GlmGatedNorm

LEMMA GoodGlmIndexer ==
    ASSUME NEW calm
    PROVE  GoodInstaller(GlmIndexer, calm)
  BY FinePutAnswer, Fines1, GroupIs, Groups1, InstallerIs
     DEF GlmIndexer

LEMMA GoodGlmGroupedTopk ==
    ASSUME NEW calm
    PROVE  GoodInstaller(GlmGroupedTopk, calm)
  BY FineSweepAdjust, Fines1, GroupIs, Groups1, InstallerIs
     DEF GlmGroupedTopk

LEMMA GoodGlmNopeMla ==
    ASSUME NEW calm
    PROVE  GoodInstaller(GlmNopeMla, calm)
  BY FineWrapAnswer, Fines1, GroupIs, Groups2, InstallerIs
     DEF GlmNopeMla

LEMMA GoodGlmRunIndexer ==
    ASSUME NEW calm
    PROVE  GoodInstaller(GlmRunIndexer, calm)
  BY FineWrapAdjust, Fines1, GroupIs, Groups1, InstallerIs
     DEF GlmRunIndexer

LEMMA GoodGlmFullCapture ==
    ASSUME NEW calm
    PROVE  GoodInstaller(GlmFullCapture, calm)
  BY FineMaybeTap, FineWrapTap, Fines1, Fines2, GroupIs, Groups2, InstallerIs
     DEF GlmFullCapture, Glm, LogitsProcessor

LEMMA GoodGlmTimeit ==
    ASSUME NEW calm
    PROVE  GoodInstaller(GlmTimeit, calm)
  BY FineMaybeTap, FineWrapTap, Fines7, GroupIs, Groups1, InstallerIs
     DEF GlmTimeit, Glm

\* An engine on a host without CUDA is one for the CPU.
LEMMA HostIs ==
    ASSUME job \in Jobs, "no_cuda" \in job.env
    PROVE  "cpu" \in job.env
  BY JobsAssumption

LEMMA FlagsAre ==
    /\ <<"pin_memory", Torch("empty")>> \in Flagged
    /\ <<"capability", Torch("capability")>> \in Flagged
    /\ <<"hash", Moe2("forward_cpu")>> \in Flagged
    /\ <<"fp4", At("fp8", "Fp8MoEMethod", "process_weights")>> \in Flagged
  BY DEF Flagged, At

PinSteps ==
    <<Put(Torch("Tensor.pin_memory"), Answer("pageable"))>> \o
        [i \in 1..7 |-> Maybe(Torch(<<"tensor", "empty", "zeros", "ones", "full", "empty_strided",
                                      "as_tensor">>[i]), Answer("unpinned"))]

LEMMA PinIs ==
    ASSUME NEW calm
    PROVE  /\ "cpu" \in job.env => Fines(PinSteps, calm)
           /\ Given(PinSteps, Torch("empty"))
<1> DEFINE names == <<"tensor", "empty", "zeros", "ones", "full", "empty_strided", "as_tensor">>
           first == Put(Torch("Tensor.pin_memory"), Answer("pageable"))
           rest == [i \in 1..7 |-> Maybe(Torch(names[i]), Answer("unpinned"))]
<1>1. /\ DOMAIN PinSteps = 1..8 /\ PinSteps[1] = first
      /\ \A k \in 2..8 : PinSteps[k] = Maybe(Torch(names[k - 1]), Answer("unpinned"))
  <2> DEFINE one == <<first>>
             S == {first} \cup {rest[i] : i \in 1..7}
  <2>1. one \in Seq(S) /\ Len(one) = 1 /\ one[1] = first
    <3> HIDE DEF first, rest
    <3> QED
      OBVIOUS
  <2>2. /\ rest \in Seq(S) /\ Len(rest) = 7
        /\ \A i \in 1..7 : rest[i] = Maybe(Torch(names[i]), Answer("unpinned"))
    <3> HIDE DEF names, first
    <3> QED
      OBVIOUS
  <2>3. PinSteps = one \o rest
    BY DEF PinSteps
  <2> HIDE DEF first, rest, names, one, S
  <2>4. /\ PinSteps \in Seq(S) /\ Len(PinSteps) = 8
        /\ \A k \in 1..8 : PinSteps[k] = IF k <= 1 THEN one[k] ELSE rest[k - 1]
    <3>1. /\ one \o rest \in Seq(S) /\ Len(one \o rest) = Len(one) + Len(rest)
          /\ \A k \in 1..Len(one) + Len(rest) :
                 (one \o rest)[k] = IF k <= Len(one) THEN one[k] ELSE rest[k - Len(one)]
      BY <2>1, <2>2, ConcatProperties
    <3> QED
      BY <2>1, <2>2, <2>3, <3>1
  <2>5. DOMAIN PinSteps = 1..8
    BY <2>4
  <2>6. \A k \in 2..8 : PinSteps[k] = rest[k - 1] /\ k - 1 \in 1..7
    BY <2>4
  <2>7. PinSteps[1] = first
    BY <2>1, <2>4
  <2> QED
    BY <2>2, <2>5, <2>6, <2>7
<1>2. names[2] = "empty"
  OBVIOUS
<1> HIDE DEF names
<1>3. Yields(PinSteps[3], Torch("empty"))
  <2>1. PinSteps[3] = Maybe(Torch("empty"), Answer("unpinned"))
    BY <1>1, <1>2
  <2> QED
    BY <2>1, GivesMaybeAnswer DEF Torch, CopyNames
<1>4. ASSUME "cpu" \in job.env, NEW k \in 1..8 PROVE Fine(PinSteps[k], calm)
  <2>1. CASE k = 1
    BY <1>1, <1>4, <2>1, FinePutAnswer DEF Torch
  <2>2. CASE k # 1
    <3>1. k \in 2..8
      BY <2>2
    <3> QED
      BY <1>1, <1>4, <3>1, FineMaybeAnswer DEF Torch
  <2> QED
    BY <2>1, <2>2
<1> QED
  BY <1>1, <1>3, <1>4 DEF Fines, Given, GivenBy

LEMMA GoodPinMemory ==
    ASSUME job \in Jobs, NEW calm
    PROVE  GoodInstaller(PinMemory, calm)
<1>1. ASSUME "cpu" \in job.env PROVE GoodGroup(Hard("pin_memory", PinSteps), calm)
  BY <1>1, PinIs, FlagsAre, FlagGroupIs
<1>2. PinMemory = Installer({"no_cuda"}, {}, "pin_memory", <<Hard("pin_memory", PinSteps)>>)
  BY DEF PinMemory, PinSteps
<1> QED
  BY <1>1, <1>2, HostIs, Groups1, InstallerIs

LEMMA GoodResolutionGuards ==
    ASSUME job \in Jobs, NEW calm
    PROVE  GoodInstaller(ResolutionGuards, calm)
<1>1. ASSUME "cpu" \in job.env
      PROVE  GoodGroup(Hard("capability", <<Put(Torch("capability"), Answer("hopper"))>>), calm)
  <2>1. Fines(<<Put(Torch("capability"), Answer("hopper"))>>, calm)
    BY <1>1, FinePutAnswer, Fines1 DEF Torch
  <2>2. Given(<<Put(Torch("capability"), Answer("hopper"))>>, Torch("capability"))
    BY GivesPutAnswer, Given1 DEF Torch, CopyNames
  <2> QED
    BY <2>1, <2>2, FlagsAre, FlagGroupIs
<1>2. ASSUME "cpu" \in job.env
      PROVE  /\ GoodGroup(Soft("none", <<Wrap(At("mamba_hook", "module", "validate_no_buffer"), Adjust("no_page_size"))>>), calm)
             /\ GoodGroup(Soft("none", <<Wrap(At("amx_utils", "module", "process_weight"), Answer("conv_logical"))>>), calm)
  BY <1>2, FineWrapAdjust, FineWrapAnswer, Fines1, GroupIs
<1> QED
  BY <1>1, <1>2, HostIs, Groups3, InstallerIs DEF ResolutionGuards

LEMMA ForcedIs ==
    /\ "DETERMINISTIC_DUMMY" \in job.env => "by_name" \in Allowed
    /\ "FP8_BF16" \in job.env => "bf16_matmul" \in Allowed
    /\ "TP_GLOO" \in job.env => "gloo" \in Allowed
  BY DEF Allowed

LEMMA GoodDeterministicDummy ==
    ASSUME NEW calm
    PROVE  GoodInstaller(DeterministicDummy, calm)
<1>1. Fine(Copy(At("loader", "module", "dummy_weights")), calm)
  BY FineCopies, FineCopy
<1> QED
  BY <1>1, ForcedIs, FinePutAnswer, Fines2, GroupIs, Groups1, InstallerIs
     DEF DeterministicDummy

LEMMA GoodMlaTpConfig ==
    ASSUME NEW calm
    PROVE  GoodInstaller(MlaTpConfig, calm)
<1>1. Fine(Copy(At("model_runner", "module", "adjust_config")), calm)
  BY FineCopies, FineCopy
<1> QED
  BY <1>1, FineWrapAnswer, Fines2, GroupIs, Groups1, InstallerIs
     DEF MlaTpConfig

LEMMA GoodRopeFix ==
    ASSUME NEW calm
    PROVE  GoodInstaller(RopeFix, calm)
<1>1. Fine(Copy(V4("get_rope_wrapper")), calm)
  BY FineCopies, FineCopy DEF V4
<1> QED
  BY <1>1, FineWrapAdjust, Fines2, GroupIs, Groups1, InstallerIs
     DEF RopeFix

LEMMA GoodInterleaveMem ==
    ASSUME NEW calm
    PROVE  GoodInstaller(InterleaveMem, calm)
<1>1. Fine(Copy(At("model_runner", "module", "free_memory")), calm)
  BY FineCopies, FineCopy
<1> QED
  BY <1>1, FineWrapAdjust, Fines2, GroupIs, Groups1, InstallerIs
     DEF InterleaveMem

LEMMA GoodGlmSiluClamp ==
    ASSUME NEW calm
    PROVE  GoodInstaller(GlmSiluClamp, calm)
<1>1. Fine(Copy(At("v2", "module", "silu_clamp")), calm)
  BY FineCopies, FineCopy
<1> QED
  BY <1>1, FinePutAnswer, FineImport, Fines3, GroupIs, Groups1, InstallerIs
     DEF GlmSiluClamp

LEMMA GoodGlooAllreduce ==
    ASSUME NEW calm
    PROVE  GoodInstaller(GlooAllreduce, calm)
  BY ForcedIs, FinePutAnswer, Fines1, GroupIs, Groups1, InstallerIs
     DEF GlooAllreduce

LEMMA GoodFp8ForceBf16 ==
    ASSUME NEW calm
    PROVE  GoodInstaller(Fp8ForceBf16, calm)
  BY ForcedIs, FineRead, FineWrapAnswer, FineWrapTap, Fines3, GroupIs, Groups1, InstallerIs
     DEF Fp8ForceBf16, Fp8

LEMMA GoodGlmMhcPost ==
    ASSUME NEW calm
    PROVE  GoodInstaller(GlmMhcPost, calm)
<1>1. ASSUME "cpu" \in job.env PROVE Fine(Put(Mhc("post"), Answer("adaptive_post")), calm)
  <2>1. Off(Mhc("post"))
    BY OffBy DEF Mhc, At
  <2> QED
    BY <1>1, <2>1, HookIs, FineStep
<1> QED
  BY <1>1, Fines1, GroupIs, Groups1, InstallerIs DEF GlmMhcPost

LEMMA GoodMoeHashFix ==
    ASSUME NEW calm
    PROVE  GoodInstaller(MoeHashFix, calm)
<1> DEFINE steps == <<Read(Moe2("forward_cpu")),
                      Wrap(Moe2("forward"), Adjust("ids")), Timed(Moe2("forward"), "moe.forward"),
                      Wrap(Moe2("forward_cpu"), Adjust("ids")),
                      Timed(Moe2("forward_cpu"), "moe.forward_cpu")>>
<1>1. Fines(steps, calm)
  BY FineRead, FineWrapAdjust, FineTimedAt, Fines5 DEF Moe2
<1>2. Given(steps, Moe2("forward_cpu"))
  <2>1. Yields(Wrap(Moe2("forward_cpu"), Adjust("ids")), Moe2("forward_cpu"))
    BY GivesWrapAdjust DEF Moe2, CopyNames
  <2> QED
    BY <2>1, Given5
<1>3. GoodGroup(Hard("hash", steps), calm)
  <2> HIDE DEF steps
  <2> QED
    BY <1>1, <1>2, FlagsAre, FlagGroupIs
<1> QED
  BY <1>3, Groups1, InstallerIs DEF MoeHashFix

LEMMA GoodFp4Expert ==
    ASSUME NEW calm
    PROVE  GoodInstaller(Fp4Expert, calm)
<1> DEFINE steps == <<Read(At("fp8", "Fp8MoEMethod", "apply")),
                      Wrap(At("fp8", "Fp8MoEMethod", "process_weights"), Answer("fp4")),
                      Wrap(At("fp8", "Fp8MoEMethod", "apply"), Answer("fp4")),
                      Timed(At("fp8", "Fp8MoEMethod", "apply"), "moe.expert_apply")>>
<1>1. ASSUME "cpu" \in job.env PROVE Fines(steps, calm)
  BY <1>1, FineRead, FineWrapAnswer, FineTimedAt, Fines4
<1>2. Given(steps, At("fp8", "Fp8MoEMethod", "process_weights"))
  <2>1. Yields(Wrap(At("fp8", "Fp8MoEMethod", "process_weights"), Answer("fp4")),
              At("fp8", "Fp8MoEMethod", "process_weights"))
    BY GivesWrapAnswer DEF CopyNames
  <2> QED
    BY <2>1, Given4
<1>3. ASSUME "cpu" \in job.env PROVE GoodGroup(Hard("fp4", steps), calm)
  <2> HIDE DEF steps
  <2> QED
    BY <1>1, <1>2, <1>3, FlagsAre, FlagGroupIs
<1> QED
  BY <1>3, Groups1, InstallerIs DEF Fp4Expert

LEMMA GoodMhcCpu ==
    ASSUME NEW calm, ~calm
    PROVE  GoodInstaller(MhcCpu, calm)
<1> DEFINE core == <<Put(Mhc("sinkhorn"), Answer("torch_sinkhorn")), Timed(Mhc("sinkhorn"), "mhc.sinkhorn"),
                     Put(Mhc("combine"), Answer("torch_combine")), Timed(Mhc("combine"), "mhc.combine"),
                     If("CKERNEL", Put(Mhc("sinkhorn"), Answer("C_sinkhorn"))),
                     If("CKERNEL", Timed(Mhc("sinkhorn"), "mhc.sinkhorn")),
                     If("CKERNEL", Put(Mhc("combine"), Answer("C_combine"))),
                     If("CKERNEL", Timed(Mhc("combine"), "mhc.combine")),
                     MaybePut(Mhc("post"), Answer("post")), Timed(Mhc("post"), "mhc.post")>>
<1>1. ASSUME "cpu" \in job.env PROVE Fines(core, calm)
  <2>1. \A n, h : Fine(Put(Mhc(n), Answer(h)), calm) /\ Fine(MaybePut(Mhc(n), Answer(h)), calm)
    <3>1. \A n, h : Fine(Put(Mhc(n), Answer(h)), calm)
      BY <1>1, FinePutAnswer DEF Mhc
    <3>2. \A n, h : Fine(MaybePut(Mhc(n), Answer(h)), calm)
      BY <1>1, FineMaybePutAnswer DEF Mhc
    <3> QED
      BY <3>1, <3>2
  <2>2. \A n, h : Fine(Timed(Mhc(n), h), calm)
    BY FineTimedAt DEF Mhc
  <2>3. \A n, h : Fine(If("CKERNEL", Put(Mhc(n), Answer(h))), calm)
    BY <2>1, FineIf
  <2>4. \A n, h : Fine(If("CKERNEL", Timed(Mhc(n), h)), calm)
    BY <2>2 DEF Fine, Good, Calm, If, Timed, Wrap, StepOf
  <2> QED
    BY <2>1, <2>2, <2>3, <2>4, Fines10
<1>2. ASSUME "cpu" \in job.env
      PROVE  Fines(<<Put(At("mhc_head", "module", "fused_hc_head"), Answer("torch_head"))>>, calm)
  BY <1>2, FinePutAnswer, Fines1
<1>3. ASSUME "cpu" \in job.env
      PROVE  /\ GoodGroup(Hard("none", core), calm)
             /\ GoodGroup(Soft("none", <<Put(At("mhc_head", "module", "fused_hc_head"), Answer("torch_head"))>>), calm)
  <2> HIDE DEF core
  <2> QED
    BY <1>1, <1>2, <1>3, GroupIs
<1> QED
  BY <1>3, Groups2, InstallerIs DEF MhcCpu

LEMMA GroupsOn ==
    ASSUME NEW S, NEW p \in Seq(S), NEW q \in Seq(S), NEW calm, Groups(p, calm), Groups(q, calm)
    PROVE  Groups(p \o q, calm)
<1> DEFINE r == p \o q
           n == Len(p) + Len(q)
<1>1. /\ r \in Seq(S) /\ Len(r) = n /\ DOMAIN r = 1..n /\ n \in Nat
      /\ \A k \in 1..n : r[k] = IF k <= Len(p) THEN p[k] ELSE q[k - Len(p)]
  BY ConcatProperties
<1>2. /\ \A k \in 1..Len(p) : GoodGroup(p[k], calm)
      /\ \A k \in 1..Len(q) : GoodGroup(q[k], calm)
  BY DEF Groups
<1>3. ASSUME NEW k \in 1..n PROVE GoodGroup(r[k], calm)
  <2>1. CASE k <= Len(p)
    <3>1. k \in 1..Len(p)
      BY <2>1
    <3> HIDE DEF r
    <3> QED
      BY <1>1, <1>2, <2>1, <3>1
  <2>2. CASE ~(k <= Len(p))
    <3>1. k - Len(p) \in 1..Len(q)
      BY <2>2
    <3> HIDE DEF r
    <3> QED
      BY <1>1, <1>2, <2>2, <3>1
  <2> QED
    BY <2>1, <2>2
<1> HIDE DEF n, r
<1> QED
  BY <1>1, <1>3 DEF Groups, r

LEMMA GoodHiddenDebug ==
    ASSUME NEW calm
    PROVE  GoodInstaller(HiddenDebug, calm)
<1> DEFINE p == HiddenDebugTaps
           a == Hard("fqr", <<Maybe(V4("fused_q_norm_rope"), Tap("fqr"))>>)
           b == Soft("sink", <<Wrap(Mhc("sinkhorn"), Tap("sink"))>>)
           c == Soft("hid_logits", <<Wrap(LogitsProcessor, Tap("hid_logits"))>>)
           q == <<a, b, c>>
           S == {p[1], p[2], p[3], p[4], a, b, c}
<1>1. Groups(p, calm)
  BY FineRead, FineWrapTap, FineMaybeTap, Fines1, Fines3, Fines5, GroupIs, Groups4
     DEF HiddenDebugTaps, Layer4, V4, Fp8, Bf16, Mqa
<1>2. Groups(q, calm)
  BY FineMaybeTap, FineWrapTap, Fines1, GroupIs, Groups3 DEF V4, Mhc, LogitsProcessor
<1>3. p \in Seq(S)
  <2> HIDE DEF a, b, c
  <2> QED
    BY DEF HiddenDebugTaps
<1>4. q \in Seq(S)
  <2> HIDE DEF a, b, c, p
  <2> QED
    OBVIOUS
<1>5. HiddenDebug = Installer({"HID_DEBUG"}, {}, "hid", p \o q)
  BY DEF HiddenDebug
<1> HIDE DEF p, q, S
<1>6. Groups(p \o q, calm)
  BY <1>1, <1>2, <1>3, <1>4, GroupsOn
<1> QED
  BY <1>5, <1>6, InstallerIs

-----------------------------------------------------------------------------
(* What the installers give an engine for the CPU on a host without CUDA. *)

SomeGives(groups, b) == \E k \in DOMAIN groups : GroupGives(groups[k], b)

LEMMA SomeGives1 ==
    ASSUME NEW a, NEW x, GroupGives(a, x)
    PROVE  SomeGives(<<a>>, x)
<1> DEFINE q == <<a>>
<1>1. 1 \in DOMAIN q /\ q[1] = a
  OBVIOUS
<1> HIDE DEF q
<1> QED
  BY <1>1 DEF SomeGives, q

LEMMA SomeGives2 ==
    ASSUME NEW a, NEW b, NEW x, GroupGives(a, x) \/ GroupGives(b, x)
    PROVE  SomeGives(<<a, b>>, x)
<1> DEFINE q == <<a, b>>
<1>1. 1 \in DOMAIN q /\ q[1] = a /\ 2 \in DOMAIN q /\ q[2] = b
  OBVIOUS
<1> HIDE DEF q
<1> QED
  BY <1>1 DEF SomeGives, q

LEMMA SomeGives3 ==
    ASSUME NEW a, NEW b, NEW c, NEW x, GroupGives(a, x) \/ GroupGives(b, x) \/ GroupGives(c, x)
    PROVE  SomeGives(<<a, b, c>>, x)
<1> DEFINE q == <<a, b, c>>
<1>1. /\ 1 \in DOMAIN q /\ q[1] = a /\ 2 \in DOMAIN q /\ q[2] = b
      /\ 3 \in DOMAIN q /\ q[3] = c
  OBVIOUS
<1> HIDE DEF q
<1> QED
  BY <1>1 DEF SomeGives, q

LEMMA InstallerGivesIs ==
    ASSUME NEW when, NEW needs, NEW guard, NEW groups, NEW b, when \subseteq job.env,
           guard = "none" \/ <<guard, b>> \in Flagged, SomeGives(groups, b)
    PROVE  InstallerGives(Installer(when, needs, guard, groups), b)
  BY DEF InstallerGives, Asks, Installer, SomeGives

LEMMA AlwaysGives ==
    ASSUME NEW needs, NEW groups, NEW b, SomeGives(groups, b)
    PROVE  InstallerGives(Installer({}, needs, "none", groups), b)
  BY DEF InstallerGives, Asks, Installer, SomeGives

Here == "cpu" \in job.env /\ "no_cuda" \in job.env

LEMMA PinMemoryGives ==
    ASSUME Here
    PROVE  InstallerGives(PinMemory, Torch("empty"))
<1>1. GroupGives(Hard("pin_memory", PinSteps), Torch("empty"))
  BY PinIs, FlagsAre, GroupGivesIs
<1>2. PinMemory = Installer({"no_cuda"}, {}, "pin_memory", <<Hard("pin_memory", PinSteps)>>)
  BY DEF PinMemory, PinSteps
<1> QED
  BY <1>1, <1>2, FlagsAre, SomeGives1, InstallerGivesIs DEF Here

LEMMA GuardsGive ==
    ASSUME Here
    PROVE  InstallerGives(ResolutionGuards, Torch("capability"))
<1>1. Given(<<Put(Torch("capability"), Answer("hopper"))>>, Torch("capability"))
  BY GivesPutAnswer, Given1 DEF Torch, CopyNames
<1>2. GroupGives(Hard("capability", <<Put(Torch("capability"), Answer("hopper"))>>), Torch("capability"))
  BY <1>1, FlagsAre, GroupGivesIs
<1> QED
  BY <1>2, FlagsAre, SomeGives3, InstallerGivesIs DEF Here, ResolutionGuards

LEMMA ConfigureGives ==
    ASSUME Here
    PROVE  InstallerGives(Configure, At("kcc", "Configurator", "configure"))
  BY GivesPutAdjust, Given4, GroupGivesIs, SomeGives1, AlwaysGives DEF Configure, CopyNames

LEMMA AllocatorGives ==
    ASSUME Here
    PROVE  /\ InstallerGives(PagedAllocator, At("paged", "module", "alloc_extend"))
           /\ InstallerGives(PagedAllocator, At("paged", "module", "alloc_decode"))
           /\ InstallerGives(PagedAllocator, At("allocation", "module", "get_last_loc"))
<1>1. /\ Yields(Put(At("paged", "module", "alloc_extend"), Answer("extend")), At("paged", "module", "alloc_extend"))
      /\ Yields(Put(At("paged", "module", "alloc_decode"), Answer("decode")), At("paged", "module", "alloc_decode"))
      /\ Yields(Wrap(At("allocation", "module", "get_last_loc"), Adjust("torch_last_loc")),
               At("allocation", "module", "get_last_loc"))
  BY GivesPutAnswer, GivesWrapAdjust DEF CopyNames
<1> QED
  BY <1>1, Given2, GroupGivesIs, SomeGives3, InstallerGivesIs DEF Here, PagedAllocator

LEMMA DsaGives ==
    ASSUME Here
    PROVE  /\ InstallerGives(DsaCpuKernels, At("metadata_kernel", "module", "compressed_metadata"))
           /\ InstallerGives(DsaCpuKernels, At("backend", "module", "flashmla_metadata"))
           /\ InstallerGives(DsaCpuKernels, At("topk_backend", "DSATopKBackend", "use_v2"))
  BY GivesPutAnswer, GivesWrapAdjust, Given3, GroupGivesIs, SomeGives1, InstallerGivesIs
     DEF Here, DsaCpuKernels, CopyNames

LEMMA MhcGives ==
    ASSUME Here
    PROVE  /\ InstallerGives(MhcCpu, Mhc("sinkhorn")) /\ InstallerGives(MhcCpu, Mhc("combine"))
           /\ InstallerGives(MhcCpu, Mhc("post"))
           /\ InstallerGives(MhcCpu, At("mhc_head", "module", "fused_hc_head"))
<1>1. /\ Yields(Put(Mhc("sinkhorn"), Answer("torch_sinkhorn")), Mhc("sinkhorn"))
      /\ Yields(Put(Mhc("combine"), Answer("torch_combine")), Mhc("combine"))
      /\ Yields(MaybePut(Mhc("post"), Answer("post")), Mhc("post"))
      /\ Yields(Put(At("mhc_head", "module", "fused_hc_head"), Answer("torch_head")),
               At("mhc_head", "module", "fused_hc_head"))
  BY GivesPutAnswer, GivesMaybePutAnswer DEF Mhc, CopyNames
<1> QED
  BY <1>1, Given1, Given10, GroupGivesIs, SomeGives2, InstallerGivesIs DEF Here, MhcCpu

LEMMA CoreGives ==
    ASSUME Here
    PROVE  /\ InstallerGives(CoreKernels, V4("fused_q_norm_rope")) /\ InstallerGives(CoreKernels, V4("fused_rope_inplace"))
           /\ InstallerGives(CoreKernels, At("memory_pool", "module", "k_norm_rope"))
           /\ InstallerGives(CoreKernels, At("accessor", "SetKAndS", "execute"))
  BY GivesPutAnswer, Given5, GroupGivesIs, SomeGives1, InstallerGivesIs DEF Here, CoreKernels, V4, CopyNames

LEMMA AttentionGives ==
    ASSUME Here
    PROVE  InstallerGives(AttentionCpu, At("flash_mla", "module", "with_kvcache"))
  BY GivesPutAnswer, Given2, GroupGivesIs, SomeGives2, InstallerGivesIs DEF Here, AttentionCpu, CopyNames

LEMMA MoeGives ==
    ASSUME Here
    PROVE  /\ InstallerGives(MoeHashFix, Moe2("forward_cpu"))
           /\ InstallerGives(Fp4Expert, At("fp8", "Fp8MoEMethod", "process_weights"))
<1>1. Yields(Wrap(Moe2("forward_cpu"), Adjust("ids")), Moe2("forward_cpu"))
  BY GivesWrapAdjust DEF Moe2, CopyNames
<1>2. Yields(Wrap(At("fp8", "Fp8MoEMethod", "process_weights"), Answer("fp4")),
            At("fp8", "Fp8MoEMethod", "process_weights"))
  BY GivesWrapAnswer DEF CopyNames
<1>3. InstallerGives(MoeHashFix, Moe2("forward_cpu"))
  BY <1>1, FlagsAre, Given5, GroupGivesIs, SomeGives1, InstallerGivesIs DEF Here, MoeHashFix
<1>4. InstallerGives(Fp4Expert, At("fp8", "Fp8MoEMethod", "process_weights"))
  BY <1>2, FlagsAre, Given4, GroupGivesIs, SomeGives1, InstallerGivesIs DEF Here, Fp4Expert
<1> QED
  BY <1>3, <1>4

LEMMA GlmGives ==
    ASSUME Here
    PROVE  /\ InstallerGives(GlmKda, At("kda", "KDAAttnBackend", "decode"))
           /\ InstallerGives(GlmKda, At("kda", "KDAAttnBackend", "extend"))
           /\ InstallerGives(GlmGatedNorm, At("norm_gate", "FusedRMSNormGated", "forward"))
           /\ InstallerGives(GlmIndexer, At("forward_mha", "module", "dsa_indexer"))
           /\ InstallerGives(GlmNopeMla, At("backend_handler", "module", "dispatch_mla"))
           /\ InstallerGives(GlmRunIndexer, At("v2", "AttentionMLA", "should_run_indexer"))
<1>1. /\ InstallerGives(GlmKda, At("kda", "KDAAttnBackend", "decode"))
      /\ InstallerGives(GlmKda, At("kda", "KDAAttnBackend", "extend"))
  BY GivesPutAnswer, Given3, GroupGivesIs, SomeGives1, InstallerGivesIs DEF Here, GlmKda, CopyNames
<1>2. InstallerGives(GlmGatedNorm, At("norm_gate", "FusedRMSNormGated", "forward"))
  BY GivesWrapAdjust, Given1, GroupGivesIs, SomeGives1, InstallerGivesIs DEF Here, GlmGatedNorm, CopyNames
<1>3. InstallerGives(GlmIndexer, At("forward_mha", "module", "dsa_indexer"))
  BY GivesPutAnswer, Given1, GroupGivesIs, SomeGives1, InstallerGivesIs DEF Here, GlmIndexer, CopyNames
<1>4. InstallerGives(GlmNopeMla, At("backend_handler", "module", "dispatch_mla"))
  BY GivesWrapAnswer, Given1, GroupGivesIs, SomeGives2, InstallerGivesIs DEF Here, GlmNopeMla, CopyNames
<1>5. InstallerGives(GlmRunIndexer, At("v2", "AttentionMLA", "should_run_indexer"))
  BY GivesWrapAdjust, Given1, GroupGivesIs, SomeGives1, InstallerGivesIs DEF Here, GlmRunIndexer, CopyNames
<1> QED
  BY <1>1, <1>2, <1>3, <1>4, <1>5

\* What reaches an importer by value.
LEMMA CopyCarries ==
    ASSUME NEW b
    PROVE  Carries(Copy(b), b)
  BY DEF Carries, Copy, StepOf

LEMMA CopiesGive ==
    ASSUME Here
    PROVE  /\ InstallerGives(RopeFix, V4("get_rope_wrapper"))
           /\ InstallerGives(GlmSiluClamp, At("v2", "module", "silu_clamp"))
<1> DEFINE rope == <<Wrap(At("rope", "module", "get_rope_wrapper"), Adjust("plain_rope")),
                     Copy(V4("get_rope_wrapper"))>>
           silu == <<Put(At("dsv4_moe", "module", "silu_clamp"), Answer("torch_silu")), Import("v2"),
                     Copy(At("v2", "module", "silu_clamp"))>>
<1>1. /\ At("rope", "module", "get_rope_wrapper") \notin DOMAIN CopyOf
      /\ At("dsv4_moe", "module", "silu_clamp") \notin DOMAIN CopyOf
  BY FineCopies, HomeIs
<1>2. Given(rope, V4("get_rope_wrapper"))
  <2>1. DOMAIN rope = 1..2 /\ 1 \in 1..2 /\ 2 \in 1..2
    OBVIOUS
  <2>2. Yields(rope[1], CopyOf[V4("get_rope_wrapper")])
    BY <1>1, FineCopies, GivesIs, HookIs
  <2>3. Carries(rope[2], V4("get_rope_wrapper"))
    BY CopyCarries
  <2> HIDE DEF rope
  <2>4. GivenBy(rope, 2, V4("get_rope_wrapper"))
    BY <2>1, <2>2, <2>3 DEF GivenBy
  <2> QED
    BY <2>1, <2>4 DEF Given
<1>3. Given(silu, At("v2", "module", "silu_clamp"))
  <2>1. DOMAIN silu = 1..3 /\ 1 \in 1..3 /\ 3 \in 1..3
    OBVIOUS
  <2>2. Yields(silu[1], CopyOf[At("v2", "module", "silu_clamp")])
    BY <1>1, FineCopies, GivesIs, HookIs
  <2>3. Carries(silu[3], At("v2", "module", "silu_clamp"))
    BY CopyCarries
  <2> HIDE DEF silu
  <2>4. GivenBy(silu, 3, At("v2", "module", "silu_clamp"))
    BY <2>1, <2>2, <2>3 DEF GivenBy
  <2> QED
    BY <2>1, <2>4 DEF Given
<1>4. RopeFix = Installer({}, {}, "none", <<Hard("none", rope)>>)
  BY DEF RopeFix
<1>5. GlmSiluClamp = Installer({"cpu"}, {}, "none", <<Soft("none", silu)>>)
  BY DEF GlmSiluClamp
<1> HIDE DEF rope, silu
<1>6. InstallerGives(RopeFix, V4("get_rope_wrapper"))
  BY <1>2, <1>4, GroupGivesIs, SomeGives1, AlwaysGives
<1>7. InstallerGives(GlmSiluClamp, At("v2", "module", "silu_clamp"))
  BY <1>3, <1>5, GroupGivesIs, SomeGives1, InstallerGivesIs DEF Here
<1> QED
  BY <1>6, <1>7

LEMMA TopkGives ==
    ASSUME Here
    PROVE  InstallerGives(GlmGroupedTopk, TopkCopy)
<1>1. Yields(Sweep(TopkHome, Adjust("torch_if_refused")), TopkCopy)
  BY HookIs DEF Yields, Sweep, StepOf
<1> QED
  BY <1>1, Given1, GroupGivesIs, SomeGives1, InstallerGivesIs DEF Here, GlmGroupedTopk, TopkHome

LEMMA PostGives ==
    ASSUME Here
    PROVE  InstallerPosts(GlmMhcPost)
<1> DEFINE q == <<Put(Mhc("post"), Answer("adaptive_post"))>>
<1>1. DOMAIN q = 1..1 /\ q[1] = Put(Mhc("post"), Answer("adaptive_post"))
  OBVIOUS
<1>2. Posts(q[1])
  BY DEF Posts, Put, StepOf, Post
<1>3. GlmMhcPost = Installer({"cpu"}, {}, "none", <<Soft("none", q)>>)
  BY DEF GlmMhcPost
<1> HIDE DEF q
<1>4. GroupPosts(Soft("none", q))
  <2>1. 1 \in 1..1 /\ \A m \in (1 + 1)..1 : FALSE
    OBVIOUS
  <2> QED
    BY <1>1, <1>2, <2>1 DEF GroupPosts, Soft
<1> QED
  BY <1>3, <1>4 DEF InstallerPosts, Installer, Here

-----------------------------------------------------------------------------
(* The lists of the installers. *)

LEMMA UpIs ==
    /\ Up = 7 /\ DOMAIN Imports = 1..6
    /\ \A j, k \in 1..6 : Imports[j] = Imports[k] => j = k
  BY DEF Up, Imports

LEMMA InstallersAre ==
    /\ Installers(1) = <<PinMemory>> /\ Installers(2) = <<ResolutionGuards>>
    /\ Installers(3) = <<DeterministicDummy>> /\ Installers(4) = CaptureInstallers
    /\ Installers(5) = Dsv4Installers /\ Installers(6) = GlmInstallers
  BY DEF Installers

LEMMA CaptureInstallersAre ==
    LET q == CaptureInstallers
    IN  /\ Len(q) = 4
        /\ q[1] = LayerCapture /\ q[2] = AttnIoCapture /\ q[3] = MoeTopkCapture
        /\ q[4] = AttnOutCapture
  BY DEF CaptureInstallers

LEMMA Dsv4InstallersAre ==
    LET q == Dsv4Installers
    IN  /\ Len(q) = 27
        /\ q[1] = Configure /\ q[2] = MlaTpConfig /\ q[3] = RopeFix /\ q[4] = PagedAllocator
        /\ q[5] = DsaCpuKernels /\ q[6] = MhcCpu /\ q[7] = CoreKernels /\ q[8] = AttentionCpu
        /\ q[9] = MoeGateFix /\ q[10] = MoeHashFix /\ q[11] = Fp4Expert /\ q[12] = DsaWire
        /\ q[13] = ProfileBypass /\ q[14] = PhaseTag /\ q[15] = HcPreTimers /\ q[16] = GemmTimeit
        /\ q[17] = LayerTimeit /\ q[18] = DecodeThreadCap /\ q[19] = InterleaveMem
        /\ q[20] = GlooAllreduce /\ q[21] = HiddenDebug /\ q[22] = Fp8Parity /\ q[23] = Fp8ForceBf16
        /\ q[24] = WoaUnpack /\ q[25] = RealRouter /\ q[26] = ExpertHist /\ q[27] = FullCapture
  BY DEF Dsv4Installers

LEMMA GlmInstallersAre ==
    LET q == GlmInstallers
    IN  /\ Len(q) = 11
        /\ q[1] = GlmImports /\ q[2] = GlmKda /\ q[3] = GlmGatedNorm /\ q[4] = GlmMhcPost
        /\ q[5] = GlmSiluClamp /\ q[6] = GlmIndexer /\ q[7] = GlmGroupedTopk /\ q[8] = GlmNopeMla
        /\ q[9] = GlmRunIndexer /\ q[10] = GlmFullCapture /\ q[11] = GlmTimeit
  BY DEF GlmInstallers

LEMMA GoodGlmImports ==
    ASSUME NEW calm
    PROVE  GoodInstaller(GlmImports, calm)
  BY FineImport, Fines3, GroupIs, Groups1, InstallerIs DEF GlmImports

LEMMA AllGood ==
    ASSUME job \in Jobs, NEW m \in 1..6, NEW calm, calm => m # 5,
           NEW r \in 1..Len(Installers(m))
    PROVE  GoodInstaller(Installers(m)[r], calm)
<1>1. CASE m \in 1..3
  <2>1. Len(<<PinMemory>>) = 1 /\ Len(<<ResolutionGuards>>) = 1 /\ Len(<<DeterministicDummy>>) = 1
    OBVIOUS
  <2> QED
    BY <1>1, <2>1, InstallersAre, GoodPinMemory, GoodResolutionGuards, GoodDeterministicDummy
<1>2. CASE m = 4
  <2>1. r \in 1..4
    BY <1>2, InstallersAre, CaptureInstallersAre
  <2> QED
    BY <1>2, <2>1, InstallersAre, CaptureInstallersAre,
       GoodLayerCapture, GoodAttnIoCapture, GoodMoeTopkCapture, GoodAttnOutCapture
<1>3. CASE m = 5
  <2>1. r \in 1..27 /\ ~calm /\ Installers(m) = Dsv4Installers
    BY <1>3, InstallersAre, Dsv4InstallersAre
  <2>2. CASE r \in 1..9
    BY <2>1, <2>2, Dsv4InstallersAre,
       GoodConfigure, GoodMlaTpConfig, GoodRopeFix, GoodPagedAllocator,
       GoodDsaCpuKernels, GoodMhcCpu, GoodCoreKernels, GoodAttentionCpu, GoodMoeGateFix
  <2>3. CASE r \in 10..18
    BY <2>1, <2>3, Dsv4InstallersAre,
       GoodMoeHashFix, GoodFp4Expert, GoodDsaWire, GoodProfileBypass, GoodPhaseTag,
       GoodHcPreTimers, GoodGemmTimeit, GoodLayerTimeit, GoodDecodeThreadCap
  <2>4. CASE r \in 19..27
    BY <2>1, <2>4, Dsv4InstallersAre,
       GoodInterleaveMem, GoodGlooAllreduce, GoodHiddenDebug, GoodFp8Parity,
       GoodFp8ForceBf16, GoodWoaUnpack, GoodRealRouter, GoodExpertHist, GoodFullCapture
  <2> QED
    BY <2>1, <2>2, <2>3, <2>4
<1>4. CASE m = 6
  <2>1. r \in 1..11
    BY <1>4, InstallersAre, GlmInstallersAre
  <2> QED
    BY <1>4, <2>1, InstallersAre, GlmInstallersAre,
       GoodGlmImports, GoodGlmKda, GoodGlmGatedNorm, GoodGlmMhcPost, GoodGlmSiluClamp,
       GoodGlmIndexer, GoodGlmGroupedTopk, GoodGlmNopeMla, GoodGlmRunIndexer,
       GoodGlmFullCapture, GoodGlmTimeit
<1> QED
  BY <1>1, <1>2, <1>3, <1>4

\* The sparse attention of DSV4, with either setting.
LEMMA WireGives ==
    ASSUME Here, "DSA_CPU" \in job.env, NEW b \in SparseChain
    PROVE  InstallerGives(DsaWire, b)
<1>1. /\ Yields(Put(At("compressor_v2", "module", "paged_plan"), Answer("no_plan")),
               At("compressor_v2", "module", "paged_plan"))
      /\ Yields(Put(At("backend", "module", "paged_plan"), Answer("no_plan")),
               At("backend", "module", "paged_plan"))
      /\ Yields(Put(Backend("core_compressor"), Answer("cpu_compressor")), Backend("core_compressor"))
      /\ Yields(Put(Backend("c4_indexer"), Answer("cpu_indexer")), Backend("c4_indexer"))
  BY GivesPutAnswer DEF Backend, CopyNames
<1> QED
  BY <1>1, Given6, GroupGivesIs, SomeGives1, InstallerGivesIs DEF Here, DsaWire, SparseChain

LEMMA BypassGives ==
    ASSUME Here, "BYPASS_DSA" \in job.env, NEW b \in SparseBypass
    PROVE  InstallerGives(ProfileBypass, b)
<1>1. /\ Yields(Wrap(Backend("metadata_prefill"), Answer("no_compress")), Backend("metadata_prefill"))
      /\ Yields(MaybePut(Backend("metadata_decode"), Answer("no_compress")), Backend("metadata_decode"))
      /\ Yields(MaybePut(Backend("core_compressor"), Answer("no_compressor")), Backend("core_compressor"))
  BY GivesWrapAnswer, GivesMaybePutAnswer DEF Backend, CopyNames
<1> QED
  BY <1>1, Given3, GroupGivesIs, SomeGives1, InstallerGivesIs DEF Here, ProfileBypass, SparseBypass

\* Everything that has no path for the CPU, or that a setting takes away, is
\* given one.
LEMMA TableGives ==
    ASSUME Here, NEW b \in CudaOnly["dsv4"] \cup CudaOnly["glm"] \cup SparseAsked
    PROVE  \E m \in 1..6 : \E r \in 1..Len(Installers(m)) : InstallerGives(Installers(m)[r], b)
<1> DEFINE Listed(i) == \E m \in 1..6 : \E r \in 1..Len(Installers(m)) : Installers(m)[r] = i
<1>1. Listed(PinMemory) /\ Listed(ResolutionGuards)
  <2>1. 1 \in 1..Len(Installers(1)) /\ Installers(1)[1] = PinMemory /\ 1 \in 1..Len(Installers(2))
        /\ Installers(2)[1] = ResolutionGuards /\ 1 \in 1..6 /\ 2 \in 1..6
    BY InstallersAre
  <2> QED
    BY <2>1
<1>2. /\ Listed(Configure) /\ Listed(RopeFix) /\ Listed(PagedAllocator) /\ Listed(DsaCpuKernels)
      /\ Listed(MhcCpu) /\ Listed(CoreKernels) /\ Listed(AttentionCpu) /\ Listed(MoeHashFix)
      /\ Listed(Fp4Expert) /\ Listed(DsaWire) /\ Listed(ProfileBypass)
  <2>1. \A r \in 1..27 : Listed(Dsv4Installers[r])
    <3>1. 5 \in 1..6 /\ Len(Installers(5)) = 27 /\ Installers(5) = Dsv4Installers
      BY InstallersAre, Dsv4InstallersAre
    <3> QED
      BY <3>1
  <2> HIDE DEF Listed
  <2> QED
    BY <2>1, Dsv4InstallersAre
<1>3. /\ Listed(GlmKda) /\ Listed(GlmGatedNorm) /\ Listed(GlmSiluClamp) /\ Listed(GlmIndexer)
      /\ Listed(GlmGroupedTopk) /\ Listed(GlmNopeMla) /\ Listed(GlmRunIndexer)
  <2>1. \A r \in 1..11 : Listed(GlmInstallers[r])
    <3>1. 6 \in 1..6 /\ Len(Installers(6)) = 11 /\ Installers(6) = GlmInstallers
      BY InstallersAre, GlmInstallersAre
    <3> QED
      BY <3>1
  <2> HIDE DEF Listed
  <2> QED
    BY <2>1, GlmInstallersAre
<1>4. SUFFICES \E i : Listed(i) /\ InstallerGives(i, b)
  OBVIOUS
<1> HIDE DEF Listed
<1>5. CASE b \in CudaOnly["dsv4"]
  BY <1>2, <1>5, ConfigureGives, CopiesGive, CoreGives, AllocatorGives, DsaGives, MhcGives,
     AttentionGives, MoeGives DEF CudaOnly
<1>6. CASE b \in CudaOnly["glm"]
  BY <1>1, <1>2, <1>3, <1>6, MhcGives, GlmGives, CopiesGive, TopkGives, GuardsGive, PinMemoryGives
     DEF CudaOnly, TopkCopy
<1>7. CASE b \in SparseAsked
  BY <1>2, <1>7, WireGives, BypassGives DEF SparseAsked
<1> QED
  BY <1>5, <1>6, <1>7

-----------------------------------------------------------------------------
(* The load, step by step. *)

\* The installer r of the import m has run.
Gone(m, r) == Imports[m] \in registered \/ (mod = m /\ r <= ran)

\* While SGLang lacks nothing, no import fails: they are registered in their
\* order, and one that is repeated finds itself registered; and what has run
\* still stands.
Carried ==
    /\ FlagsHold(Now)
    /\ \A k \in 1..6 : Imports[k] \in registered <=> (k < mod \/ again # {})
    /\ again # {} /\ mod < Up => ran = Len(Installers(mod))
    /\ \A m \in 1..6 : \A r \in 1..Len(Installers(m)) :
           Gone(m, r) => \A b : InstallerGives(Installers(m)[r], b) => Has(Now, b)
    /\ Gone(6, 4) /\ Here => PostOn(Now)

LoadInv ==
    /\ job \in Jobs /\ mod \in 1..Up /\ ran \in Nat
    /\ Sound(Now)
    /\ Whole => Carried

LEMMA SoundIsOfBind ==
    ASSUME job' = job, NEW u, Sound(u), bind' = u.bind
    PROVE  Sound(Now)'
<1>1. DOMAIN Now' = Fields /\ Now'.bind = bind'
  BY DEF Now, Fields
<1>2. \A b \in DOMAIN bind' : FitPile(bind'[b])
  BY DEF Sound
<1>3. (\A b \in DOMAIN bind : FitPile(bind[b]))'
  BY <1>2 DEF FitPile, Fits, Allowed
<1>4. Pile(bind', TopkCopy) = Pile(bind', TopkHome)
  BY DEF Sound
<1> QED
  BY <1>1, <1>3, <1>4 DEF Sound, FitPile, Fits, Allowed

LEMMA NextNow ==
    ASSUME job' = job, NEW u, Sound(u), bind' = u.bind
    PROVE  /\ Sound(Now)'
           /\ \A b : Has(Now, b)' <=> Has(u, b)
           /\ PostOn(Now)' <=> PostOn(u)
<1>1. Now'.bind = u.bind
  BY DEF Now
<1> QED
  BY <1>1, SoundIsOfBind DEF Has, PostOn, Pile, Solid

LEMMA SameJob ==
    ASSUME job' = job
    PROVE  /\ \A i, b : InstallerGives(i, b)' <=> InstallerGives(i, b)
           /\ Here' <=> Here
           /\ Whole' <=> Whole
<1>1. \A t, b : Yields(t, b)' <=> Yields(t, b)
  BY DEF Yields
<1>2. \A t, b : Carries(t, b)' <=> Carries(t, b)
  BY DEF Carries
<1>3. \A q, n, b : GivenBy(q, n, b)' <=> GivenBy(q, n, b)
  BY <1>1, <1>2 DEF GivenBy
<1>4. \A g, b : GroupGives(g, b)' <=> GroupGives(g, b)
  BY <1>3 DEF GroupGives
<1>5. \A i, b : InstallerGives(i, b)' <=> InstallerGives(i, b)
  BY <1>4 DEF InstallerGives, Asks
<1> QED
  BY <1>5 DEF Here, Whole

\* What has run still stands in the next state, if what stood stands.
LEMMA StillStands ==
    ASSUME job' = job, NEW m, NEW r, NEW u, Sound(u), bind' = u.bind, NEW calm, Keeps(Now, u, calm),
           \A b : InstallerGives(Installers(m)[r], b) => Has(Now, b)
    PROVE  (\A b : InstallerGives(Installers(m)[r], b) => Has(Now, b))'
<1>1. \A b : Has(u, b) => Has(Now, b)'
  BY NextNow
<1>2. \A b : Has(Now, b) => Has(u, b)
  BY DEF Keeps
<1>3. \A i, b : InstallerGives(i, b)' => InstallerGives(i, b)
  BY SameJob
<1>4. Installers(m)[r]' = Installers(m)[r]
  BY DEF Installers
<1> SUFFICES ASSUME NEW b, InstallerGives(Installers(m)[r], b)' PROVE Has(Now, b)'
  OBVIOUS
<1>5. InstallerGives(Installers(m)[r], b)
  BY <1>3, <1>4
<1> QED
  BY <1>1, <1>2, <1>5

LEMMA FlagsStillHold ==
    ASSUME job' = job, NEW u, Sound(u), bind' = u.bind, flags' = u.flags, FlagsHold(u)
    PROVE  FlagsHold(Now)'
<1>1. Now'.flags = u.flags
  BY DEF Now
<1>2. \A b : Has(u, b) => Has(Now, b)'
  BY NextNow
<1> QED
  BY <1>1, <1>2 DEF FlagsHold, Flagged

LEMMA LoadBegins == PluginInit => LoadInv
<1> SUFFICES ASSUME PluginInit PROVE LoadInv
  OBVIOUS
<1>1. job \in Jobs /\ mod \in 1..Up /\ ran \in Nat
  BY UpIs DEF PluginInit
<1>2. Sound(Now)
  <2>1. DOMAIN bind = {} /\ \A b : Pile(bind, b) = <<>>
    BY DEF PluginInit, Pile
  <2> QED
    BY <2>1, NowIs DEF Sound
<1>3. Carried
  <2>1. FlagsHold(Now)
    BY NowIs DEF PluginInit, FlagsHold
  <2>2. \A m \in 1..6 : \A r \in 1..Len(Installers(m)) : ~Gone(m, r)
    BY DEF PluginInit, Gone
  <2>3. ~Gone(6, 4)
    BY DEF PluginInit, Gone
  <2> QED
    BY <2>1, <2>2, <2>3, UpIs DEF PluginInit, Carried
<1> QED
  BY <1>1, <1>2, <1>3 DEF LoadInv

LEMMA InstallersCount ==
    /\ \A m \in 1..6 : Len(Installers(m)) \in Nat
    /\ Len(Installers(6)) = 11 /\ Installers(6)[4] = GlmMhcPost
    /\ \A m \in 1..6 : Len(Installers(m))' = Len(Installers(m))
<1>1. Len(<<PinMemory>>) = 1 /\ Len(<<ResolutionGuards>>) = 1 /\ Len(<<DeterministicDummy>>) = 1
  OBVIOUS
<1>2. /\ Len(Installers(1)) = 1 /\ Len(Installers(2)) = 1 /\ Len(Installers(3)) = 1
      /\ Len(Installers(4)) = 4 /\ Len(Installers(5)) = 27 /\ Len(Installers(6)) = 11
      /\ Installers(6)[4] = GlmMhcPost
  BY <1>1, InstallersAre, CaptureInstallersAre, Dsv4InstallersAre, GlmInstallersAre
<1>3. \A m \in 1..6 : m = 1 \/ m = 2 \/ m = 3 \/ m = 4 \/ m = 5 \/ m = 6
  OBVIOUS
<1>4. \A m \in 1..6 : Len(Installers(m)) \in Nat
  BY <1>2, <1>3
<1> QED
  BY <1>2, <1>4

\* A step that takes nothing away, and after which no more installers have run.
LEMMA CarriedOn ==
    ASSUME job' = job, Whole, Carried, NEW u, Sound(u), bind' = u.bind, flags' = u.flags,
           Keeps(Now, u, TRUE), u.flags = flags,
           \A n \in 1..6 : \A q \in 1..Len(Installers(n)) : Gone(n, q)' => Gone(n, q),
           (\A k \in 1..6 : Imports[k] \in registered <=> (k < mod \/ again # {}))',
           (again # {} /\ mod < Up => ran = Len(Installers(mod)))'
    PROVE  Carried'
<1>1. FlagsHold(Now)'
  <2>1. FlagsHold(u)
    BY NowIs DEF Carried, FlagsHold, Keeps
  <2> QED
    BY <2>1, FlagsStillHold
<1>2. (\A n \in 1..6 : \A q \in 1..Len(Installers(n)) :
          Gone(n, q) => \A b : InstallerGives(Installers(n)[q], b) => Has(Now, b))'
  <2> SUFFICES ASSUME NEW n \in 1..6, NEW q \in 1..Len(Installers(n)), Gone(n, q)'
               PROVE  (\A b : InstallerGives(Installers(n)[q], b) => Has(Now, b))'
    BY InstallersCount
  <2>1. \A b : InstallerGives(Installers(n)[q], b) => Has(Now, b)
    BY DEF Carried
  <2> QED
    BY <2>1, StillStands
<1>3. (Gone(6, 4) /\ Here => PostOn(Now))'
  <2> SUFFICES ASSUME Gone(6, 4)', Here' PROVE PostOn(Now)'
    OBVIOUS
  <2>1. 6 \in 1..6 /\ 4 \in 1..Len(Installers(6))
    BY InstallersCount
  <2>2. Gone(6, 4) /\ Here
    BY <2>1, SameJob
  <2>3. PostOn(u)
    BY <2>2 DEF Carried, Keeps
  <2> QED
    BY <2>3, NextNow
<1> QED
  BY <1>1, <1>2, <1>3 DEF Carried

LEMMA EndImportKeeps ==
    ASSUME LoadInv, EndImport
    PROVE  LoadInv'
<1> PICK u : u = Now
  OBVIOUS
<1>1. job' = job /\ bind' = u.bind /\ flags' = u.flags /\ Sound(u) /\ u.flags = flags
  BY NowIs DEF EndImport, LoadInv
<1>2. mod \in 1..6 /\ ran = Len(Installers(mod)) /\ mod' = AfterImport /\ ran' = 0 /\ again' = again
      /\ registered' = registered \cup {Imports[mod]} /\ AfterImport \in 1..Up
  BY UpIs DEF EndImport, LoadInv, AfterImport
<1>3. Sound(Now)'
  BY <1>1, NextNow
<1>4. Whole' => Carried'
  <2> SUFFICES ASSUME Whole PROVE Carried'
    BY <1>1, SameJob
  <2>1. Carried
    BY DEF LoadInv
  <2>2. \A n \in 1..6 : \A q \in 1..Len(Installers(n)) : Gone(n, q)' => Gone(n, q)
    <3> SUFFICES ASSUME NEW n \in 1..6, NEW q \in 1..Len(Installers(n)), Gone(n, q)'
                 PROVE  Gone(n, q)
      OBVIOUS
    <3>1. Imports[n] \in registered' \/ (mod' = n /\ q <= 0)
      BY <1>2 DEF Gone, Imports
    <3>2. q \in Nat /\ q >= 1 /\ q <= Len(Installers(n))
      BY InstallersCount
    <3>3. Imports[n] \in registered \/ n = mod
      BY <1>2, <3>1, <3>2, UpIs
    <3> QED
      BY <1>2, <3>2, <3>3 DEF Gone
  <2>3. (\A k \in 1..6 : Imports[k] \in registered <=> (k < mod \/ again # {}))'
    <3> SUFFICES ASSUME NEW k \in 1..6
                 PROVE  Imports[k] \in registered' <=> (k < mod' \/ again # {})
      BY <1>2 DEF Imports
    <3>1. Imports[k] \in registered' <=> Imports[k] \in registered \/ k = mod
      BY <1>2, UpIs
    <3>2. Imports[k] \in registered <=> (k < mod \/ again # {})
      BY <2>1 DEF Carried
    <3>3. again = {} => mod' = mod + 1
      BY <1>2 DEF AfterImport
    <3> QED
      BY <1>2, <3>1, <3>2, <3>3
  <2>4. (again # {} /\ mod < Up => ran = Len(Installers(mod)))'
    <3>1. again # {} => mod' = Up
      BY <1>2 DEF AfterImport
    <3>2. again # {} => ~(mod' < Up)
      BY <3>1, UpIs
    <3> QED
      BY <1>2, <3>2 DEF Up, Imports
  <2>5. Keeps(Now, u, TRUE)
    BY KeepsSame
  <2> QED
    BY <1>1, <2>1, <2>2, <2>3, <2>4, <2>5, CarriedOn
<1>5. job' \in Jobs /\ mod' \in 1..Up /\ ran' \in Nat
  BY <1>1, <1>2 DEF LoadInv
<1> QED
  BY <1>3, <1>4, <1>5 DEF LoadInv, Up, Imports

LEMMA ReimportKeeps ==
    ASSUME LoadInv, NEW m \in {5, 6}, Reimport(m)
    PROVE  LoadInv'
<1> PICK u : u = Now
  OBVIOUS
<1>1. job' = job /\ bind' = u.bind /\ flags' = u.flags /\ Sound(u) /\ u.flags = flags
  BY NowIs DEF Reimport, LoadInv
<1>2. m \in 1..6 /\ mod = 7 /\ mod' = m /\ registered' = registered /\ again' # {}
      /\ ran' = IF Imports[m] \in registered THEN Len(Installers(m)) ELSE 0
  BY UpIs DEF Reimport
<1>3. Sound(Now)'
  BY <1>1, NextNow
<1>4. Whole' => Carried'
  <2> SUFFICES ASSUME Whole PROVE Carried'
    BY <1>1, SameJob
  <2>1. Carried
    BY DEF LoadInv
  <2>2. \A k \in 1..6 : Imports[k] \in registered
    BY <1>2, <2>1 DEF Carried
  <2>3. \A n \in 1..6 : \A q \in 1..Len(Installers(n)) : Gone(n, q)' => Gone(n, q)
    BY <2>2 DEF Gone
  <2>4. (\A k \in 1..6 : Imports[k] \in registered <=> (k < mod \/ again # {}))'
    BY <1>2, <2>2 DEF Imports
  <2>5. (again # {} /\ mod < Up => ran = Len(Installers(mod)))'
    <3>1. ran' = Len(Installers(m))
      BY <1>2, <2>2
    <3> QED
      BY <1>2, <3>1 DEF Installers
  <2>6. Keeps(Now, u, TRUE)
    BY KeepsSame
  <2> QED
    BY <1>1, <2>1, <2>3, <2>4, <2>5, <2>6, CarriedOn
<1>5. job' \in Jobs /\ mod' \in 1..Up /\ ran' \in Nat
  BY <1>1, <1>2, UpIs, InstallersCount DEF LoadInv
<1> QED
  BY <1>3, <1>4, <1>5 DEF LoadInv, Up, Imports

LEMMA ImportOtherKeeps ==
    ASSUME LoadInv, NEW m, ImportOther(m)
    PROVE  LoadInv'
<1> PICK u : u = Imported(Now, m)
  OBVIOUS
<1>1. Sound(u) /\ u.flags = flags /\ Keeps(Now, u, TRUE)
  BY ImportedIs, NowIs DEF LoadInv
<1>2. job' = job /\ bind' = u.bind /\ flags' = u.flags /\ mod' = mod /\ ran' = ran
      /\ registered' = registered /\ again' = again
  BY <1>1 DEF ImportOther
<1>3. Sound(Now)'
  BY <1>1, <1>2, NextNow
<1>4. Whole' => Carried'
  <2> SUFFICES ASSUME Whole PROVE Carried'
    BY <1>2, SameJob
  <2>1. Carried
    BY DEF LoadInv
  <2>2. \A n \in 1..6 : \A q \in 1..Len(Installers(n)) : Gone(n, q)' => Gone(n, q)
    BY <1>2 DEF Gone, Imports
  <2>3. (\A k \in 1..6 : Imports[k] \in registered <=> (k < mod \/ again # {}))'
    BY <1>2, <2>1 DEF Carried, Imports
  <2>4. (again # {} /\ mod < Up => ran = Len(Installers(mod)))'
    BY <1>2, <2>1 DEF Carried, Installers, Up, Imports
  <2> QED
    BY <1>1, <1>2, <2>1, <2>2, <2>3, <2>4, CarriedOn
<1>5. job' \in Jobs /\ mod' \in 1..Up /\ ran' \in Nat
  BY <1>2 DEF LoadInv
<1> QED
  BY <1>3, <1>4, <1>5 DEF LoadInv, Up, Imports

LEMMA InstallKeeps ==
    ASSUME LoadInv, Install
    PROVE  LoadInv'
<1> PICK m, r : m = mod /\ r = ran
  OBVIOUS
<1>1. m \in 1..6 /\ r \in Nat /\ r < Len(Installers(m)) /\ r + 1 \in 1..Len(Installers(m))
  <2>1. m \in 1..6 /\ r \in Nat /\ r < Len(Installers(m))
    BY UpIs DEF Install, LoadInv
  <2> QED
    BY <2>1, InstallersCount
<1> PICK end : end = Run(Installers(m)[r + 1])
  OBVIOUS
<1>2. /\ Leads(Now, end, m # 5)
      /\ Whole /\ FlagsHold(Now) =>
             /\ \A b : InstallerGives(Installers(m)[r + 1], b) => Has(end, b)
             /\ InstallerPosts(Installers(m)[r + 1]) => PostOn(end)
  <2>1. GoodInstaller(Installers(m)[r + 1], m # 5)
    BY <1>1, AllGood DEF LoadInv
  <2> QED
    BY <2>1, RunLeads DEF LoadInv
<1>3. /\ job' = job /\ bind' = end.bind /\ flags' = end.flags
      /\ registered' = registered /\ again' = again
      /\ mod' = IF end.ok THEN mod ELSE AfterImport
      /\ ran' = IF end.ok THEN ran + 1 ELSE 0
  BY DEF Install
<1>4. Sound(end) /\ Keeps(Now, end, m # 5) /\ Sound(Now)'
  BY <1>2, <1>3, NextNow DEF Leads
<1>5. job' \in Jobs /\ mod' \in 1..Up /\ ran' \in Nat
  BY <1>1, <1>3, UpIs DEF LoadInv, AfterImport
<1>6. Whole' => Carried'
  <2> SUFFICES ASSUME Whole PROVE Carried'
    BY <1>3, SameJob
  <2>1. Carried /\ again = {} /\ FlagsHold(Now)
    BY <1>1, UpIs DEF LoadInv, Carried
  <2>2. end.ok /\ FlagsHold(end) /\ mod' = m /\ ran' = r + 1
    BY <1>2, <1>3, <2>1, LeadsHold, NowIs DEF Leads
  <2>3. FlagsHold(Now)'
    BY <1>3, <1>4, <2>2, FlagsStillHold
  <2>4. (\A k \in 1..6 : Imports[k] \in registered <=> (k < mod \/ again # {}))'
    BY <1>3, <2>1, <2>2 DEF Carried, Imports
  <2>5. (again # {} /\ mod < Up => ran = Len(Installers(mod)))'
    BY <1>3, <2>1
  <2>6. \A n \in 1..6 : \A q \in 1..Len(Installers(n)) :
            Gone(n, q)' => Gone(n, q) \/ (n = m /\ q = r + 1)
    <3> SUFFICES ASSUME NEW n \in 1..6, NEW q \in 1..Len(Installers(n)), Gone(n, q)', ~Gone(n, q)
                 PROVE  n = m /\ q = r + 1
      OBVIOUS
    <3>1. q \in Nat
      BY InstallersCount
    <3>2. Imports[n] \notin registered /\ (m = n => ~(q <= r))
      BY DEF Gone
    <3>3. Imports[n] \in registered \/ (m = n /\ q <= r + 1)
      BY <1>3, <2>2 DEF Gone, Imports
    <3> QED
      BY <1>1, <3>1, <3>2, <3>3
  <2>7. (\A n \in 1..6 : \A q \in 1..Len(Installers(n)) :
            Gone(n, q) => \A b : InstallerGives(Installers(n)[q], b) => Has(Now, b))'
    <3> SUFFICES ASSUME NEW n \in 1..6, NEW q \in 1..Len(Installers(n)), Gone(n, q)'
                 PROVE  (\A b : InstallerGives(Installers(n)[q], b) => Has(Now, b))'
      BY InstallersCount
    <3>1. CASE Gone(n, q)
      <4>1. \A b : InstallerGives(Installers(n)[q], b) => Has(Now, b)
        BY <2>1, <3>1 DEF Carried
      <4> QED
        BY <1>3, <1>4, <4>1, StillStands
    <3>2. CASE n = m /\ q = r + 1
      <4>1. \A b : InstallerGives(Installers(n)[q], b) => Has(end, b)
        BY <1>2, <2>1, <3>2
      <4>2. \A b : Has(end, b) => Has(Now, b)'
        BY <1>3, <1>4, NextNow
      <4>3. \A i, b : InstallerGives(i, b)' => InstallerGives(i, b)
        BY <1>3, SameJob
      <4>4. Installers(n)[q]' = Installers(n)[q]
        BY DEF Installers
      <4> SUFFICES ASSUME NEW b, InstallerGives(Installers(n)[q], b)' PROVE Has(Now, b)'
        OBVIOUS
      <4>5. InstallerGives(Installers(n)[q], b)
        BY <4>3, <4>4
      <4> QED
        BY <4>1, <4>2, <4>5
    <3> QED
      BY <2>6, <3>1, <3>2
  <2>8. (Gone(6, 4) /\ Here => PostOn(Now))'
    <3> SUFFICES ASSUME Gone(6, 4)', Here' PROVE PostOn(end)
      BY <1>3, <1>4, NextNow
    <3>1. Here
      BY <1>3, SameJob
    <3>2. 6 \in 1..6 /\ 4 \in 1..Len(Installers(6))
      BY InstallersCount
    <3>3. CASE Gone(6, 4)
      <4>1. Imports[6] \notin registered
        BY <1>1, <2>1, <3>2 DEF Carried
      <4>2. m # 5
        BY <3>3, <4>1 DEF Gone
      <4>3. PostOn(Now)
        BY <2>1, <3>1, <3>3 DEF Carried
      <4> QED
        BY <1>4, <4>2, <4>3 DEF Keeps
    <3>4. CASE 6 = m /\ 4 = r + 1
      BY <1>2, <2>1, <3>1, <3>4, InstallersCount, PostGives
    <3> QED
      BY <2>6, <3>2, <3>3, <3>4
  <2> QED
    BY <2>3, <2>4, <2>5, <2>7, <2>8 DEF Carried
<1> QED
  BY <1>4, <1>5, <1>6 DEF LoadInv, Up, Imports

LEMMA LoadGoesOn ==
    ASSUME LoadInv, [PluginNext]_pluginVars
    PROVE  LoadInv'
<1>1. CASE Install
  BY <1>1, InstallKeeps
<1>2. CASE EndImport
  BY <1>2, EndImportKeeps
<1>3. ASSUME NEW m \in {5, 6}, Reimport(m) PROVE LoadInv'
  BY <1>3, ReimportKeeps
<1>4. ASSUME NEW m \in Importers, ImportOther(m) PROVE LoadInv'
  BY <1>4, ImportOtherKeeps
<1>5. CASE UNCHANGED pluginVars
  <2> PICK u : u = Now
    OBVIOUS
  <2>1. /\ job' = job /\ bind' = u.bind /\ flags' = u.flags /\ mod' = mod /\ ran' = ran
        /\ registered' = registered /\ again' = again /\ Sound(u) /\ u.flags = flags
    BY <1>5, NowIs DEF pluginVars, LoadInv
  <2>2. Sound(Now)'
    BY <2>1, NextNow
  <2>3. Whole' => Carried'
    <3> SUFFICES ASSUME Whole PROVE Carried'
      BY <2>1, SameJob
    <3>1. Carried
      BY DEF LoadInv
    <3>2. \A n \in 1..6 : \A q \in 1..Len(Installers(n)) : Gone(n, q)' => Gone(n, q)
      BY <2>1 DEF Gone, Imports
    <3>3. (\A k \in 1..6 : Imports[k] \in registered <=> (k < mod \/ again # {}))'
      BY <2>1, <3>1 DEF Carried, Imports
    <3>4. (again # {} /\ mod < Up => ran = Len(Installers(mod)))'
      BY <2>1, <3>1 DEF Carried, Installers, Up, Imports
    <3>5. Keeps(Now, u, TRUE)
      BY KeepsSame
    <3> QED
      BY <2>1, <3>1, <3>2, <3>3, <3>4, <3>5, CarriedOn
  <2> QED
    BY <2>1, <2>2, <2>3 DEF LoadInv, Up, Imports
<1> QED
  BY <1>1, <1>2, <1>3, <1>4, <1>5 DEF PluginNext

LEMMA LoadServes ==
    ASSUME LoadInv
    PROVE  EngineServes
<1>1. OffCpuUntouched
  <2> SUFFICES ASSUME "cpu" \notin job.env, NEW b \in DOMAIN bind, NEW h \in ToSet(bind[b]), h.kind = "answer"
               PROVE  h.name \in Allowed
    BY DEF OffCpuUntouched, Allowed
  <2>1. FitPile(bind[b])
    BY NowIs DEF LoadInv, Sound
  <2>2. PICK i \in DOMAIN bind[b] : h = bind[b][i]
    BY DEF ToSet
  <2> QED
    BY <2>1, <2>2 DEF FitPile, Fits
<1>2. ServesOnCpu
  <2> SUFFICES ASSUME mod = Up, Here, Whole
               PROVE  /\ ToSet(Imports) \subseteq registered
                      /\ \A b \in CudaOnly["dsv4"] \cup CudaOnly["glm"] \cup SparseAsked :
                             \E h \in ToSet(Pile(bind, b)) : h.kind # "tap"
                      /\ Head(Pile(bind, Mhc("post"))) = Answer("adaptive_post")
    BY DEF ServesOnCpu, Here, Whole
  <2>1. Carried
    BY DEF LoadInv
  <2>2. \A k \in 1..6 : Imports[k] \in registered
    BY <2>1, UpIs DEF Carried
  <2>3. ToSet(Imports) \subseteq registered
    BY <2>2, UpIs DEF ToSet
  <2>4. ASSUME NEW b \in CudaOnly["dsv4"] \cup CudaOnly["glm"] \cup SparseAsked
        PROVE  \E h \in ToSet(Pile(bind, b)) : h.kind # "tap"
    <3>1. PICK m \in 1..6 : \E r \in 1..Len(Installers(m)) : InstallerGives(Installers(m)[r], b)
      BY TableGives
    <3>2. Has(Now, b)
      BY <2>1, <2>2, <3>1 DEF Carried, Gone
    <3> QED
      BY <3>2, NowIs DEF Has, Solid, ToSet
  <2>5. PostOn(Now)
    BY <2>1, <2>2 DEF Carried, Gone
  <2> QED
    BY <2>3, <2>4, <2>5, NowIs DEF PostOn, Post
<1> QED
  BY <1>1, <1>2 DEF EngineServes

LEMMA LoadInvariant == PluginSpec => []LoadInv
<1>1. PluginInit => LoadInv
  BY LoadBegins
<1>2. LoadInv /\ [PluginNext]_pluginVars => LoadInv'
  BY LoadGoesOn
<1> QED
  BY <1>1, <1>2, PTL DEF PluginSpec

\* An engine loads the plugin, and then runs forwards under its taps.
LEMMA EngineLoads == EngineSpec => PluginSpec
<1>1. EngineInit => PluginInit
  BY DEF EngineInit
<1>2. [EngineNext]_<<captureVars, pluginVars>> => [PluginNext]_pluginVars
  BY DEF EngineNext
<1> QED
  BY <1>1, <1>2, PTL DEF EngineSpec, PluginSpec

\* An engine for the CPU that SGLang lacks nothing for comes up with both
\* models, everything of theirs that only CUDA has is answered for (DSV4's
\* sparse attention if a setting asks for it), and GLM's mhc_post is in force; on a GPU the plugin answers for nothing but what a
\* setting asks for: for every set of settings, of missing names and of modules
\* imported before, whatever is imported in between and imported again.
THEOREM EveryEngineServes == EngineSpec => []EngineServes
  BY LoadInvariant, EngineLoads, LoadServes, PTL

=============================================================================
