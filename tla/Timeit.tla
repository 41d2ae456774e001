------------------------------- MODULE Timeit -------------------------------
(***************************************************************************)
(* The wall-time counters of a resident engine (INTEL_CPU_DSV4_TIMEIT): a  *)
(* wrapper around each timed operator adds what passed between its entry   *)
(* and its exit to a total per operator and phase; after every forward the *)
(* totals are written over a JSON file, if that can be opened, from which  *)
(* a chart reads the wall time of a phase, the share of each operator and, *)
(* as what is left, OTHER.                                                 *)
(*                                                                         *)
(* The counters watch the worker of DispatchProvenance.  Time passes when  *)
(* the worker leaves an operator of the chain, one tick each.              *)
(***************************************************************************)
EXTENDS DispatchProvenance, Functions

VARIABLES
    open,   \* for each timer that runs, the ticks since it was started
    times,  \* _TIMES: the totals, by timer and phase
    json,   \* the JSON file: the totals it holds, or Torn
    stale,  \* the last forward to end could not open it
    ticks   \* the ticks of each phase (a ghost)

timeVars == <<open, times, json, stale, ticks>>

Phases == {"pf", "dec"}

Timers == {"layer.total", "mhc.hc_pre", "mhc.sinkhorn", "mhc.combine", "dsa.compressor",
           "dsa.indexer", "dsa.mla_attention", "mla.b", "moe.forward", "moe.expert_apply"}

\* The timers around an operator, outermost first; "mla.b" stands for the
\* consecutive intervals that split the attention.
Around(op) ==
    CASE op = "sinkhorn"           -> <<"layer.total", "mhc.hc_pre", "mhc.sinkhorn">>
      [] op = "combine"            -> <<"layer.total", "mhc.hc_pre", "mhc.combine">>
      [] op = "compressor"         -> <<"layer.total", "dsa.compressor">>
      [] op \in {"indexer", "topk"} -> <<"layer.total", "dsa.indexer">>
      [] op = "sparse_attend"      -> <<"layer.total", "dsa.mla_attention", "mla.b">>
      [] op = "moe"                -> <<"layer.total", "moe.forward", "moe.expert_apply">>
      [] OTHER                     -> <<>>

Running(op) == {Around(op)[i] : i \in 1..Len(Around(op))}

\* _TIMES_KIND.  The MHC operators are wrapped again, as "ckernel", when their
\* kernel is bound.
Kind(x) ==
    CASE x \in {"layer.total", "dsa.mla_attention", "moe.forward"} -> "parent"
      [] x = "mhc.sinkhorn" /\ "sinkhorn" \in installed            -> "ckernel"
      [] x = "mhc.combine" /\ "combine" \in installed              -> "ckernel"
      [] x \in {"mla.b", "moe.expert_apply"}                       -> "kernel"
      [] OTHER                                                     -> "torch"

\* _PHASE: the forward mode of the running forward.
Phase == IF fw = 1 THEN "pf" ELSE "dec"

NoTimes == [x \in Timers |-> [p \in Phases |-> 0]]

Written(t) == [file |-> TRUE, text |-> "json", times |-> t]

-----------------------------------------------------------------------------
(* The timers, at a step of the worker from one operator to another. *)

\* Mutant: an exception leaves no time behind.
StoppedUnlessRaised(from, to) == IF to = "dead" THEN {} ELSE DOMAIN open \ Running(to)

\* The timers that add their interval.  _timed does so in a finally clause;
\* _tacc, which keeps the intervals "mla.b", is not reached by an exception.
Stopped(from, to) ==
    IF to = "dead" THEN DOMAIN open \ {"mla.b"} ELSE DOMAIN open \ Running(to)

\* Mutant: a timer that goes on is started again by each operator inside it.
KeptRunningRestarts(from, to) == [x \in Running(to) |-> 0]

\* The timers that run on, and those that start.
KeptRunning(from, to) ==
    [x \in Running(to) |-> IF x \in DOMAIN open THEN open[x] + 1 ELSE 0]

\* _tacc: the interval is added to the total under the current phase.
Total(x) == [times[x] EXCEPT ![Phase] = @ + open[x] + 1]

\* _dump_times_json, in a finally clause of the forward: the file is opened,
\* which truncates it, and written; either may fail, which is swallowed.
Opens ==
    \/ json' = Torn /\ stale' = FALSE
    \/ opt.faulty /\ UNCHANGED json /\ stale' = TRUE

Writes ==
    /\ \/ ~stale /\ json' = Written(times)
       \/ ~stale /\ opt.faulty /\ json' = Torn
       \/ stale /\ UNCHANGED json
    /\ UNCHANGED stale

\* A forward that raises gets as far as that, or is killed on the way.
RaisedWrites ==
    \/ json' \in {Written(times'), Torn} /\ stale' = FALSE
    \/ opt.faulty /\ UNCHANGED json /\ stale' = TRUE

\* A step of the worker.
Observe ==
    IF pc'.at = pc.at
    THEN UNCHANGED timeVars
    ELSE LET from == pc.at
             to   == pc'.at
             inOp == from \in HOT_OPS
         IN  /\ open' = KeptRunning(from, to)
             /\ times' = IF inOp
                         THEN [x \in Timers |->
                                 IF x \in Stopped(from, to) THEN Total(x) ELSE times[x]]
                         ELSE times
             /\ ticks' = IF inOp THEN [ticks EXCEPT ![Phase] = @ + 1] ELSE ticks
             /\ \/ to = "end" /\ Opens
                \/ from = "end" /\ Writes
                \/ inOp /\ to = "dead" /\ RaisedWrites
                \/ /\ ~(to = "end" \/ from = "end" \/ (inOp /\ to = "dead"))
                   /\ UNCHANGED <<json, stale>>

TimedInit ==
    /\ Init
    /\ open = [x \in {} |-> 0]
    /\ times = NoTimes
    /\ json = NoFile /\ stale = FALSE
    /\ ticks = [p \in Phases |-> 0]

TimedNext ==
    \/ (Worker \/ Driver) /\ Observe
    \/ (Kill \/ WriteByHand) /\ UNCHANGED timeVars

TimedSpec ==
    /\ TimedInit /\ [][TimedNext]_<<vars, timeVars>>
    /\ WF_<<vars, timeVars>>(Worker /\ Observe) /\ WF_<<vars, timeVars>>(Driver /\ Observe)

-----------------------------------------------------------------------------
(* The file, as _dump_times_json writes it. *)

\* What the timers xs have counted in a phase.
Counted(t, p, xs) == SumFunction([x \in xs |-> t[x][p]])

\* Mutant: the wall time of a phase is the sum of its parents.
WallSum(t, p) == Counted(t, p, {x \in Timers : Kind(x) = "parent"})

\* wall_s: the largest parent.
Wall(t, p) == Max({t[x][p] : x \in {y \in Timers : Kind(y) = "parent"}})

\* ops: "ckernel" is none of the buckets.
Listed == {x \in Timers : Kind(x) \in {"kernel", "torch", "framework"}}

\* What the chart shows as OTHER.
Other(t, p) == Wall(t, p) - Counted(t, p, Listed)

-----------------------------------------------------------------------------
(* Correctness. *)

\* The leaf operators that run inside another leaf: their time is counted
\* twice, unless a bound kernel takes them off the list.
CountedTwice(t, p) == Counted(t, p, {"mhc.sinkhorn", "mhc.combine"} \cap Listed)

\* The file accounts for the time of every forward that has ended, each tick
\* once: the wall time is the phase's ticks, whichever forwards are prefills,
\* and what the listed operators leave of it is what they count twice, or the
\* one interval an exception in the attention has cost.  A kill loses the
\* running forward at most, or the whole file.  A file that the last forward
\* could not open is an old one, and accounts for the forwards up to then.
TimesExact ==
    json.file /\ json.text = "json" =>
    \A p \in Phases :
        LET t == json.times
        IN  /\ Wall(t, p) = t["layer.total"][p]
            /\ ticks[p] - Wall(t, p) >= 0
            /\ ~stale =>
                  ticks[p] - Wall(t, p) <= (IF pc.at \in {"idle", "load"} THEN 0 ELSE Len(Chain))
            /\ Other(t, p) + CountedTwice(t, p) \in
                  (IF pc.at = "dead" /\ "sparse_attend" \in failed THEN {0, 1} ELSE {0})

\* What is read off the files of a run is what ran: rows, counters and times.
ReadingsExact == RecordsExact /\ TimesExact

=============================================================================
