------------------------ MODULE DispatchProvenance ------------------------
(***************************************************************************)
(* Which implementation of a hot operator runs, the authored C++ kernel or *)
(* the eager Torch code, and what the provenance file says of it           *)
(* (_dsa_ckernels.py, its callers, check_dispatch_provenance.py).          *)
(*                                                                         *)
(* A worker process serves forwards; most operators ask enabled() at every *)
(* call, which reads a control file again, so that one resident engine can *)
(* be measured both ways: a driver (task_gsm8k_chunked --perf-ck-sweep,    *)
(* paired_eval --ck-sweep) writes the file, generates, and labels the row  *)
(* with what it wrote.  Each call counts itself, then opens the provenance *)
(* file, which truncates it, and writes it again; what goes wrong there is *)
(* swallowed.  A gate reads that file when the engine is gone.  The engine *)
(* has one worker (every job runs --tp 1), which is killed in the end, so  *)
(* that its atexit handler does not run.                                   *)
(*                                                                         *)
(* A counter is kept as whether it is above zero, all the gate tests.      *)
(***************************************************************************)
EXTENDS PairedGate

CONSTANTS
    Options,    \* records: see OptionOK
    Answers,    \* records: see AnswersOK
    AgreeMins,  \* values of --agree-min, in percent
    MaxForwards \* bound: forwards of one generate

Impl == {"c_kernel", "eager"}

\* The operators of a layer, in the order they are called.
Chain == <<"sinkhorn", "combine", "compressor", "indexer", "topk",
           "sparse_attend", "moe">>

HOT_OPS == {Chain[i] : i \in 1..Len(Chain)}

\* The empty string: an environment variable that is not set, a row without
\* a label, a file that has been truncated.
Unset == ""

\* A record of Options: INTEL_CPU_DSV4_CK_STRICT and _CK_CHECK, the master
\* toggle, the overrides per operator ("" when unset), whether a control file
\* is named and what it holds at first, whether a person may write it while
\* the engine serves, the MoE format, whether the shapes suit sparse_attend,
\* whether opening or writing a result file may fail (a full disk, a lost
\* mount), and the values the driver sweeps ("" for no sweep).
OptionOK(o) ==
    /\ o.strict \in BOOLEAN /\ o.check \in BOOLEAN
    /\ o.master \in {"0", "1"} /\ o.over \in [HOT_OPS -> {Unset, "0", "1"}]
    /\ o.file \in BOOLEAN /\ o.first \in {"0", "1"} /\ o.byhand \in BOOLEAN
    /\ o.mxfp4 \in BOOLEAN /\ o.fits \in BOOLEAN /\ o.faulty \in BOOLEAN
    /\ o.sweep \in Seq({Unset, "0", "1"}) /\ Len(o.sweep) > 0

\* A record of Answers: what the eager and the C++ operators answer to each
\* question of the frozen set, of which one answer is the gold one.
AnswersOK(w) ==
    /\ DOMAIN w = Impl
    /\ DOMAIN w["eager"] = DOMAIN w["c_kernel"]
    /\ IsFiniteSet(DOMAIN w["eager"]) /\ DOMAIN w["eager"] # {}
    /\ \A i \in Impl : \A q \in DOMAIN w[i] : w[i][q] \in {"gold", "x", "y", "none"}

ASSUME DispatchAssumption ==
    /\ \A o \in Options : OptionOK(o)
    /\ \A w \in Answers : AnswersOK(w)
    /\ AgreeMins \subseteq 0..100
    /\ MaxForwards \in Nat \ {0}

VARIABLES
    opt,       \* the environment of the job
    ctl,       \* what the control file holds; Unset while it is being rewritten
    installed, \* the MHC operators routed to their kernel when the plugin loaded
    pc,        \* what the worker does: an operator of Chain, a step of one, or
               \* "load", "idle", "dead"
    fw,        \* forwards of the running generate
    marked,    \* the counters above zero
    prov,      \* the provenance file
    dumping,   \* mark() is still to "open" the file, or to "write" it, or "no"
    unopened,  \* the last mark() that is over could not open it
    driver,    \* what the driver does, and at which value of the sweep
    rows,      \* the rows it has saved: label, and what ran
    ran,       \* what has run: <<operator, implementation>>, in all
    rowRan,    \* the same, in the running generate
    returned,  \* operators whose kernel has returned
    failed     \* operators whose kernel has raised or missed its parity check

ghosts == <<ran, rowRan, returned, failed>>
file == <<prov, dumping, unopened>>
vars == <<opt, ctl, installed, pc, fw, marked, file, driver, rows, ghosts>>

NoFile == [file |-> FALSE]
Torn == [file |-> TRUE, text |-> "empty"]
Saved(m) == [file |-> TRUE, text |-> "json", counters |-> m]

-----------------------------------------------------------------------------
(* The toggles. *)

\* Mutant: the environment is read in place of the control file.
MasterFromEnv == opt.master = "1"

\* The master toggle: the control file if one is named.
Master == (IF opt.file THEN ctl ELSE opt.master) = "1"

enabled(op) == IF opt.over[op] # Unset THEN opt.over[op] = "1" ELSE Master

-----------------------------------------------------------------------------
(* Counting. *)

After(op) == LET i == CHOOSE i \in 1..Len(Chain) : Chain[i] = op
             IN  IF i = Len(Chain) THEN "end" ELSE Chain[i + 1]

\* mark(): the counter, then the file, by Truncate and Dump.
mark(op, impl) ==
    /\ marked' = marked \cup {<<op, impl>>}
    /\ dumping' = "open"
    /\ UNCHANGED <<prov, unopened>>

NoMark == UNCHANGED <<marked, file>>

\* The implementation whose result the forward goes on with.
Ran(op, impl) ==
    /\ ran' = ran \cup {<<op, impl>>}
    /\ rowRan' = rowRan \cup {<<op, impl>>}

NotRan == UNCHANGED <<ran, rowRan>>

KernelReturns(op) == returned' = returned \cup {op} /\ UNCHANGED failed

KernelFails(op) == failed' = failed \cup {op} /\ UNCHANGED returned

NoKernel == UNCHANGED <<returned, failed>>

\* prov_dump() opens the file, which truncates it.  If that fails, mark()
\* swallows it, and the file stays what it was.
Truncate ==
    /\ dumping = "open" /\ pc.at # "dead"
    /\ \/ prov' = Torn /\ dumping' = "write" /\ unopened' = FALSE
       \/ opt.faulty /\ UNCHANGED prov /\ dumping' = "no" /\ unopened' = TRUE
    /\ UNCHANGED <<opt, ctl, installed, pc, fw, marked, driver, rows, ghosts>>

\* Mutant: the file is written from the counters before this mark.
DumpBehind ==
    /\ dumping = "write"
    /\ \E op \in HOT_OPS, i \in Impl : prov' = Saved(marked \ {<<op, i>>})
    /\ dumping' = "no"
    /\ UNCHANGED <<opt, ctl, installed, pc, fw, marked, unopened, driver, rows, ghosts>>

\* And writes it, or fails to, which mark() swallows as well.
Dump ==
    /\ dumping = "write" /\ pc.at # "dead"
    /\ prov' = Saved(marked) \/ (opt.faulty /\ prov' = Torn)
    /\ dumping' = "no"
    /\ UNCHANGED <<opt, ctl, installed, pc, fw, marked, unopened, driver, rows, ghosts>>

-----------------------------------------------------------------------------
(* The worker. *)

Step(at, step) == [at |-> at, step |-> step]

\* The worker takes a step of op, which leaves everything else alone.
At(op, step) ==
    /\ pc = Step(op, step) /\ dumping = "no"
    /\ UNCHANGED <<opt, ctl, installed, fw, driver, rows>>

Next1(op) == pc' = Step(After(op), "ask")

\* A forward that raises ends the engine.
Raises(op) == KernelFails(op) /\ pc' = Step("dead", "none") /\ NoMark /\ NotRan

\* Mutant: a kernel that fails gives way to the eager code without a count.
FallBackSilently(op, next) ==
    /\ ~opt.strict
    /\ KernelFails(op) /\ NoMark /\ Ran(op, "eager")
    /\ pc' = next

\* Mutant: strict is not asked.
FallBackAlways(op, next) ==
    /\ KernelFails(op) /\ mark(op, "eager") /\ Ran(op, "eager")
    /\ pc' = next

\* Mutant: the kernel that failed is called again.
FallBackRetries(op, next) ==
    /\ ~opt.strict
    /\ KernelFails(op) /\ NoMark /\ NotRan
    /\ pc' = Step(op, "ask")

\* The except clause around the indexer and around sparse_attend: strict
\* raises, otherwise the eager code runs and is counted.
FallBack(op, next) ==
    \/ opt.strict /\ Raises(op)
    \/ /\ ~opt.strict
       /\ KernelFails(op) /\ mark(op, "eager") /\ Ran(op, "eager")
       /\ pc' = next

\* The plugin loads, and the MHC operators are bound once and for all.
Install ==
    /\ pc.at = "load"
    /\ installed' = {op \in {"sinkhorn", "combine"} : enabled(op)}
    /\ pc' = Step("idle", "none")
    /\ NoMark
    /\ UNCHANGED <<opt, ctl, fw, driver, rows, ghosts>>

\* The operators that count themselves before they call their kernel, and
\* count nothing when they do not call it.
CountedFirst == {"sinkhorn", "combine", "compressor", "moe"}

Routed(op) ==
    CASE op \in {"sinkhorn", "combine"} -> op \in installed
      [] op = "moe" -> opt.mxfp4
      [] OTHER -> enabled(op)

CallCountedFirst(op) ==
    /\ op \in CountedFirst /\ At(op, "ask") /\ NoKernel
    /\ \/ Routed(op) /\ mark(op, "c_kernel") /\ NotRan /\ pc' = Step(op, "call")
       \/ ~Routed(op) /\ NoMark /\ Ran(op, "eager") /\ Next1(op)

ReturnCountedFirst(op) ==
    /\ op \in CountedFirst /\ At(op, "call")
    /\ \/ KernelReturns(op) /\ NoMark /\ Ran(op, "c_kernel") /\ Next1(op)
       \/ Raises(op)

\* No window of the step is full: nothing to compress, index or select.
NoWindow ==
    /\ At("compressor", "ask")
    /\ pc' = Step("sparse_attend", "ask")
    /\ NoMark /\ NotRan /\ NoKernel

AskIndexer ==
    /\ At("indexer", "ask") /\ NoKernel
    /\ \/ /\ enabled("indexer")
          /\ NoMark /\ NotRan /\ pc' = Step("indexer", "call")
       \/ /\ ~enabled("indexer")
          /\ mark("indexer", "eager") /\ Ran("indexer", "eager")
          /\ pc' = Step("topk", "eager")

\* indexer_logits asks again before it calls the kernel.
CallIndexer ==
    /\ At("indexer", "call")
    /\ \/ /\ enabled("indexer")
          /\ KernelReturns("indexer") /\ mark("indexer", "c_kernel") /\ NotRan
          /\ pc' = Step("indexer", "check")
       \/ enabled("indexer") /\ FallBack("indexer", Step("topk", "eager"))
       \/ /\ ~enabled("indexer")
          /\ NoKernel /\ NoMark /\ Ran("indexer", "eager")
          /\ pc' = Step("topk", "ask")

CheckIndexer ==
    /\ At("indexer", "check")
    /\ \/ NoKernel /\ NoMark /\ Ran("indexer", "c_kernel") /\ pc' = Step("topk", "ask")
       \/ opt.check /\ FallBack("indexer", Step("topk", "eager"))

CallTopk ==
    /\ At("topk", "ask")
    /\ \/ /\ enabled("topk")
          /\ KernelReturns("topk") /\ mark("topk", "c_kernel") /\ NotRan
          /\ pc' = Step("topk", "check")
       \/ enabled("topk") /\ Raises("topk")
       \/ ~enabled("topk") /\ NoKernel /\ NoMark /\ Ran("topk", "eager") /\ Next1("topk")

\* The kernel is called a second time, and compared when asked to.
CheckTopk ==
    /\ At("topk", "check")
    /\ \/ NoKernel /\ NoMark /\ Ran("topk", "c_kernel") /\ Next1("topk")
       \/ Raises("topk")

EagerTopk ==
    /\ At("topk", "eager") /\ NoKernel
    /\ mark("topk", "eager") /\ Ran("topk", "eager") /\ Next1("topk")

\* Mutant: sparse_attend counts itself before it calls its kernel.
CallSparseMarksFirst ==
    /\ At("sparse_attend", "ask")
    /\ \/ /\ enabled("sparse_attend") /\ opt.fits
          /\ NoKernel /\ mark("sparse_attend", "c_kernel") /\ NotRan
          /\ pc' = Step("sparse_attend", "check")
       \/ /\ ~(enabled("sparse_attend") /\ opt.fits)
          /\ NoKernel /\ mark("sparse_attend", "eager") /\ Ran("sparse_attend", "eager")
          /\ Next1("sparse_attend")

CallSparse ==
    /\ At("sparse_attend", "ask")
    /\ \/ /\ enabled("sparse_attend") /\ opt.fits
          /\ \/ /\ KernelReturns("sparse_attend")
                /\ mark("sparse_attend", "c_kernel") /\ NotRan
                /\ pc' = Step("sparse_attend", "check")
             \/ FallBack("sparse_attend", Step("moe", "ask"))
       \/ /\ ~(enabled("sparse_attend") /\ opt.fits)
          /\ NoKernel /\ mark("sparse_attend", "eager") /\ Ran("sparse_attend", "eager")
          /\ Next1("sparse_attend")

CheckSparse ==
    /\ At("sparse_attend", "check")
    /\ \/ /\ NoKernel /\ NoMark /\ Ran("sparse_attend", "c_kernel")
          /\ Next1("sparse_attend")
       \/ opt.check /\ FallBack("sparse_attend", Step("moe", "ask"))

\* The end of a layer: another forward of the generate, or the answer.
EndForward ==
    /\ pc = Step("end", "ask") /\ dumping = "no"
    /\ \/ fw < MaxForwards /\ fw' = fw + 1 /\ pc' = Step(Chain[1], "ask")
       \/ fw' = 0 /\ pc' = Step("idle", "none")
    /\ NoMark
    /\ UNCHANGED <<opt, ctl, installed, driver, rows, ghosts>>

\* The engine is killed (a wall-clock limit): no atexit runs.
Kill ==
    /\ pc.at # "dead" /\ driver.does # "done"
    /\ pc' = Step("dead", "none")
    /\ UNCHANGED <<opt, ctl, installed, fw, marked, file, driver, rows, ghosts>>

-----------------------------------------------------------------------------
(* The driver, or a person at the control file. *)

Label == opt.sweep[driver.at]

Drive(does, at) == driver' = [does |-> does, at |-> at]

\* The file is opened, which truncates it, and then written.  Without a file,
\* or without a sweep, nothing is written and the row has its label all the
\* same.
TruncateLeg ==
    /\ driver.does = "leg" /\ pc.at = "idle"
    /\ \/ /\ opt.file /\ Label # Unset
          /\ ctl' = Unset /\ Drive("fill", driver.at)
       \/ /\ ~(opt.file /\ Label # Unset)
          /\ UNCHANGED ctl /\ Drive("ask", driver.at)
    /\ NoMark
    /\ UNCHANGED <<opt, installed, pc, fw, rows, ghosts>>

FillLeg ==
    /\ driver.does = "fill"
    /\ ctl' = Label /\ Drive("ask", driver.at)
    /\ NoMark
    /\ UNCHANGED <<opt, installed, pc, fw, rows, ghosts>>

\* engine.generate() is called, and returns when the answers are there.
Generate ==
    /\ driver.does = "ask" /\ pc.at = "idle"
    /\ pc' = Step(Chain[1], "ask") /\ fw' = 1
    /\ Drive("wait", driver.at)
    /\ rowRan' = {}
    /\ NoMark
    /\ UNCHANGED <<opt, ctl, installed, rows, ran, returned, failed>>

\* Mutant: the sweep goes one value past its end.
SaveRowOneMore ==
    /\ driver.does = "wait" /\ pc.at = "idle"
    /\ rows' = rows \cup {[ck |-> Label, ran |-> rowRan]}
    /\ IF driver.at <= Len(opt.sweep) THEN Drive("leg", driver.at + 1)
                                      ELSE Drive("done", driver.at)
    /\ NoMark
    /\ UNCHANGED <<opt, ctl, installed, pc, fw, ghosts>>

SaveRow ==
    /\ driver.does = "wait" /\ pc.at = "idle"
    /\ rows' = rows \cup {[ck |-> Label, ran |-> rowRan]}
    /\ IF driver.at < Len(opt.sweep) THEN Drive("leg", driver.at + 1)
                                     ELSE Drive("done", driver.at)
    /\ NoMark
    /\ UNCHANGED <<opt, ctl, installed, pc, fw, ghosts>>

\* A person at the control file, who waits for nothing.
WriteByHand ==
    /\ opt.byhand /\ opt.file /\ pc.at # "dead" /\ driver.does # "done"
    /\ ctl' \in (IF ctl = Unset THEN {"0", "1"} ELSE {Unset})
    /\ NoMark
    /\ UNCHANGED <<opt, installed, pc, fw, driver, rows, ghosts>>

-----------------------------------------------------------------------------
(* The gate. *)

\* Mutant: an operator that ran both ways is taken for the kernel's.
GapsKernelWins(counters) ==
    {op \in HOT_OPS : <<op, "eager">> \in counters /\ <<op, "c_kernel">> \notin counters}

\* The wiring gaps.  An operator without a count is "not exercised", which is
\* reported and is not a gap; one that was counted, and never in C, ran eager.
Gaps(counters) == {op \in HOT_OPS : <<op, "eager">> \in counters}

\* The exit status is 0; a file that is not JSON raises.
GatePasses == prov.file /\ prov.text = "json" /\ Gaps(prov.counters) = {}

-----------------------------------------------------------------------------
(* The paired evaluation (paired_eval.py, paired_analyze.py): the driver's *)
(* rows as legs, when what it asked is a frozen set of questions.          *)

\* The operators that ask for the toggle at every call.
Toggled == {"compressor", "indexer", "topk", "sparse_attend"}

\* The records of a row: the answers of the implementation it ran; where it
\* ran both, an answer may be anything.
Recs(r, w) ==
    LET impls == {i \in Impl : \E op \in Toggled : <<op, i>> \in r.ran}
        pred(q) == IF Cardinality(impls) = 1 THEN w[CHOOSE i \in impls : TRUE][q] ELSE "x"
    IN  [q \in DOMAIN w["eager"] |-> [pred |-> pred(q), correct |-> pred(q) = "gold"]]

\* A leg on another device that has answered the questions qs.
GpuLeg(qs) == [name |-> "gpu", recs |-> [q \in qs |-> [pred |-> "gold", correct |-> TRUE]]]

-----------------------------------------------------------------------------
Init ==
    /\ opt \in Options
    /\ ctl = opt.first
    /\ installed = {}
    /\ pc = Step("load", "none")
    /\ fw = 0
    /\ marked = {}
    /\ prov = NoFile
    /\ dumping = "no" /\ unopened = FALSE
    /\ driver = [does |-> "leg", at |-> 1]
    /\ rows = {}
    /\ ran = {} /\ rowRan = {} /\ returned = {} /\ failed = {}

Worker ==
    \/ Install \/ Truncate \/ Dump \/ NoWindow \/ EndForward
    \/ \E op \in HOT_OPS : CallCountedFirst(op) \/ ReturnCountedFirst(op)
    \/ AskIndexer \/ CallIndexer \/ CheckIndexer
    \/ CallTopk \/ CheckTopk \/ EagerTopk
    \/ CallSparse \/ CheckSparse

Driver == TruncateLeg \/ FillLeg \/ Generate \/ SaveRow

Next == Worker \/ Driver \/ Kill \/ WriteByHand

Spec == Init /\ [][Next]_vars

\* The worker and the driver run; a kill or a hand at the file need not come.
FairSpec == Spec /\ WF_vars(Worker) /\ WF_vars(Driver)

-----------------------------------------------------------------------------
(* Correctness. *)

TypeOK ==
    /\ opt \in Options
    /\ ctl \in {Unset, "0", "1"}
    /\ installed \subseteq {"sinkhorn", "combine"}
    /\ pc \in [at : HOT_OPS \cup {"load", "idle", "end", "dead"},
              step : {"none", "ask", "call", "check", "eager"}]
    /\ fw \in 0..MaxForwards
    /\ marked \subseteq HOT_OPS \X Impl
    /\ prov \in {NoFile, Torn} \cup {Saved(m) : m \in SUBSET marked}
    /\ dumping \in {"no", "open", "write"} /\ unopened \in BOOLEAN
    /\ driver.does \in {"leg", "fill", "ask", "wait", "done"}
    /\ driver.at \in 1..Len(opt.sweep)
    /\ ran \subseteq HOT_OPS \X Impl /\ rowRan \subseteq ran
    /\ returned \subseteq HOT_OPS /\ failed \subseteq HOT_OPS

\* An operator that counts itself in C has had a result from its kernel, even
\* where the count comes first: only a forward that is still in the call, or
\* that the failure of the kernel has ended, is counted without one
\* (indexer_logits, indexer_topk and sparse_attend_masked count "after
\* success"; the others before).
CountMeansReturned ==
    \A op \in HOT_OPS :
        <<op, "c_kernel">> \in marked =>
            op \in returned \/ pc.at = op \/ pc.at = "dead"

\* The operators that count their eager code leave no eager run uncounted,
\* whichever of the kernel, its parity check or the toggle sent them there, as
\* long as nobody writes the control file during a forward and the indexer and
\* its top-k are not overridden apart.
EagerIsCounted ==
    ~opt.byhand => \A op \in {"indexer", "topk", "sparse_attend"} :
        <<op, "eager">> \in ran =>
            \/ <<op, "eager">> \in marked
            \/ op = "topk" /\ opt.over["topk"] # opt.over["indexer"]

\* A provenance file that can be parsed never tells more than the counters,
\* and tells as much as soon as the mark() that is running has opened it: a
\* kill leaves it behind by that one call, or leaves nothing to parse, and
\* then the gate raises.  Only a mark() that could not open the file, which
\* it swallows, leaves an old file in place.
FileIsCurrent ==
    prov.file /\ prov.text = "json" =>
        /\ prov.counters \subseteq marked
        /\ ~unopened /\ dumping = "open" => \E x \in marked : marked \subseteq prov.counters \cup {x}
        /\ ~unopened /\ dumping # "open" => prov.counters = marked

\* What a gate that passes does certify, if the last call could open the file:
\* with no override per operator, with the native MoE and the MHC kernels
\* bound at load, a run whose gate passes ran nothing eager, in any leg,
\* though four of the operators never count their eager code: the ones that do
\* are toggled together with them.
GateCertifies ==
    /\ driver.does = "done" /\ GatePasses /\ ~unopened
    /\ opt.mxfp4 /\ ~opt.byhand /\ installed = {"sinkhorn", "combine"}
    /\ \A op \in HOT_OPS : opt.over[op] = Unset
    => \A op \in HOT_OPS : <<op, "eager">> \notin ran

\* A run in strict mode that completes has had no kernel fail, nor miss its
\* parity check, in any operator.
StrictCompletesClean ==
    opt.strict /\ driver.does = "done" => failed = {}

\* The held-fixed comparison on one resident engine: in a row labelled 0 no
\* operator that asks at every call ran its kernel, and in a row labelled 1
\* none ran eager in a strict run.
RowMatchesLabel ==
    opt.file /\ ~opt.byhand =>
    \A r \in rows, op \in Toggled :
        opt.over[op] = Unset =>
            /\ r.ck = "0" => <<op, "c_kernel">> \notin r.ran
            /\ r.ck = "1" /\ opt.strict /\ opt.fits /\ opt.over["indexer"] # "0"
               => <<op, "eager">> \notin r.ran

\* The gate of the paired evaluation, on the two legs of a strict sweep of one
\* engine whose toggles all follow the control file: it exits 0 when the two
\* implementations answer alike, in whichever order the legs are named and
\* whether or not a third leg is named with them; and never when they differ
\* on more questions than agreed, or when one is significantly the better.
PairedGateIsAboutKernels ==
    opt.file /\ ~opt.byhand /\ opt.strict /\ opt.fits
    /\ (\A op \in HOT_OPS : opt.over[op] = Unset) =>
    \A w \in Answers, least \in AgreeMins, r, s \in rows :
        r.ck = "0" /\ s.ck = "1" =>
        LET qs == DOMAIN w["eager"]
            e  == [name |-> "cpu_eager", recs |-> Recs(r, w)]
            c  == [name |-> "cpu_c", recs |-> Recs(s, w)]
            differ == {q \in qs : w["eager"][q] # w["c_kernel"][q]}
            better(i, j) == Cardinality({q \in qs : w[i][q] = "gold" /\ w[j][q] # "gold"})
            alike == /\ 100 * Cardinality(differ) <= (100 - least) * Cardinality(qs)
                     /\ better("eager", "c_kernel") + better("c_kernel", "eager") < 6
            apart == \/ 100 * Cardinality(differ) > (100 - least) * Cardinality(qs)
                     \/ /\ better("eager", "c_kernel") + better("c_kernel", "eager") >= 6
                        /\ 0 \in {better("eager", "c_kernel"), better("c_kernel", "eager")}
        IN  \A legs \in {<<e, c>>, <<c, e>>, <<GpuLeg(qs), c, e>>, <<e, GpuLeg(qs), c>>} :
                /\ alike => PairedExit(legs, least) = 0
                /\ apart => PairedExit(legs, least) = 1

\* The sweep ends, or the engine has died: no fall-back of an operator keeps
\* a forward from its end.
SweepEnds == <>(driver.does = "done" \/ pc.at = "dead")

\* The counters mean what the gate takes them for: C that has returned, eager
\* that has run.
CountsExact == TypeOK /\ CountMeansReturned /\ EagerIsCounted

\* What is read off the files of a run, and off its end, is what ran: the rows
\* of the sweep under their labels, the counters in the provenance file, the
\* gate that passes and the strict run that completes.
RecordsExact == RowMatchesLabel /\ FileIsCurrent /\ GateCertifies /\ StrictCompletesClean

=============================================================================
