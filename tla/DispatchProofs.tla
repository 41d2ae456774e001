--------------------------- MODULE DispatchProofs ---------------------------
(***************************************************************************)
(* What is read off the files of a resident engine is what ran, for every  *)
(* environment, sweep and number of forwards: the counters (CountsExact),  *)
(* the rows, the gate and the strict mode (RecordsExact), the wall times   *)
(* (TimesExact) and the exit status of the paired evaluation               *)
(* (PairedGateIsAboutKernels).  And the kernels that are dispatched to do  *)
(* not depend on how their loops are cut, and compute what they stand for  *)
(* (CutsExact), for every shape, input, thread count and schedule.         *)
(*                                                                         *)
(* DispatchInv follows the worker and the driver together: what the worker *)
(* found the toggles to be is still so where it acts on it, because the    *)
(* control file changes between generates only.  TimeInv follows what the  *)
(* timers would have counted if they stopped now.  Over are the tasks of a *)
(* kernel's loop that have run: the cells that are filled are theirs.      *)
(* CellsHeld says what they hold; it rests on what the folds of a kernel   *)
(* carry after each key: the weights of the keys so far, at the scale of   *)
(* the greatest (Carries).                                                 *)
(* Attended adds that no forward passes over its sparse attention, so that *)
(* a row has run one form of it and its records are that form's answers.   *)
(***************************************************************************)
EXTENDS Timeit, ParallelKernels, TLAPS, WellFoundedInduction, FiniteSetTheorems

-----------------------------------------------------------------------------
(* The operators, as a set and in their order. *)

\* The operators of HOT_OPS, written out.
Ops == {"sinkhorn", "combine", "compressor", "indexer", "topk", "sparse_attend", "moe"}

\* A toggle that is not set reads as neither value.
LEMMA UnsetIs == Unset \notin {"0", "1"}
  BY Zenon DEF Unset

\* The chain holds exactly the seven operators.
LEMMA HotOps == HOT_OPS = Ops
<1>1. Len(Chain) = 7
  BY DEF Chain
<1>2. 1..7 = {1, 2, 3, 4, 5, 6, 7}
  OBVIOUS
<1>3. /\ Chain[1] = "sinkhorn" /\ Chain[2] = "combine" /\ Chain[3] = "compressor"
      /\ Chain[4] = "indexer" /\ Chain[5] = "topk" /\ Chain[6] = "sparse_attend" /\ Chain[7] = "moe"
  BY DEF Chain
<1> QED
  BY <1>1, <1>2, <1>3 DEF HOT_OPS, Ops

\* A forward begins at the sinkhorn.
LEMMA FirstOp == Chain[1] = "sinkhorn"
  BY DEF Chain

\* The order of the operators in a layer.
LEMMA NextOps ==
    /\ After("sinkhorn") = "combine" /\ After("combine") = "compressor"
    /\ After("compressor") = "indexer" /\ After("indexer") = "topk"
    /\ After("topk") = "sparse_attend"
    /\ After("sparse_attend") = "moe" /\ After("moe") = "end"
<1>1. Len(Chain) = 7
  BY DEF Chain
<1>2. /\ Chain[1] = "sinkhorn" /\ Chain[2] = "combine" /\ Chain[3] = "compressor"
      /\ Chain[4] = "indexer" /\ Chain[5] = "topk" /\ Chain[6] = "sparse_attend" /\ Chain[7] = "moe"
  BY DEF Chain
<1>3. ASSUME NEW k \in 1..7 PROVE After(Chain[k]) = IF k = 7 THEN "end" ELSE Chain[k + 1]
  <2> DEFINE place == CHOOSE i \in 1..Len(Chain) : Chain[i] = Chain[k]
  <2>1. place = k
    BY <1>1, <1>2
  <2>2. After(Chain[k]) = IF place = Len(Chain) THEN "end" ELSE Chain[place + 1]
    BY DEF After
  <2> QED
    BY <1>1, <2>1, <2>2
<1> QED
  BY <1>2, <1>3

-----------------------------------------------------------------------------
(* The inductive invariant of the worker and the driver. *)

\* Where the driver can be while the worker is there; and a mark() is over
\* before its forward is.
Control ==
    /\ pc.at \in Ops \cup {"end"} => driver.does = "wait"
    /\ pc.at = "load" => driver.does = "leg" /\ ran = {}
    /\ driver.does = "done" => pc.at # "dead"
    /\ dumping # "no" => pc.at \in Ops \cup {"end", "dead"}

\* What the worker has found the toggles to be, where it goes on from it.
Asked ==
    ~opt.byhand =>
        /\ pc.at \in Toggled /\ pc.step \in {"call", "check"} => enabled(pc.at)
        /\ pc = Step("sparse_attend", "check") => opt.fits
        /\ pc = Step("topk", "ask") => enabled("indexer")
        /\ pc = Step("topk", "eager") => ~(opt.strict /\ enabled("indexer"))

\* A counter in C is above zero: the kernel has returned, or the call that
\* counted itself first is still on, or has ended the engine.
CountedInC ==
    \A op \in Ops : <<op, "c_kernel">> \in marked =>
        \/ op \in returned
        \/ op \in CountedFirst /\ pc = Step(op, "call")
        \/ pc.at = "dead"

\* Eager code is in the counter of an operator that counts it, but for a top-k
\* that is toggled apart from its indexer, which counts by the indexer's toggle.
CountedEager ==
    ~opt.byhand =>
        /\ \A op \in {"indexer", "sparse_attend"} :
              <<op, "eager">> \in ran => <<op, "eager">> \in marked
        /\ <<"topk", "eager">> \in ran =>
              <<"topk", "eager">> \in marked \/ opt.over["topk"] # opt.over["indexer"]

\* The operators that do not count their eager code.
Uncounted ==
    /\ \A op \in {"sinkhorn", "combine"} :
          <<op, "eager">> \in ran => op \notin installed /\ pc.at # "load"
    /\ <<"moe", "eager">> \in ran => ~opt.mxfp4
    /\ <<"compressor", "eager">> \in ran /\ ~opt.byhand
       /\ opt.over["compressor"] = opt.over["sparse_attend"] =>
          \/ <<"sparse_attend", "eager">> \in marked
          \/ pc.at = "dead"
          \/ pc.at \in {"indexer", "topk", "sparse_attend"} /\ ~enabled("compressor")

\* Under strict a kernel that fails ends the engine.
Clean == opt.strict => failed = {} \/ pc.at = "dead"

\* The control file holds what the running row will be labelled with.
LabelHeld ==
    opt.file /\ ~opt.byhand /\ driver.does \in {"ask", "wait"} /\ Label # Unset => ctl = Label

\* What a row with the label may have run.
RowOK(label, what) ==
    \A op \in Toggled :
        opt.over[op] = Unset =>
            /\ label = "0" => <<op, "c_kernel">> \notin what
            /\ label = "1" /\ opt.strict /\ opt.fits /\ opt.over["indexer"] # "0"
               => <<op, "eager">> \notin what

\* The running row, and the rows that are saved, ran what their label allows.
RowSoFar == opt.file /\ ~opt.byhand /\ driver.does = "wait" => RowOK(Label, rowRan)
RowsOK == opt.file /\ ~opt.byhand => \A r \in rows : RowOK(r.ck, r.ran)

\* The inductive invariant.
DispatchInv ==
    /\ TypeOK /\ Control /\ Asked /\ CountedInC /\ CountedEager /\ Uncounted /\ Clean
    /\ FileIsCurrent /\ LabelHeld /\ RowSoFar /\ RowsOK

-----------------------------------------------------------------------------
(* The worker. *)

\* A step inside an operator: what every such step leaves alone, and the only
\* ways it counts, runs code and comes back from a kernel.
Accounted(op) ==
    /\ pc.at = op /\ dumping = "no"
    /\ UNCHANGED <<opt, ctl, installed, fw, driver, rows>>
    /\ NoMark \/ \E i \in Impl : mark(op, i)
    /\ NotRan \/ \E i \in Impl : Ran(op, i)
    /\ \/ NoKernel
       \/ KernelReturns(op)
       \/ KernelFails(op) /\ (opt.strict => pc'.at = "dead")
    /\ pc' \in [at : HOT_OPS \cup {"end", "dead"},
                step : {"none", "ask", "call", "check", "eager"}]

\* The other operators' counters in C stay true through a step of op.
LEMMA CountedKeeps ==
    ASSUME CountedInC, NEW op \in Ops, Accounted(op),
           <<op, "c_kernel">> \in marked' =>
               \/ op \in returned'
               \/ op \in CountedFirst /\ pc' = Step(op, "call")
               \/ pc'.at = "dead"
    PROVE  CountedInC'
<1> SUFFICES ASSUME NEW o \in Ops, <<o, "c_kernel">> \in marked', o # op
             PROVE  o \in returned'
  BY DEF CountedInC
<1>1. <<o, "c_kernel">> \in marked
  BY DEF Accounted, NoMark, mark, file
<1>2. o \in returned
  BY <1>1 DEF CountedInC, Accounted, Step, Ops
<1> QED
  BY <1>2 DEF Accounted, NoKernel, KernelReturns, KernelFails

\* The values of the environment and of the sweep.
LEMMA Overrides ==
    ASSUME TypeOK
    PROVE  /\ \A op \in Ops : opt.over[op] \in {Unset, "0", "1"}
           /\ opt.master \in {"0", "1"} /\ opt.first \in {"0", "1"}
           /\ \A i \in 1..Len(opt.sweep) : opt.sweep[i] \in {Unset, "0", "1"}
           /\ Len(opt.sweep) \in Nat \ {0} /\ opt.byhand \in BOOLEAN
           /\ opt.file \in BOOLEAN /\ opt.strict \in BOOLEAN
<1>1. OptionOK(opt)
  BY DispatchAssumption DEF TypeOK
<1> QED
  BY <1>1, HotOps DEF OptionOK

\* The parts of the invariant every step inside an operator keeps.
LEMMA AccountedKeeps ==
    ASSUME TypeOK, Control, Clean, FileIsCurrent, LabelHeld, RowsOK,
           NEW op \in Ops, Accounted(op)
    PROVE  (TypeOK /\ Control /\ Clean /\ FileIsCurrent /\ LabelHeld /\ RowsOK)'
<1> USE DEF Accounted, NoMark, mark, file, NotRan, Ran, NoKernel, KernelReturns, KernelFails
<1>1. driver.does = "wait"
  BY DEF Control
<1>2. TypeOK'
  <2>1. /\ opt' \in Options /\ ctl' \in {Unset, "0", "1"}
        /\ installed' \subseteq {"sinkhorn", "combine"} /\ fw' \in 0..MaxForwards
        /\ driver'.does \in {"leg", "fill", "ask", "wait", "done"}
        /\ (driver.at \in 1..Len(opt.sweep))'
    BY DEF TypeOK
  <2>2. (pc \in [at : HOT_OPS \cup {"load", "idle", "end", "dead"},
                 step : {"none", "ask", "call", "check", "eager"}])'
    OBVIOUS
  <2>3. /\ marked' \subseteq HOT_OPS \X Impl
        /\ dumping' \in {"no", "open", "write"} /\ unopened' \in BOOLEAN
    <3>1. CASE NoMark
      BY <3>1 DEF TypeOK
    <3>2. CASE \E i \in Impl : mark(op, i)
      BY <3>2, HotOps DEF TypeOK
    <3> QED
      BY <3>1, <3>2
  <2>4. (prov \in {NoFile, Torn} \cup {Saved(m) : m \in SUBSET marked})'
    BY DEF TypeOK, Saved, Torn, NoFile
  <2>5. (ran \subseteq HOT_OPS \X Impl /\ rowRan \subseteq ran)'
    BY HotOps DEF TypeOK
  <2>6. (returned \subseteq HOT_OPS /\ failed \subseteq HOT_OPS)'
    BY HotOps DEF TypeOK
  <2> QED
    BY <2>1, <2>2, <2>3, <2>4, <2>5, <2>6 DEF TypeOK
<1>3. Control'
  BY <1>1, HotOps DEF Control, Ops
<1>4. Clean'
  BY DEF Clean, Ops
<1>5. FileIsCurrent'
  <2>1. CASE NoMark
    BY <2>1 DEF FileIsCurrent
  <2>2. ASSUME NEW i \in Impl, mark(op, i), prov.file, prov.text = "json"
        PROVE  /\ prov.counters \subseteq marked'
               /\ ~unopened => marked' \subseteq prov.counters \cup {<<op, i>>}
    BY <2>2 DEF FileIsCurrent
  <2>3. CASE \E i \in Impl : mark(op, i)
    <3>1. PICK i \in Impl : mark(op, i)
      BY <2>3
    <3>2. dumping' = "open" /\ prov' = prov /\ unopened' = unopened /\ <<op, i>> \in marked'
      BY <3>1
    <3>3. prov.file /\ prov.text = "json" =>
              /\ prov.counters \subseteq marked'
              /\ ~unopened => marked' \subseteq prov.counters \cup {<<op, i>>}
      BY <2>2, <3>1
    <3> QED
      BY <3>2, <3>3 DEF FileIsCurrent
  <2> QED
    BY <2>1, <2>3
<1>6. LabelHeld'
  BY DEF LabelHeld, Label
<1>7. RowsOK'
  BY DEF RowsOK, RowOK
<1> QED
  BY <1>2, <1>3, <1>4, <1>5, <1>6, <1>7

\* The operators that count themselves before the kernel is called ...
LEMMA CallCountedFirstKeeps ==
    ASSUME DispatchInv, NEW op \in HOT_OPS, CallCountedFirst(op)
    PROVE  DispatchInv'
<1> USE HotOps, NextOps DEF CallCountedFirst, At, Step, FallBack, Raises, NoMark, mark, file,
        NotRan, Ran, NoKernel, KernelReturns, KernelFails, Next1, Ops, CountedFirst, Routed
<1>1. Accounted(op)
  BY DEF Accounted, Impl
<1>2. Asked'
  BY UnsetIs DEF DispatchInv, Asked, enabled, Master, Toggled
<1>3. CountedInC'
  BY <1>1, CountedKeeps DEF DispatchInv, CountedInC
<1>4. CountedEager'
  BY UnsetIs DEF DispatchInv, CountedEager, Asked, enabled, Master, Toggled
<1>5. Uncounted'
  BY DEF DispatchInv, Uncounted, Asked, enabled, Master, Toggled
<1>6. RowSoFar'
  BY UnsetIs, Overrides DEF DispatchInv, RowSoFar, RowOK, Control, LabelHeld, Label,
     Asked, enabled, Master, Toggled
<1> QED
  BY <1>1, <1>2, <1>3, <1>4, <1>5, <1>6, AccountedKeeps DEF DispatchInv

\* ... and their return.
LEMMA ReturnCountedFirstKeeps ==
    ASSUME DispatchInv, NEW op \in HOT_OPS, ReturnCountedFirst(op)
    PROVE  DispatchInv'
<1> USE HotOps, NextOps DEF ReturnCountedFirst, At, Step, FallBack, Raises, NoMark, mark, file,
        NotRan, Ran, NoKernel, KernelReturns, KernelFails, Next1, Ops, CountedFirst, Routed
<1>1. Accounted(op)
  BY DEF Accounted, Impl
<1>2. Asked'
  BY UnsetIs DEF DispatchInv, Asked, enabled, Master, Toggled
<1>3. CountedInC'
  BY <1>1, CountedKeeps DEF DispatchInv, CountedInC
<1>4. CountedEager'
  BY UnsetIs DEF DispatchInv, CountedEager, Asked, enabled, Master, Toggled
<1>5. Uncounted'
  BY DEF DispatchInv, Uncounted, Asked, enabled, Master, Toggled
<1>6. RowSoFar'
  BY UnsetIs, Overrides DEF DispatchInv, RowSoFar, RowOK, Control, LabelHeld, Label,
     Asked, enabled, Master, Toggled
<1> QED
  BY <1>1, <1>2, <1>3, <1>4, <1>5, <1>6, AccountedKeeps DEF DispatchInv

\* The indexer: the toggle is read ...
LEMMA AskIndexerKeeps ==
    ASSUME DispatchInv, AskIndexer
    PROVE  DispatchInv'
<1> USE HotOps, NextOps DEF AskIndexer, At, Step, FallBack, Raises, NoMark, mark, file,
        NotRan, Ran, NoKernel, KernelReturns, KernelFails, Next1, Ops
<1>1. Accounted("indexer")
  BY DEF Accounted, Impl
<1>2. Asked'
  BY UnsetIs DEF DispatchInv, Asked, enabled, Master, Toggled
<1>3. CountedInC'
  BY <1>1, CountedKeeps DEF DispatchInv, CountedInC
<1>4. CountedEager'
  BY UnsetIs DEF DispatchInv, CountedEager, Asked, enabled, Master, Toggled
<1>5. Uncounted'
  BY DEF DispatchInv, Uncounted, Asked, enabled, Master, Toggled
<1>6. RowSoFar'
  BY UnsetIs, Overrides DEF DispatchInv, RowSoFar, RowOK, Control, LabelHeld, Label,
     Asked, enabled, Master, Toggled
<1> QED
  BY <1>1, <1>2, <1>3, <1>4, <1>5, <1>6, AccountedKeeps DEF DispatchInv

\* ... the kernel is called ...
LEMMA CallIndexerKeeps ==
    ASSUME DispatchInv, CallIndexer
    PROVE  DispatchInv'
<1> USE HotOps, NextOps DEF CallIndexer, At, Step, FallBack, Raises, NoMark, mark, file,
        NotRan, Ran, NoKernel, KernelReturns, KernelFails, Next1, Ops
<1>1. Accounted("indexer")
  BY DEF Accounted, Impl
<1>2. Asked'
  BY UnsetIs DEF DispatchInv, Asked, enabled, Master, Toggled
<1>3. CountedInC'
  <2>1. <<"indexer", "c_kernel">> \in marked' =>
            "indexer" \in returned' \/ pc'.at = "dead"
    BY DEF DispatchInv, CountedInC, CountedFirst
  <2> QED
    BY <1>1, <2>1, CountedKeeps DEF DispatchInv
<1>4. CountedEager'
  BY UnsetIs DEF DispatchInv, CountedEager, Asked, enabled, Master, Toggled
<1>5. Uncounted'
  BY DEF DispatchInv, Uncounted, Asked, enabled, Master, Toggled
<1>6. RowSoFar'
  BY UnsetIs, Overrides DEF DispatchInv, RowSoFar, RowOK, Control, LabelHeld, Label,
     Asked, enabled, Master, Toggled
<1> QED
  BY <1>1, <1>2, <1>3, <1>4, <1>5, <1>6, AccountedKeeps DEF DispatchInv

\* ... and the toggle is read again where the eager code counts itself.
LEMMA CheckIndexerKeeps ==
    ASSUME DispatchInv, CheckIndexer
    PROVE  DispatchInv'
<1> USE HotOps, NextOps DEF CheckIndexer, At, Step, FallBack, Raises, NoMark, mark, file,
        NotRan, Ran, NoKernel, KernelReturns, KernelFails, Next1, Ops
<1>1. Accounted("indexer")
  BY DEF Accounted, Impl
<1>2. Asked'
  BY UnsetIs DEF DispatchInv, Asked, enabled, Master, Toggled
<1>3. CountedInC'
  BY <1>1, CountedKeeps DEF DispatchInv, CountedInC
<1>4. CountedEager'
  BY UnsetIs DEF DispatchInv, CountedEager, Asked, enabled, Master, Toggled
<1>5. Uncounted'
  BY DEF DispatchInv, Uncounted, Asked, enabled, Master, Toggled
<1>6. RowSoFar'
  BY UnsetIs, Overrides DEF DispatchInv, RowSoFar, RowOK, Control, LabelHeld, Label,
     Asked, enabled, Master, Toggled
<1> QED
  BY <1>1, <1>2, <1>3, <1>4, <1>5, <1>6, AccountedKeeps DEF DispatchInv

\* The top-k: its kernel ...
LEMMA CallTopkKeeps ==
    ASSUME DispatchInv, CallTopk
    PROVE  DispatchInv'
<1> USE HotOps, NextOps DEF CallTopk, At, Step, FallBack, Raises, NoMark, mark, file,
        NotRan, Ran, NoKernel, KernelReturns, KernelFails, Next1, Ops
<1>1. Accounted("topk")
  BY DEF Accounted, Impl
<1>2. Asked'
  BY UnsetIs DEF DispatchInv, Asked, enabled, Master, Toggled
<1>3. CountedInC'
  BY <1>1, CountedKeeps DEF DispatchInv, CountedInC
<1>4. CountedEager'
  BY UnsetIs DEF DispatchInv, CountedEager, Asked, enabled, Master, Toggled
<1>5. Uncounted'
  BY DEF DispatchInv, Uncounted, Asked, enabled, Master, Toggled
<1>6. RowSoFar'
  BY UnsetIs, Overrides DEF DispatchInv, RowSoFar, RowOK, Control, LabelHeld, Label,
     Asked, enabled, Master, Toggled
<1> QED
  BY <1>1, <1>2, <1>3, <1>4, <1>5, <1>6, AccountedKeeps DEF DispatchInv

\* ... the toggle that is read after it ...
LEMMA CheckTopkKeeps ==
    ASSUME DispatchInv, CheckTopk
    PROVE  DispatchInv'
<1> USE HotOps, NextOps DEF CheckTopk, At, Step, FallBack, Raises, NoMark, mark, file,
        NotRan, Ran, NoKernel, KernelReturns, KernelFails, Next1, Ops
<1>1. Accounted("topk")
  BY DEF Accounted, Impl
<1>2. Asked'
  BY UnsetIs DEF DispatchInv, Asked, enabled, Master, Toggled
<1>3. CountedInC'
  BY <1>1, CountedKeeps DEF DispatchInv, CountedInC
<1>4. CountedEager'
  BY UnsetIs DEF DispatchInv, CountedEager, Asked, enabled, Master, Toggled
<1>5. Uncounted'
  BY DEF DispatchInv, Uncounted, Asked, enabled, Master, Toggled
<1>6. RowSoFar'
  BY UnsetIs, Overrides DEF DispatchInv, RowSoFar, RowOK, Control, LabelHeld, Label,
     Asked, enabled, Master, Toggled
<1> QED
  BY <1>1, <1>2, <1>3, <1>4, <1>5, <1>6, AccountedKeeps DEF DispatchInv

\* ... and its eager code.
LEMMA EagerTopkKeeps ==
    ASSUME DispatchInv, EagerTopk
    PROVE  DispatchInv'
<1> USE HotOps, NextOps DEF EagerTopk, At, Step, FallBack, Raises, NoMark, mark, file,
        NotRan, Ran, NoKernel, KernelReturns, KernelFails, Next1, Ops
<1>1. Accounted("topk")
  BY DEF Accounted, Impl
<1>2. Asked'
  BY UnsetIs DEF DispatchInv, Asked, enabled, Master, Toggled
<1>3. CountedInC'
  BY <1>1, CountedKeeps DEF DispatchInv, CountedInC
<1>4. CountedEager'
  BY UnsetIs DEF DispatchInv, CountedEager, Asked, enabled, Master, Toggled
<1>5. Uncounted'
  BY DEF DispatchInv, Uncounted, Asked, enabled, Master, Toggled
<1>6. RowSoFar'
  BY UnsetIs, Overrides DEF DispatchInv, RowSoFar, RowOK, Control, LabelHeld, Label,
     Asked, enabled, Master, Toggled
<1> QED
  BY <1>1, <1>2, <1>3, <1>4, <1>5, <1>6, AccountedKeeps DEF DispatchInv

\* The sparse attention: its kernel ...
LEMMA CallSparseKeeps ==
    ASSUME DispatchInv, CallSparse
    PROVE  DispatchInv'
<1> USE HotOps, NextOps DEF CallSparse, At, Step, FallBack, Raises, NoMark, mark, file,
        NotRan, Ran, NoKernel, KernelReturns, KernelFails, Next1, Ops
<1>1. Accounted("sparse_attend")
  BY DEF Accounted, Impl
<1>2. Asked'
  BY UnsetIs DEF DispatchInv, Asked, enabled, Master, Toggled
<1>3. CountedInC'
  BY <1>1, CountedKeeps DEF DispatchInv, CountedInC
<1>4. CountedEager'
  BY UnsetIs DEF DispatchInv, CountedEager, Asked, enabled, Master, Toggled
<1>5. Uncounted'
  BY DEF DispatchInv, Uncounted, Asked, enabled, Master, Toggled
<1>6. RowSoFar'
  BY UnsetIs, Overrides DEF DispatchInv, RowSoFar, RowOK, Control, LabelHeld, Label,
     Asked, enabled, Master, Toggled
<1> QED
  BY <1>1, <1>2, <1>3, <1>4, <1>5, <1>6, AccountedKeeps DEF DispatchInv

\* ... and its eager code.
LEMMA CheckSparseKeeps ==
    ASSUME DispatchInv, CheckSparse
    PROVE  DispatchInv'
<1> USE HotOps, NextOps DEF CheckSparse, At, Step, FallBack, Raises, NoMark, mark, file,
        NotRan, Ran, NoKernel, KernelReturns, KernelFails, Next1, Ops
<1>1. Accounted("sparse_attend")
  BY DEF Accounted, Impl
<1>2. Asked'
  BY UnsetIs DEF DispatchInv, Asked, enabled, Master, Toggled
<1>3. CountedInC'
  BY <1>1, CountedKeeps DEF DispatchInv, CountedInC
<1>4. CountedEager'
  BY UnsetIs DEF DispatchInv, CountedEager, Asked, enabled, Master, Toggled
<1>5. Uncounted'
  BY DEF DispatchInv, Uncounted, Asked, enabled, Master, Toggled
<1>6. RowSoFar'
  BY UnsetIs, Overrides DEF DispatchInv, RowSoFar, RowOK, Control, LabelHeld, Label,
     Asked, enabled, Master, Toggled
<1> QED
  BY <1>1, <1>2, <1>3, <1>4, <1>5, <1>6, AccountedKeeps DEF DispatchInv

\* A prefill that is too short for a window skips to the attention.
LEMMA NoWindowKeeps ==
    ASSUME DispatchInv, NoWindow
    PROVE  DispatchInv'
<1> USE HotOps, NextOps DEF NoWindow, At, Step, FallBack, Raises, NoMark, mark, file,
        NotRan, Ran, NoKernel, KernelReturns, KernelFails, Next1, Ops
<1>1. Accounted("compressor")
  BY DEF Accounted, Impl
<1>2. Asked'
  BY UnsetIs DEF DispatchInv, Asked, enabled, Master, Toggled
<1>3. CountedInC'
  BY <1>1, CountedKeeps DEF DispatchInv, CountedInC
<1>4. CountedEager'
  BY UnsetIs DEF DispatchInv, CountedEager, Asked, enabled, Master, Toggled
<1>5. Uncounted'
  BY DEF DispatchInv, Uncounted, Asked, enabled, Master, Toggled
<1>6. RowSoFar'
  BY UnsetIs, Overrides DEF DispatchInv, RowSoFar, RowOK, Control, LabelHeld, Label,
     Asked, enabled, Master, Toggled
<1> QED
  BY <1>1, <1>2, <1>3, <1>4, <1>5, <1>6, AccountedKeeps DEF DispatchInv

\* The worker installs the hooks of the sinkhorn and the combine.
LEMMA InstallKeeps ==
    ASSUME DispatchInv, Install
    PROVE  DispatchInv'
<1> USE DEF Install, NoMark, file, Step, ghosts
<1>1. TypeOK'
  BY HotOps, Overrides DEF DispatchInv, TypeOK, Label, Chain, Saved, Torn, NoFile, Ops, Control
<1>2. Control'
  BY HotOps, Overrides DEF DispatchInv, Control, Ops, Chain
<1>3. Asked'
  BY UnsetIs DEF DispatchInv, Asked, Control, Ops, enabled, Master, Toggled, Chain
<1>4. CountedInC'
  BY DEF DispatchInv, CountedInC, Control, Ops
<1>5. CountedEager'
  BY DEF DispatchInv, CountedEager
<1>6. Uncounted'
  BY DEF DispatchInv, Uncounted, Control, Ops, enabled, Master
<1>7. Clean'
  BY DEF DispatchInv, Clean
<1>8. FileIsCurrent'
  BY DEF DispatchInv, FileIsCurrent, Saved, Torn
<1>9. LabelHeld'
  BY UnsetIs, Overrides DEF DispatchInv, LabelHeld, Label
<1>10. RowSoFar'
  BY DEF DispatchInv, RowSoFar, RowOK, Label
<1>11. RowsOK'
  BY DEF DispatchInv, RowsOK, RowOK, RowSoFar, Label
<1> QED
  BY <1>1, <1>2, <1>3, <1>4, <1>5, <1>6, <1>7, <1>8, <1>9, <1>10, <1>11 DEF DispatchInv

\* The provenance file is opened, or stays what it was ...
LEMMA TruncateKeeps ==
    ASSUME DispatchInv, Truncate
    PROVE  DispatchInv'
<1> USE DEF Truncate, NoMark, file, Step, ghosts
<1>1. TypeOK'
  BY HotOps, Overrides DEF DispatchInv, TypeOK, Label, Chain, Saved, Torn, NoFile, Ops, Control
<1>2. Control'
  BY HotOps, Overrides DEF DispatchInv, Control, Ops, Chain
<1>3. Asked'
  BY UnsetIs DEF DispatchInv, Asked, Control, Ops, enabled, Master, Toggled, Chain
<1>4. CountedInC'
  BY DEF DispatchInv, CountedInC, Control, Ops
<1>5. CountedEager'
  BY DEF DispatchInv, CountedEager
<1>6. Uncounted'
  BY DEF DispatchInv, Uncounted, Control, Ops, enabled, Master
<1>7. Clean'
  BY DEF DispatchInv, Clean
<1>8. FileIsCurrent'
  BY DEF DispatchInv, FileIsCurrent, Saved, Torn
<1>9. LabelHeld'
  BY UnsetIs, Overrides DEF DispatchInv, LabelHeld, Label
<1>10. RowSoFar'
  BY DEF DispatchInv, RowSoFar, RowOK, Label
<1>11. RowsOK'
  BY DEF DispatchInv, RowsOK, RowOK, RowSoFar, Label
<1> QED
  BY <1>1, <1>2, <1>3, <1>4, <1>5, <1>6, <1>7, <1>8, <1>9, <1>10, <1>11 DEF DispatchInv

\* ... and written.
LEMMA DumpKeeps ==
    ASSUME DispatchInv, Dump
    PROVE  DispatchInv'
<1> USE DEF Dump, NoMark, file, Step, ghosts
<1>1. TypeOK'
  BY HotOps, Overrides DEF DispatchInv, TypeOK, Label, Chain, Saved, Torn, NoFile, Ops, Control
<1>2. Control'
  BY HotOps, Overrides DEF DispatchInv, Control, Ops, Chain
<1>3. Asked'
  BY UnsetIs DEF DispatchInv, Asked, Control, Ops, enabled, Master, Toggled, Chain
<1>4. CountedInC'
  BY DEF DispatchInv, CountedInC, Control, Ops
<1>5. CountedEager'
  BY DEF DispatchInv, CountedEager
<1>6. Uncounted'
  BY DEF DispatchInv, Uncounted, Control, Ops, enabled, Master
<1>7. Clean'
  BY DEF DispatchInv, Clean
<1>8. FileIsCurrent'
  BY DEF DispatchInv, FileIsCurrent, Saved, Torn
<1>9. LabelHeld'
  BY UnsetIs, Overrides DEF DispatchInv, LabelHeld, Label
<1>10. RowSoFar'
  BY DEF DispatchInv, RowSoFar, RowOK, Label
<1>11. RowsOK'
  BY DEF DispatchInv, RowsOK, RowOK, RowSoFar, Label
<1> QED
  BY <1>1, <1>2, <1>3, <1>4, <1>5, <1>6, <1>7, <1>8, <1>9, <1>10, <1>11 DEF DispatchInv

\* A forward ends.
LEMMA EndForwardKeeps ==
    ASSUME DispatchInv, EndForward
    PROVE  DispatchInv'
<1> USE DEF EndForward, NoMark, file, Step, ghosts
<1>1. TypeOK'
  BY HotOps, FirstOp, Overrides, DispatchAssumption
  DEF DispatchInv, TypeOK, Label, Saved, Torn, NoFile, Ops, Control
<1>2. Control'
  BY HotOps, FirstOp, Overrides, DispatchAssumption DEF DispatchInv, Control, Ops
<1>3. Asked'
  BY UnsetIs, FirstOp DEF DispatchInv, Asked, Control, Ops, enabled, Master, Toggled
<1>4. CountedInC'
  BY FirstOp DEF DispatchInv, CountedInC, Control, Ops
<1>5. CountedEager'
  BY DEF DispatchInv, CountedEager
<1>6. Uncounted'
  BY FirstOp DEF DispatchInv, Uncounted, Control, Ops, enabled, Master
<1>7. Clean'
  BY DEF DispatchInv, Clean
<1>8. FileIsCurrent'
  BY DEF DispatchInv, FileIsCurrent, Saved, Torn
<1>9. LabelHeld'
  BY UnsetIs, Overrides DEF DispatchInv, LabelHeld, Label
<1>10. RowSoFar'
  BY DEF DispatchInv, RowSoFar, RowOK, Label
<1>11. RowsOK'
  BY DEF DispatchInv, RowsOK, RowOK, RowSoFar, Label
<1> QED
  BY <1>1, <1>2, <1>3, <1>4, <1>5, <1>6, <1>7, <1>8, <1>9, <1>10, <1>11 DEF DispatchInv

\* The engine is killed.
LEMMA KillKeeps ==
    ASSUME DispatchInv, Kill
    PROVE  DispatchInv'
<1> USE DEF Kill, NoMark, file, Step, ghosts
<1>1. TypeOK'
  BY HotOps, Overrides DEF DispatchInv, TypeOK, Label, Chain, Saved, Torn, NoFile, Ops, Control
<1>2. Control'
  BY HotOps, Overrides DEF DispatchInv, Control, Ops, Chain
<1>3. Asked'
  BY UnsetIs DEF DispatchInv, Asked, Control, Ops, enabled, Master, Toggled, Chain
<1>4. CountedInC'
  BY DEF DispatchInv, CountedInC, Control, Ops
<1>5. CountedEager'
  BY DEF DispatchInv, CountedEager
<1>6. Uncounted'
  BY DEF DispatchInv, Uncounted, Control, Ops, enabled, Master
<1>7. Clean'
  BY DEF DispatchInv, Clean
<1>8. FileIsCurrent'
  BY DEF DispatchInv, FileIsCurrent, Saved, Torn
<1>9. LabelHeld'
  BY UnsetIs, Overrides DEF DispatchInv, LabelHeld, Label
<1>10. RowSoFar'
  BY DEF DispatchInv, RowSoFar, RowOK, Label
<1>11. RowsOK'
  BY DEF DispatchInv, RowsOK, RowOK, RowSoFar, Label
<1> QED
  BY <1>1, <1>2, <1>3, <1>4, <1>5, <1>6, <1>7, <1>8, <1>9, <1>10, <1>11 DEF DispatchInv

\* The driver opens the control file for a leg ...
LEMMA TruncateLegKeeps ==
    ASSUME DispatchInv, TruncateLeg
    PROVE  DispatchInv'
<1> USE DEF TruncateLeg, NoMark, file, Step, ghosts, Drive
<1>1. TypeOK'
  BY HotOps, Overrides DEF DispatchInv, TypeOK, Label, Chain, Saved, Torn, NoFile, Ops, Control
<1>2. Control'
  BY HotOps, Overrides DEF DispatchInv, Control, Ops, Chain
<1>3. Asked'
  BY UnsetIs DEF DispatchInv, Asked, Control, Ops, enabled, Master, Toggled, Chain
<1>4. CountedInC'
  BY DEF DispatchInv, CountedInC, Control, Ops
<1>5. CountedEager'
  BY DEF DispatchInv, CountedEager
<1>6. Uncounted'
  BY DEF DispatchInv, Uncounted, Control, Ops, enabled, Master
<1>7. Clean'
  BY DEF DispatchInv, Clean
<1>8. FileIsCurrent'
  BY DEF DispatchInv, FileIsCurrent, Saved, Torn
<1>9. LabelHeld'
  BY UnsetIs, Overrides DEF DispatchInv, LabelHeld, Label
<1>10. RowSoFar'
  BY DEF DispatchInv, RowSoFar, RowOK, Label
<1>11. RowsOK'
  BY DEF DispatchInv, RowsOK, RowOK, RowSoFar, Label
<1> QED
  BY <1>1, <1>2, <1>3, <1>4, <1>5, <1>6, <1>7, <1>8, <1>9, <1>10, <1>11 DEF DispatchInv

\* ... fills it ...
LEMMA FillLegKeeps ==
    ASSUME DispatchInv, FillLeg
    PROVE  DispatchInv'
<1> USE DEF FillLeg, NoMark, file, Step, ghosts, Drive
<1>1. TypeOK'
  BY HotOps, Overrides DEF DispatchInv, TypeOK, Label, Chain, Saved, Torn, NoFile, Ops, Control
<1>2. Control'
  BY HotOps, Overrides DEF DispatchInv, Control, Ops, Chain
<1>3. Asked'
  BY UnsetIs DEF DispatchInv, Asked, Control, Ops, enabled, Master, Toggled, Chain
<1>4. CountedInC'
  BY DEF DispatchInv, CountedInC, Control, Ops
<1>5. CountedEager'
  BY DEF DispatchInv, CountedEager
<1>6. Uncounted'
  BY DEF DispatchInv, Uncounted, Control, Ops, enabled, Master
<1>7. Clean'
  BY DEF DispatchInv, Clean
<1>8. FileIsCurrent'
  BY DEF DispatchInv, FileIsCurrent, Saved, Torn
<1>9. LabelHeld'
  BY UnsetIs, Overrides DEF DispatchInv, LabelHeld, Label
<1>10. RowSoFar'
  BY DEF DispatchInv, RowSoFar, RowOK, Label
<1>11. RowsOK'
  BY DEF DispatchInv, RowsOK, RowOK, RowSoFar, Label
<1> QED
  BY <1>1, <1>2, <1>3, <1>4, <1>5, <1>6, <1>7, <1>8, <1>9, <1>10, <1>11 DEF DispatchInv

\* ... asks for a generate ...
LEMMA GenerateKeeps ==
    ASSUME DispatchInv, Generate
    PROVE  DispatchInv'
<1> USE DEF Generate, NoMark, file, Step, ghosts, Drive
<1>1. TypeOK'
  BY HotOps, FirstOp, Overrides, DispatchAssumption
  DEF DispatchInv, TypeOK, Label, Saved, Torn, NoFile, Ops, Control
<1>2. Control'
  BY HotOps, FirstOp, Overrides, DispatchAssumption DEF DispatchInv, Control, Ops
<1>3. Asked'
  BY UnsetIs, FirstOp DEF DispatchInv, Asked, Control, Ops, enabled, Master, Toggled
<1>4. CountedInC'
  BY FirstOp DEF DispatchInv, CountedInC, Control, Ops
<1>5. CountedEager'
  BY DEF DispatchInv, CountedEager
<1>6. Uncounted'
  BY FirstOp DEF DispatchInv, Uncounted, Control, Ops, enabled, Master
<1>7. Clean'
  BY DEF DispatchInv, Clean
<1>8. FileIsCurrent'
  BY DEF DispatchInv, FileIsCurrent, Saved, Torn
<1>9. LabelHeld'
  BY UnsetIs, Overrides DEF DispatchInv, LabelHeld, Label
<1>10. RowSoFar'
  BY DEF DispatchInv, RowSoFar, RowOK, Label
<1>11. RowsOK'
  BY DEF DispatchInv, RowsOK, RowOK, RowSoFar, Label
<1> QED
  BY <1>1, <1>2, <1>3, <1>4, <1>5, <1>6, <1>7, <1>8, <1>9, <1>10, <1>11 DEF DispatchInv

\* ... and saves the row, or ends.
LEMMA SaveRowKeeps ==
    ASSUME DispatchInv, SaveRow
    PROVE  DispatchInv'
<1> USE DEF SaveRow, NoMark, file, Step, ghosts, Drive
<1>1. TypeOK'
  BY HotOps, Overrides DEF DispatchInv, TypeOK, Label, Chain, Saved, Torn, NoFile, Ops, Control
<1>2. Control'
  BY HotOps, Overrides DEF DispatchInv, Control, Ops, Chain
<1>3. Asked'
  BY UnsetIs DEF DispatchInv, Asked, Control, Ops, enabled, Master, Toggled, Chain
<1>4. CountedInC'
  BY DEF DispatchInv, CountedInC, Control, Ops
<1>5. CountedEager'
  BY DEF DispatchInv, CountedEager
<1>6. Uncounted'
  BY DEF DispatchInv, Uncounted, Control, Ops, enabled, Master
<1>7. Clean'
  BY DEF DispatchInv, Clean
<1>8. FileIsCurrent'
  BY DEF DispatchInv, FileIsCurrent, Saved, Torn
<1>9. LabelHeld'
  BY UnsetIs, Overrides DEF DispatchInv, LabelHeld, Label
<1>10. RowSoFar'
  BY DEF DispatchInv, RowSoFar, RowOK, Label
<1>11. RowsOK'
  BY DEF DispatchInv, RowsOK, RowOK, RowSoFar, Label
<1> QED
  BY <1>1, <1>2, <1>3, <1>4, <1>5, <1>6, <1>7, <1>8, <1>9, <1>10, <1>11 DEF DispatchInv

\* A hand at the control file: what holds of runs that no hand touched holds
\* of none of these.
LEMMA WriteByHandKeeps ==
    ASSUME DispatchInv, WriteByHand
    PROVE  DispatchInv'
<1> USE DEF WriteByHand, NoMark, file, Step, ghosts
<1>1. TypeOK'
  BY HotOps, Overrides DEF DispatchInv, TypeOK, Label, Chain, Saved, Torn, NoFile, Ops, Control
<1>2. Control'
  BY HotOps, Overrides DEF DispatchInv, Control, Ops, Chain
<1>3. Asked'
  BY UnsetIs DEF DispatchInv, Asked, Control, Ops, enabled, Master, Toggled, Chain
<1>4. CountedInC'
  BY DEF DispatchInv, CountedInC, Control, Ops
<1>5. CountedEager'
  BY DEF DispatchInv, CountedEager
<1>6. Uncounted'
  BY DEF DispatchInv, Uncounted, Control, Ops, enabled, Master
<1>7. Clean'
  BY DEF DispatchInv, Clean
<1>8. FileIsCurrent'
  BY DEF DispatchInv, FileIsCurrent, Saved, Torn
<1>9. LabelHeld'
  BY UnsetIs, Overrides DEF DispatchInv, LabelHeld, Label
<1>10. RowSoFar'
  BY DEF DispatchInv, RowSoFar, RowOK, Label
<1>11. RowsOK'
  BY DEF DispatchInv, RowsOK, RowOK, RowSoFar, Label
<1> QED
  BY <1>1, <1>2, <1>3, <1>4, <1>5, <1>6, <1>7, <1>8, <1>9, <1>10, <1>11 DEF DispatchInv

\* The invariant holds when the engine is loaded.
LEMMA InitInv == Init => DispatchInv
<1> SUFFICES ASSUME Init PROVE DispatchInv
  OBVIOUS
<1> USE DEF Init, Step
<1>1. TypeOK
  <2>1. OptionOK(opt) /\ 0 \in 0..MaxForwards
    BY DispatchAssumption
  <2>2. ctl \in {Unset, "0", "1"} /\ 1 \in 1..Len(opt.sweep)
    BY <2>1 DEF OptionOK
  <2> QED
    BY <2>1, <2>2 DEF TypeOK, NoFile
<1>2. Control /\ Asked /\ CountedInC /\ CountedEager /\ Uncounted
  BY DEF Control, Asked, CountedInC, CountedEager, Uncounted, Ops, Toggled
<1>3. Clean /\ FileIsCurrent /\ LabelHeld /\ RowSoFar /\ RowsOK
  BY DEF Clean, FileIsCurrent, LabelHeld, RowSoFar, RowsOK, NoFile
<1> QED
  BY <1>1, <1>2, <1>3 DEF DispatchInv

\* Every step keeps it.
LEMMA NextInv == DispatchInv /\ [Next]_vars => DispatchInv'
<1> SUFFICES ASSUME DispatchInv, [Next]_vars PROVE DispatchInv'
  OBVIOUS
<1>1. CASE Worker
  BY <1>1, InstallKeeps, TruncateKeeps, DumpKeeps, NoWindowKeeps, EndForwardKeeps, CallCountedFirstKeeps,
     ReturnCountedFirstKeeps, AskIndexerKeeps, CallIndexerKeeps, CheckIndexerKeeps, CallTopkKeeps,
     CheckTopkKeeps, EagerTopkKeeps, CallSparseKeeps, CheckSparseKeeps DEF Worker
<1>2. CASE Driver
  BY <1>2, TruncateLegKeeps, FillLegKeeps, GenerateKeeps, SaveRowKeeps DEF Driver
<1>3. CASE Kill \/ WriteByHand
  BY <1>3, KillKeeps, WriteByHandKeeps
<1>4. CASE UNCHANGED vars
  <2> USE DEF vars, file, ghosts
  <2>1. TypeOK' /\ Control' /\ Asked' /\ CountedInC' /\ CountedEager' /\ Uncounted'
    BY <1>4 DEF DispatchInv, TypeOK, Control, Asked, CountedInC, CountedEager, Uncounted,
                enabled, Master
  <2>2. Clean' /\ FileIsCurrent' /\ LabelHeld' /\ RowSoFar' /\ RowsOK'
    BY <1>4 DEF DispatchInv, Clean, FileIsCurrent, LabelHeld, RowSoFar, RowsOK, RowOK, Label
  <2> QED
    BY <2>1, <2>2 DEF DispatchInv
<1> QED
  BY <1>1, <1>2, <1>3, <1>4 DEF Next

\* The invariant of the worker and the driver, in every reachable state of
\* _dsa_ckernels.py's engine and run_perf_sweep.py's driver.
THEOREM DispatchInvariant == Spec => []DispatchInv
<1> QED
  BY InitInv, NextInv, PTL DEF Spec

\* A counter in C above zero means the kernel returned, and eager code that
\* ran is in the counters of the operators that count it (mark of _dsa_ckernels.py).
THEOREM CountsAreExact == Spec => []CountsExact
<1>1. DispatchInv => CountsExact
  <2> SUFFICES ASSUME DispatchInv PROVE CountsExact
    OBVIOUS
  <2>1. CountMeansReturned
    BY HotOps DEF DispatchInv, CountedInC, CountMeansReturned, Step
  <2>2. EagerIsCounted
    BY DEF DispatchInv, CountedEager, EagerIsCounted
  <2> QED
    BY <2>1, <2>2 DEF DispatchInv, CountsExact
<1> QED
  BY <1>1, DispatchInvariant, PTL

\* The rows, the file on disk, the gate and the strict mode, from the
\* invariant.
LEMMA RecordsAre == DispatchInv => RecordsExact
<1>1. DispatchInv => RowMatchesLabel /\ FileIsCurrent
  BY DEF DispatchInv, RowsOK, RowOK, RowMatchesLabel
<1>2. DispatchInv => StrictCompletesClean
  BY DEF DispatchInv, StrictCompletesClean, Clean, Control
<1>3. DispatchInv => GateCertifies
  <2> SUFFICES ASSUME DispatchInv, driver.does = "done", GatePasses, ~unopened,
                      opt.mxfp4, ~opt.byhand, installed = {"sinkhorn", "combine"},
                      \A op \in HOT_OPS : opt.over[op] = Unset
               PROVE  \A op \in HOT_OPS : <<op, "eager">> \notin ran
    BY DEF GateCertifies
  <2>5. pc.at \notin Ops \cup {"end", "dead"}
    BY DEF DispatchInv, Control
  <2>1. ASSUME NEW op \in Ops PROVE <<op, "eager">> \notin marked
    BY <2>1, <2>5, HotOps DEF DispatchInv, Control, FileIsCurrent, GatePasses, Gaps
  <2>2. \A op \in Ops : opt.over[op] = Unset
    BY HotOps
  <2>3. \A op \in {"indexer", "topk", "sparse_attend"} : <<op, "eager">> \notin ran
    BY <2>1, <2>2 DEF DispatchInv, CountedEager, Ops
  <2>4. \A op \in {"sinkhorn", "combine", "moe"} : <<op, "eager">> \notin ran
    BY DEF DispatchInv, Uncounted
  <2>6. <<"compressor", "eager">> \notin ran
    BY <2>1, <2>2, <2>5 DEF DispatchInv, Uncounted, Ops
  <2> QED
    BY <2>3, <2>4, <2>6, HotOps DEF Ops
<1> QED
  BY <1>1, <1>2, <1>3 DEF RecordsExact

-----------------------------------------------------------------------------
(* The timers: sums. *)

\* A nonempty set of naturals has a least element: what the proofs use in
\* place of induction.
LEMMA LeastElement ==
    ASSUME NEW T \in SUBSET Nat, T # {}
    PROVE  \E x \in T : \A y \in T : x <= y
<1> DEFINE Lt == {p \in Nat \X Nat : p[1] < p[2]}
<1>1. OpToRel(<, Nat) = Lt
  BY Zenon DEF OpToRel
<1>2. IsWellFoundedOn(Lt, Nat)
  BY <1>1, NatLessThanWellFounded, Zenon
<1> HIDE DEF Lt
<1>3. PICK x \in T : \A y \in T : ~(<<y, x>> \in Lt)
  BY <1>2, WFMin, Zenon
<1>4. \A y \in T : ~(y < x)
  BY <1>3 DEF Lt
<1> QED
  BY <1>4

\* A count for every timer and phase.
Phased == [Timers -> [Phases -> Nat]]

\* The sum over the timers in xs, term by term.
Term(f, xs, x) == IF x \in xs THEN f[x] ELSE 0

Terms(f, xs) ==
    Term(f, xs, "layer.total") + Term(f, xs, "mhc.hc_pre") + Term(f, xs, "mhc.sinkhorn")
    + Term(f, xs, "mhc.combine") + Term(f, xs, "dsa.compressor") + Term(f, xs, "dsa.indexer")
    + Term(f, xs, "dsa.mla_attention") + Term(f, xs, "mla.b") + Term(f, xs, "moe.forward")
    + Term(f, xs, "moe.expert_apply")

\* The recursion by which the library adds up a function over the subsets of S.
Sums(g, f, S) ==
    g = [T \in SUBSET S |->
            IF T = {} THEN 0
            ELSE LET x == CHOOSE x \in T : TRUE IN f[x] + g[T \ {x}]]

\* A timer's term can be taken out of the sum.
LEMMA TermsTake ==
    ASSUME NEW f \in [Timers -> Nat], NEW xs \in SUBSET Timers, NEW x \in xs
    PROVE  Terms(f, xs) = f[x] + Terms(f, xs \ {x})
<1> DEFINE ys == xs \ {x}
<1>1. Term(f, xs, x) = f[x] /\ Term(f, ys, x) = 0 /\ f[x] \in Nat
  BY DEF Term
<1>2. \A y \in Timers : /\ Term(f, xs, y) \in Nat /\ Term(f, ys, y) \in Nat
                        /\ y # x => Term(f, ys, y) = Term(f, xs, y)
  BY DEF Term
<1> HIDE DEF ys
<1>3. \A y \in Timers : x = y => Terms(f, xs) = f[x] + Terms(f, ys)
  <2>1. CASE x = "layer.total"
    BY <1>1, <1>2, <2>1 DEF Terms, Timers
  <2>2. CASE x = "mhc.hc_pre"
    BY <1>1, <1>2, <2>2 DEF Terms, Timers
  <2>3. CASE x = "mhc.sinkhorn"
    BY <1>1, <1>2, <2>3 DEF Terms, Timers
  <2>4. CASE x = "mhc.combine"
    BY <1>1, <1>2, <2>4 DEF Terms, Timers
  <2>5. CASE x = "dsa.compressor"
    BY <1>1, <1>2, <2>5 DEF Terms, Timers
  <2>6. CASE x = "dsa.indexer"
    BY <1>1, <1>2, <2>6 DEF Terms, Timers
  <2>7. CASE x = "dsa.mla_attention"
    BY <1>1, <1>2, <2>7 DEF Terms, Timers
  <2>8. CASE x = "mla.b"
    BY <1>1, <1>2, <2>8 DEF Terms, Timers
  <2>9. CASE x = "moe.forward"
    BY <1>1, <1>2, <2>9 DEF Terms, Timers
  <2>10. CASE x = "moe.expert_apply"
    BY <1>1, <1>2, <2>10 DEF Terms, Timers
  <2> QED
    BY <2>1, <2>2, <2>3, <2>4, <2>5, <2>6, <2>7, <2>8, <2>9, <2>10 DEF Timers
<1> QED
  BY <1>3 DEF ys

\* The library's sum is the sum term by term: a smallest set on which the two
\* differ would have a smaller one.
LEMMA SumIsTerms ==
    ASSUME NEW f, NEW S \in SUBSET Timers, DOMAIN f = S, \A x \in S : f[x] \in Nat
    PROVE  SumFunction(f) = Terms(f, S)
<1> DEFINE some(T) == CHOOSE x \in T : TRUE
           e == [x \in Timers |-> IF x \in S THEN f[x] ELSE 0]
           total == [T \in SUBSET S |-> Terms(e, T)]
           size(T) == Terms([x \in Timers |-> 1], T)
           h == CHOOSE g : Sums(g, f, S)
<1>1. e \in [Timers -> Nat] /\ [x \in Timers |-> 1] \in [Timers -> Nat]
  OBVIOUS
<1>2. Terms(e, {}) = 0 
  BY <1>1 DEF Terms, Term
<1>3. ASSUME NEW T \in SUBSET S, T # {}
      PROVE  /\ some(T) \in T /\ T \ {some(T)} \in SUBSET S
             /\ Terms(e, T) = f[some(T)] + Terms(e, T \ {some(T)})
             /\ size(T) = 1 + size(T \ {some(T)})
  <2>1. some(T) \in T
    BY <1>3
  <2>2. PICK x : x = some(T)
    OBVIOUS
  <2>3. x \in T /\ T \in SUBSET Timers /\ x \in Timers
    BY <2>1, <2>2
  <2>4. Terms(e, T) = e[x] + Terms(e, T \ {x})
    BY <1>1, <2>3, TermsTake
  <2>5. size(T) = 1 + size(T \ {x})
    BY <1>1, <2>3, TermsTake
  <2>6. e[x] = f[x]
    BY <2>3
  <2> HIDE DEF some, size, e
  <2> QED
    BY <2>2, <2>3, <2>4, <2>5, <2>6
<1>4. ASSUME NEW T PROVE size(T) \in Nat
  BY DEF Terms, Term, Timers
<1> HIDE DEF e, size
<1>5. Sums(total, f, S)
  <2>1. ASSUME NEW T \in SUBSET S
        PROVE  total[T] = IF T = {} THEN 0 ELSE f[some(T)] + total[T \ {some(T)}]
    BY <1>2, <1>3
  <2>2. total = [T \in SUBSET S |-> IF T = {} THEN 0 ELSE f[some(T)] + total[T \ {some(T)}]]
    BY <2>1
  <2> HIDE DEF total
  <2> QED
    BY <2>2 DEF Sums
<1>6. Sums(h, f, S)
  BY <1>5
<1> HIDE DEF h
<1>7. \A T \in SUBSET S : h[T] = IF T = {} THEN 0 ELSE f[some(T)] + h[T \ {some(T)}]
  BY <1>6 DEF Sums
<1>8. \A T \in SUBSET S : h[T] = total[T]
  <2> DEFINE Bad == {n \in Nat : \E T \in SUBSET S : size(T) = n /\ h[T] # total[T]}
  <2>1. SUFFICES Bad = {}
    BY <1>4
  <2>2. SUFFICES ASSUME Bad # {} PROVE FALSE
    OBVIOUS
  <2>3. PICK n \in Bad : \A m \in Bad : n <= m
    BY <2>2, LeastElement
  <2>4. PICK T \in SUBSET S : size(T) = n /\ h[T] # total[T]
    BY <2>3
  <2>5. T # {}
    BY <1>2, <1>7, <2>4
  <2> DEFINE x == some(T)
             U == T \ {x}
  <2>6. U \in SUBSET S /\ size(U) = n - 1 /\ total[T] = f[x] + total[U]
    <3>1. size(T) = 1 + size(U) /\ size(U) \in Nat /\ U \in SUBSET S
      BY <1>3, <1>4, <2>5
    <3>2. total[T] = f[x] + total[U]
      BY <1>3, <2>5, <3>1
    <3> HIDE DEF U, total
    <3> QED
      BY <2>4, <3>1, <3>2
  <2>7. h[T] = f[x] + h[U]
    BY <1>7, <2>5
  <2>8. h[U] # total[U]
    BY <2>4, <2>6, <2>7
  <2>9. size(U) \in Nat /\ n \in Nat
    BY <1>4, <2>3
  <2> HIDE DEF U, total
  <2>10. n - 1 \in Bad
    BY <2>6, <2>8, <2>9
  <2> QED
    BY <2>3, <2>9, <2>10
<1>9. SumFunction(f) = h[S]
  BY DEF SumFunction, SumFunctionOnSet, FoldFunctionOnSet, MapThenFoldSet, Sums, h
<1>10. Terms(e, S) = Terms(f, S)
  BY DEF Terms, Term, e
<1> QED
  BY <1>8, <1>9, <1>10

-----------------------------------------------------------------------------
(* The timers: the inductive invariant. *)

\* The time of a sparse attention that raised is in no leaf: "mla.b" is not
\* stopped.
Lost == IF pc.at = "dead" /\ "sparse_attend" \in failed THEN {0, 1} ELSE {0}

\* The five timers the chart adds up.
Leaves(t, q) ==
    t["mhc.hc_pre"][q] + t["dsa.compressor"][q] + t["dsa.indexer"][q] + t["mla.b"][q]
    + t["moe.expert_apply"][q]

\* The total is the sum of the leaves, but for what is lost, and no parent is
\* above it.
Balanced(t, lost) ==
    \A q \in Phases :
        /\ t["layer.total"][q] - Leaves(t, q) \in lost
        /\ t["dsa.mla_attention"][q] <= t["layer.total"][q]
        /\ t["moe.forward"][q] <= t["layer.total"][q]

\* What the timers will have counted if they stop before the running operator ends.
View ==
    [x \in Timers |-> [q \in Phases |->
        times[x][q] + IF q = Phase /\ x \in DOMAIN open THEN open[x] ELSE 0]]

\* How many operators of the layer are behind op.
Place(op) ==
    CASE op = "sinkhorn" -> 0 [] op = "combine" -> 1 [] op = "compressor" -> 2
      [] op = "indexer" -> 3 [] op = "topk" -> 4 [] op = "sparse_attend" -> 5 [] op = "moe" -> 6

\* The timers that run are those around the operator, and have counted at most
\* the operators behind it.
OpenOK ==
    /\ DOMAIN open \subseteq Timers /\ open \in [DOMAIN open -> Nat]
    /\ pc.at \in Ops => DOMAIN open = Running(pc.at) /\ open["layer.total"] <= Place(pc.at)
    /\ pc.at \in {"load", "idle", "end"} => DOMAIN open = {}
    /\ "layer.total" \in DOMAIN open => open["layer.total"] <= 6
    /\ "mla.b" \in DOMAIN open => open["mla.b"] = 0

\* The file holds balanced times, and the total as it was when a layer ended:
\* the last that did, if the file could be opened then.
JsonOK ==
    json.file /\ json.text = "json" =>
        /\ json.times \in Phased /\ Balanced(json.times, Lost)
        /\ \A q \in Phases :
              /\ json.times["layer.total"][q] <= times["layer.total"][q]
              /\ ~stale => json.times["layer.total"][q] = times["layer.total"][q]

\* The inductive invariant of the timers.
TimeInv ==
    /\ times \in Phased /\ ticks \in [Phases -> Nat]
    /\ OpenOK /\ JsonOK
    /\ Balanced(View, Lost)
    /\ \A q \in Phases : ticks[q] = View["layer.total"][q]

\* The ways the worker's place moves: not at all, to the next operator, to its
\* death in an operator, and from where no timer runs to a forward or to rest.
Moves ==
    \/ pc'.at = pc.at /\ fw' = fw /\ (pc.at = "dead" => failed' = failed)
    \/ /\ pc.at \in Ops /\ fw' = fw
       /\ pc'.at = After(pc.at) \/ (pc.at = "compressor" /\ pc'.at = "sparse_attend")
    \/ /\ pc.at \in Ops /\ fw' = fw /\ pc'.at = "dead"
       /\ pc.at = "sparse_attend" => "sparse_attend" \in failed'
    \/ pc.at \in {"load", "idle", "end"} /\ pc'.at \in {"idle", "sinkhorn"} /\ pc'.at # pc.at

\* Every step of the worker and of the driver moves the place so.
LEMMA WorkerMoves == ASSUME TypeOK, Worker \/ Driver PROVE Moves
<1> USE DEF Step, ghosts, At, Next1, FallBack, Raises, KernelFails, Ops, Moves
<1>1. CASE Install \/ Truncate \/ Dump \/ EndForward \/ Driver
  BY <1>1, FirstOp DEF Install, Truncate, Dump, EndForward, Driver, TruncateLeg, FillLeg, Generate, SaveRow
<1>2. CASE \E op \in HOT_OPS : CallCountedFirst(op) \/ ReturnCountedFirst(op)
  BY <1>2, HotOps DEF CallCountedFirst, ReturnCountedFirst
<1>3. CASE NoWindow \/ AskIndexer
  BY <1>3, NextOps DEF NoWindow, AskIndexer
<1>6. CASE CallIndexer
  BY <1>6, NextOps DEF CallIndexer
<1>7. CASE CheckIndexer
  BY <1>7, NextOps DEF CheckIndexer
<1>4. CASE CallTopk \/ CheckTopk \/ EagerTopk
  BY <1>4 DEF CallTopk, CheckTopk, EagerTopk
<1>5. CASE CallSparse \/ CheckSparse
  BY <1>5, NextOps DEF CallSparse, CheckSparse
<1> QED
  BY <1>1, <1>2, <1>3, <1>4, <1>5, <1>6, <1>7 DEF Worker

\* The timers around each operator.
LEMMA RunningIs ==
    /\ Running("sinkhorn") = {"layer.total", "mhc.hc_pre", "mhc.sinkhorn"}
    /\ Running("combine") = {"layer.total", "mhc.hc_pre", "mhc.combine"}
    /\ Running("compressor") = {"layer.total", "dsa.compressor"}
    /\ Running("indexer") = {"layer.total", "dsa.indexer"}
    /\ Running("topk") = {"layer.total", "dsa.indexer"}
    /\ Running("sparse_attend") = {"layer.total", "dsa.mla_attention", "mla.b"}
    /\ Running("moe") = {"layer.total", "moe.forward", "moe.expert_apply"}
    /\ Running("end") = {} /\ Running("dead") = {} /\ Running("idle") = {}
<1>1. /\ Around("sinkhorn") = <<"layer.total", "mhc.hc_pre", "mhc.sinkhorn">>
      /\ Around("combine") = <<"layer.total", "mhc.hc_pre", "mhc.combine">>
      /\ Around("compressor") = <<"layer.total", "dsa.compressor">>
      /\ Around("indexer") = <<"layer.total", "dsa.indexer">>
      /\ Around("topk") = <<"layer.total", "dsa.indexer">>
      /\ Around("sparse_attend") = <<"layer.total", "dsa.mla_attention", "mla.b">>
      /\ Around("moe") = <<"layer.total", "moe.forward", "moe.expert_apply">>
  BY DEF Around
<1>2. Around("end") = <<>> /\ Around("dead") = <<>> /\ Around("idle") = <<>>
  BY DEF Around
<1>3. ASSUME NEW op, NEW a, NEW b, NEW c, Around(op) = <<a, b, c>>
      PROVE  Running(op) = {a, b, c}
  <2>1. Len(Around(op)) = 3 /\ 1..3 = {1, 2, 3}
    BY <1>3
  <2>2. Around(op)[1] = a /\ Around(op)[2] = b /\ Around(op)[3] = c
    BY <1>3
  <2> QED
    BY <2>1, <2>2 DEF Running
<1>4. ASSUME NEW op, NEW a, NEW b, Around(op) = <<a, b>>
      PROVE  Running(op) = {a, b}
  <2>1. Len(Around(op)) = 2 /\ 1..2 = {1, 2}
    BY <1>4
  <2>2. Around(op)[1] = a /\ Around(op)[2] = b
    BY <1>4
  <2> QED
    BY <2>1, <2>2 DEF Running
<1>5. ASSUME NEW op, Around(op) = <<>>
      PROVE  Running(op) = {}
  BY <1>5 DEF Running
<1>6. /\ Running("sinkhorn") = {"layer.total", "mhc.hc_pre", "mhc.sinkhorn"}
      /\ Running("combine") = {"layer.total", "mhc.hc_pre", "mhc.combine"}
      /\ Running("sparse_attend") = {"layer.total", "dsa.mla_attention", "mla.b"}
      /\ Running("moe") = {"layer.total", "moe.forward", "moe.expert_apply"}
  BY <1>1, <1>3
<1>7. /\ Running("compressor") = {"layer.total", "dsa.compressor"}
      /\ Running("indexer") = {"layer.total", "dsa.indexer"}
      /\ Running("topk") = {"layer.total", "dsa.indexer"}
  BY <1>1, <1>4
<1>8. Running("end") = {} /\ Running("dead") = {} /\ Running("idle") = {}
  BY <1>2, <1>5
<1> QED
  BY <1>6, <1>7, <1>8

LEMMA PlaceIs ==
    /\ Place("sinkhorn") = 0 /\ Place("combine") = 1 /\ Place("compressor") = 2
    /\ Place("indexer") = 3 /\ Place("topk") = 4 /\ Place("sparse_attend") = 5 /\ Place("moe") = 6
  BY DEF Place

\* The timers in R count one more in the phase, and no other timer does.
Ticked(R) ==
    \A x \in Timers, q \in Phases :
        View'[x][q] = View[x][q] + IF x \in R /\ q = Phase THEN 1 ELSE 0

LEMMA PhaseIs == Phase \in Phases /\ Phases = {"pf", "dec"}
  BY DEF Phase, Phases

\* The view is a count for every timer and phase.
LEMMA ViewTyped ==
    ASSUME times \in Phased, OpenOK
    PROVE  View \in Phased
<1>1. \A x \in Timers, q \in Phases : times[x][q] \in Nat
  BY DEF Phased
<1>2. \A x \in DOMAIN open : open[x] \in Nat
  BY DEF OpenOK
<1>3. ASSUME NEW x \in Timers, NEW q \in Phases
      PROVE  (times[x][q] + IF q = Phase /\ x \in DOMAIN open THEN open[x] ELSE 0) \in Nat
  BY <1>1, <1>2
<1> QED
  BY <1>3 DEF View, Phased

\* What a timer has counted when it stops.
LEMMA TotalIs ==
    ASSUME times \in Phased, OpenOK, NEW x \in DOMAIN open
    PROVE  /\ Total(x) \in [Phases -> Nat]
           /\ \A q \in Phases : Total(x)[q] = times[x][q] + IF q = Phase THEN open[x] + 1 ELSE 0
<1>1. x \in Timers /\ open[x] \in Nat
  BY DEF OpenOK
<1>2. times[x] \in [Phases -> Nat]
  BY <1>1 DEF Phased
<1>3. Phase \in Phases
  BY PhaseIs
<1> HIDE DEF Phase, Phases
<1> QED
  BY <1>1, <1>2, <1>3 DEF Total

\* From an operator to the next.
LEMMA OnwardTicks ==
    ASSUME TimeInv, pc.at \in Ops, fw' = fw, Observe,
           pc'.at = After(pc.at) \/ (pc.at = "compressor" /\ pc'.at = "sparse_attend")
    PROVE  /\ times' \in Phased /\ OpenOK' /\ Ticked(Running(pc.at))
           /\ ticks' \in [Phases -> Nat]
           /\ \A q \in Phases : ticks'[q] = ticks[q] + IF q = Phase THEN 1 ELSE 0
           /\ pc'.at \in Ops => \A q \in Phases : times'["layer.total"][q] = times["layer.total"][q]
<1> DEFINE from == pc.at
           to == pc'.at
<1>1. /\ from \in HOT_OPS /\ to # from /\ to \in Ops \cup {"end"} /\ to # "dead"
      /\ to = "end" \/ Place(to) > Place(from)
      /\ Place(from) \in Nat /\ (to # "end" => Place(to) \in 0..6)
  BY HotOps, NextOps, PlaceIs DEF Ops
<1>2. /\ open' = KeptRunning(from, to)
      /\ times' = [x \in Timers |-> IF x \in Stopped(from, to) THEN Total(x) ELSE times[x]]
      /\ ticks' = [ticks EXCEPT ![Phase] = @ + 1]
  BY <1>1 DEF Observe
<1>3. Stopped(from, to) = Running(from) \ Running(to)
  BY <1>1 DEF Stopped, TimeInv, OpenOK
<1>4. Phase' = Phase
  BY DEF Phase
<1>5. times \in Phased /\ OpenOK /\ DOMAIN open = Running(from) /\ Running(from) \subseteq Timers
  BY DEF TimeInv, OpenOK
<1>6. Running(to) \subseteq Timers
  BY <1>1, RunningIs DEF Ops, Timers
<1>7. \A x \in Running(from) : open[x] \in Nat
  BY <1>5 DEF OpenOK
<1>8. /\ DOMAIN open' = Running(to)
      /\ \A x \in Running(to) : open'[x] = IF x \in Running(from) THEN open[x] + 1 ELSE 0
  BY <1>2, <1>5 DEF KeptRunning
<1>9. times' \in Phased
  <2>1. \A x \in Timers :
            (IF x \in Stopped(from, to) THEN Total(x) ELSE times[x]) \in [Phases -> Nat]
    BY <1>3, <1>5, TotalIs DEF Phased
  <2> QED
    BY <1>2, <2>1 DEF Phased
<1>10. OpenOK'
  <2>1. open' \in [DOMAIN open' -> Nat]
    BY <1>2, <1>7, <1>8 DEF KeptRunning
  <2>2. to \in Ops => open'["layer.total"] <= Place(to) /\ open'["layer.total"] \in Nat
    <3> SUFFICES ASSUME to \in Ops
                 PROVE  open'["layer.total"] <= Place(to) /\ open'["layer.total"] \in Nat
      OBVIOUS
    <3>1. "layer.total" \in Running(to) /\ "layer.total" \in Running(from)
      BY RunningIs DEF Ops
    <3>2. open["layer.total"] \in Nat /\ open["layer.total"] <= Place(from)
      BY <1>7, <3>1 DEF TimeInv, OpenOK
    <3>3. open'["layer.total"] = open["layer.total"] + 1
      BY <1>8, <3>1
    <3>4. to # "end"
      BY DEF Ops
    <3> HIDE DEF from, to
    <3> QED
      BY <1>1, <3>2, <3>3, <3>4
  <2>3. "layer.total" \in DOMAIN open' => to \in Ops
    BY <1>1, <1>8, RunningIs
  <2>4. "mla.b" \in DOMAIN open' => open'["mla.b"] = 0
    <3>1. "mla.b" \in Running(to) => to = "sparse_attend"
      BY <1>1, RunningIs DEF Ops
    <3>2. to = "sparse_attend" => "mla.b" \notin Running(from)
      BY <1>1, RunningIs DEF Ops
    <3> QED
      BY <1>8, <3>1, <3>2
  <2>5. to \in {"load", "idle", "end"} => DOMAIN open' = {}
    BY <1>1, <1>8, RunningIs DEF Ops
  <2> QED
    BY <1>1, <1>6, <1>8, <2>1, <2>2, <2>3, <2>4, <2>5 DEF OpenOK, Ops
<1>11. Ticked(Running(from))
  <2> SUFFICES ASSUME NEW x \in Timers, NEW q \in Phases
               PROVE  View'[x][q] = View[x][q] + IF x \in Running(from) /\ q = Phase THEN 1 ELSE 0
    BY DEF Ticked
  <2>1. View'[x][q] = times'[x][q] + IF q = Phase /\ x \in Running(to) THEN open'[x] ELSE 0
    BY <1>4, <1>8 DEF View
  <2>2. View[x][q] = times[x][q] + IF q = Phase /\ x \in Running(from) THEN open[x] ELSE 0
    BY <1>5 DEF View
  <2>3. times[x][q] \in Nat
    BY <1>5 DEF Phased
  <2>4. CASE x \in Running(from) /\ x \notin Running(to)
    <3>1. times'[x][q] = times[x][q] + IF q = Phase THEN open[x] + 1 ELSE 0
      BY <1>2, <1>3, <1>5, <2>4, TotalIs
    <3> HIDE DEF from, to
    <3> QED
      BY <1>7, <2>1, <2>2, <2>3, <2>4, <3>1
  <2>5. CASE ~(x \in Running(from) /\ x \notin Running(to))
    <3>1. times'[x][q] = times[x][q]
      BY <1>2, <1>3, <2>5
    <3> HIDE DEF from, to
    <3> QED
      BY <1>7, <1>8, <2>1, <2>2, <2>3, <2>5, <3>1
  <2> QED
    BY <2>4, <2>5
<1>12. /\ ticks' \in [Phases -> Nat]
       /\ \A q \in Phases : ticks'[q] = ticks[q] + IF q = Phase THEN 1 ELSE 0
  BY <1>2, PhaseIs DEF TimeInv
<1>13. to \in Ops => \A q \in Phases : times'["layer.total"][q] = times["layer.total"][q]
  BY <1>2, <1>3, RunningIs DEF Ops, Timers
<1> QED
  BY <1>9, <1>10, <1>11, <1>12, <1>13

\* Where an operator raises, its timers stop, but for "mla.b".
LEMMA RaiseTicks ==
    ASSUME TimeInv, pc.at \in Ops, fw' = fw, Observe, pc'.at = "dead"
    PROVE  /\ times' \in Phased /\ OpenOK' /\ Ticked(Running(pc.at) \ {"mla.b"})
           /\ ticks' \in [Phases -> Nat]
           /\ \A q \in Phases : ticks'[q] = ticks[q] + IF q = Phase THEN 1 ELSE 0
           /\ DOMAIN open' = {}
<1> DEFINE from == pc.at
<1>1. from \in HOT_OPS /\ from # "dead" /\ from # "end"
  BY HotOps DEF Ops
<1>2. /\ open' = KeptRunning(from, "dead")
      /\ times' = [x \in Timers |-> IF x \in Stopped(from, "dead") THEN Total(x) ELSE times[x]]
      /\ ticks' = [ticks EXCEPT ![Phase] = @ + 1]
  BY <1>1 DEF Observe
<1>3. times \in Phased /\ OpenOK /\ DOMAIN open = Running(from) /\ Running(from) \subseteq Timers
  BY DEF TimeInv, OpenOK
<1>4. Stopped(from, "dead") = Running(from) \ {"mla.b"}
  BY <1>3 DEF Stopped
<1>5. DOMAIN open' = {}
  BY <1>2, RunningIs DEF KeptRunning
<1>6. times' \in Phased
  <2>1. \A x \in Timers :
            (IF x \in Stopped(from, "dead") THEN Total(x) ELSE times[x]) \in [Phases -> Nat]
    BY <1>3, <1>4, TotalIs DEF Phased
  <2> QED
    BY <1>2, <2>1 DEF Phased
<1>7. OpenOK'
  <2>1. open' \in [DOMAIN open' -> Nat]
    BY <1>2, RunningIs DEF KeptRunning
  <2> QED
    BY <1>5, <2>1 DEF OpenOK, Ops
<1>8. Ticked(Running(from) \ {"mla.b"})
  <2> SUFFICES ASSUME NEW x \in Timers, NEW q \in Phases
               PROVE  View'[x][q] = View[x][q]
                          + IF x \in Running(from) \ {"mla.b"} /\ q = Phase THEN 1 ELSE 0
    BY DEF Ticked
  <2>1. View'[x][q] = times'[x][q] + 0
    BY <1>5 DEF View
  <2>2. View[x][q] = times[x][q] + IF q = Phase /\ x \in Running(from) THEN open[x] ELSE 0
    BY <1>3 DEF View
  <2>3. times[x][q] \in Nat /\ (x \in Running(from) => open[x] \in Nat)
    BY <1>3 DEF Phased, OpenOK
  <2>4. CASE x \in Running(from) \ {"mla.b"}
    <3>1. times'[x][q] = times[x][q] + IF q = Phase THEN open[x] + 1 ELSE 0
      BY <1>2, <1>3, <1>4, <2>4, TotalIs
    <3> HIDE DEF from
    <3> QED
      BY <2>1, <2>2, <2>3, <2>4, <3>1
  <2>5. CASE x \notin Running(from) \ {"mla.b"}
    <3>1. times'[x][q] = times[x][q]
      BY <1>2, <1>4, <2>5
    <3>2. x \in Running(from) => open[x] = 0
      BY <1>3, <2>5 DEF OpenOK
    <3> HIDE DEF from
    <3> QED
      BY <2>1, <2>2, <2>3, <2>5, <3>1, <3>2
  <2> QED
    BY <2>4, <2>5
<1>9. /\ ticks' \in [Phases -> Nat]
      /\ \A q \in Phases : ticks'[q] = ticks[q] + IF q = Phase THEN 1 ELSE 0
  BY <1>2, PhaseIs DEF TimeInv
<1> QED
  BY <1>5, <1>6, <1>7, <1>8, <1>9

\* An operator's time is one of the leaves', but where "mla.b" is not stopped.
LEMMA BalanceTicks ==
    ASSUME NEW op \in Ops, View \in Phased, View' \in Phased, Balanced(View, {0}),
           NEW R, Ticked(R), R = Running(op) \/ R = Running(op) \ {"mla.b"}
    PROVE  Balanced(View', IF op = "sparse_attend" /\ R # Running(op) THEN {0, 1} ELSE {0})
<1> DEFINE lost == IF op = "sparse_attend" /\ R # Running(op) THEN {0, 1} ELSE {0}
<1> SUFFICES ASSUME NEW q \in Phases
             PROVE  /\ View'["layer.total"][q] - Leaves(View', q)
                           \in lost
                    /\ View'["dsa.mla_attention"][q] <= View'["layer.total"][q]
                    /\ View'["moe.forward"][q] <= View'["layer.total"][q]
  BY DEF Balanced
<1> DEFINE v == View
           w == View'
<1>1. /\ \A x \in Timers : w[x][q] = v[x][q] + IF x \in R /\ q = Phase THEN 1 ELSE 0
      /\ \A x \in Timers : v[x][q] \in Nat
  BY DEF Ticked, Phased
<1>2. /\ v["layer.total"][q] - Leaves(v, q) \in {0}
      /\ v["dsa.mla_attention"][q] <= v["layer.total"][q]
      /\ v["moe.forward"][q] <= v["layer.total"][q]
  BY DEF Balanced
<1> HIDE DEF v, w
<1>3. /\ w["layer.total"][q] - Leaves(w, q) \in lost
      /\ w["dsa.mla_attention"][q] <= w["layer.total"][q]
      /\ w["moe.forward"][q] <= w["layer.total"][q]
  <2> USE DEF Timers, Leaves
  <2>1. CASE op \in {"sinkhorn", "combine"}
    BY <1>1, <1>2, <2>1, RunningIs
  <2>2. CASE op = "compressor"
    BY <1>1, <1>2, <2>2, RunningIs
  <2>3. CASE op \in {"indexer", "topk"}
    BY <1>1, <1>2, <2>3, RunningIs
  <2>4. CASE op = "sparse_attend"
    BY <1>1, <1>2, <2>4, RunningIs
  <2>5. CASE op = "moe"
    BY <1>1, <1>2, <2>5, RunningIs
  <2> QED
    BY <2>1, <2>2, <2>3, <2>4, <2>5 DEF Ops
<1> QED
  BY <1>3 DEF w

\* From where no timer runs to where none has begun to count.
LEMMA BeginTicks ==
    ASSUME TimeInv, Observe, pc.at \in {"load", "idle", "end"}, pc'.at \in {"idle", "sinkhorn"},
           pc'.at # pc.at
    PROVE  /\ times' = times /\ ticks' = ticks /\ OpenOK' /\ View = times /\ View' = times
           /\ json' \in {Written(times), Torn} \/ (json' = json /\ stale' = stale)
<1> DEFINE from == pc.at
           to == pc'.at
<1>1. from \notin HOT_OPS /\ to \notin {"dead", "end"}
  BY HotOps DEF Ops
<1>2. /\ open' = KeptRunning(from, to) /\ times' = times /\ ticks' = ticks
      /\ json' \in {Written(times), Torn} \/ (json' = json /\ stale' = stale)
  BY <1>1 DEF Observe, Writes
<1>3. DOMAIN open = {} /\ times \in Phased
  BY DEF TimeInv, OpenOK
<1>4. DOMAIN open' = Running(to) /\ \A x \in Running(to) : open'[x] = 0
  BY <1>2, <1>3 DEF KeptRunning
<1>5. OpenOK'
  <2>1. Running(to) \subseteq Timers /\ "mla.b" \notin Running(to)
    BY RunningIs DEF Timers
  <2>2. open' \in [DOMAIN open' -> Nat]
    BY <1>2, <1>3 DEF KeptRunning
  <2>3. "layer.total" \in Running(to) => to = "sinkhorn"
    BY RunningIs
  <2>4. to # "sinkhorn" => Running(to) = {}
    BY RunningIs
  <2>5. "layer.total" \in Running("sinkhorn")
    BY RunningIs
  <2> QED
    BY <1>4, <2>1, <2>2, <2>3, <2>4, <2>5, PlaceIs DEF OpenOK, Ops
<1>6. \A x \in Timers, q \in Phases : times[x][q] \in Nat
  BY <1>3 DEF Phased
<1>7. times = [x \in Timers |-> [q \in Phases |-> times[x][q]]]
  BY <1>3 DEF Phased
<1>8. View = times
  <2>1. View = [x \in Timers |-> [q \in Phases |-> times[x][q]]]
    BY <1>3, <1>6 DEF View
  <2> QED
    BY <1>7, <2>1
<1>9. View' = times
  <2>1. View' = [x \in Timers |-> [q \in Phases |-> times[x][q]]]
    <3>1. ASSUME NEW x \in Timers, NEW q \in Phases
          PROVE  times'[x][q] + (IF q = Phase' /\ x \in DOMAIN open' THEN open'[x] ELSE 0)
                 = times[x][q]
      BY <1>2, <1>4, <1>6
    <3> QED
      BY <3>1 DEF View
  <2> QED
    BY <1>7, <2>1
<1> QED
  BY <1>2, <1>5, <1>8, <1>9

LEMMA ViewGrows ==
    ASSUME View \in Phased, NEW R, Ticked(R)
    PROVE  View' \in Phased
<1>1. ASSUME NEW x \in Timers, NEW q \in Phases PROVE View'[x][q] \in Nat
  BY DEF Ticked, Phased
<1>2. View' = [x \in Timers |-> [q \in Phases |-> View'[x][q]]]
  BY DEF View
<1> QED
  BY <1>1, <1>2 DEF Phased

\* A total never falls ...
LEMMA TotalsGrow ==
    ASSUME TimeInv, Observe, NEW q \in Phases
    PROVE  times'["layer.total"][q] >= times["layer.total"][q]
<1> DEFINE from == pc.at
           to == pc'.at
           x == "layer.total"
<1>1. x \in Timers /\ times[x] \in [Phases -> Nat] /\ times[x][q] \in Nat
  BY DEF TimeInv, Phased, Timers
<1>2. \/ times' = times
      \/ times'[x] = IF x \in Stopped(from, to) THEN Total(x) ELSE times[x]
  BY <1>1 DEF Observe, timeVars
<1>3. x \in Stopped(from, to) => x \in DOMAIN open
  BY DEF Stopped
<1>4. x \in DOMAIN open => open[x] \in Nat
  BY DEF TimeInv, OpenOK
<1>5. CASE x \in DOMAIN open /\ times'[x] = Total(x)
  <2>1. Total(x)[q] = times[x][q] \/ Total(x)[q] = times[x][q] + open[x] + 1
    BY <1>1 DEF Total
  <2> QED
    BY <1>1, <1>4, <1>5, <2>1
<1> QED
  BY <1>1, <1>2, <1>3, <1>5

\* ... so that a file that is left as it was falls behind.
LEMMA JsonStays ==
    ASSUME TimeInv, Observe, times' \in Phased, {0} \subseteq Lost', Lost = {0},
           json' = json, stale' = TRUE
    PROVE  JsonOK'
<1> SUFFICES ASSUME json.file, json.text = "json"
             PROVE  /\ json.times \in Phased /\ Balanced(json.times, Lost')
                    /\ \A q \in Phases :
                          json.times["layer.total"][q] <= times'["layer.total"][q]
  BY DEF JsonOK
<1>1. json.times \in Phased /\ Balanced(json.times, Lost')
  BY DEF TimeInv, JsonOK, Balanced
<1>2. ASSUME NEW q \in Phases
      PROVE  json.times["layer.total"][q] <= times'["layer.total"][q]
  <2>1. json.times["layer.total"][q] <= times["layer.total"][q]
    BY DEF TimeInv, JsonOK
  <2>2. times'["layer.total"][q] >= times["layer.total"][q]
    BY TotalsGrow
  <2>3. json.times["layer.total"][q] \in Nat /\ times["layer.total"][q] \in Nat
        /\ times'["layer.total"][q] \in Nat
    BY <1>1 DEF TimeInv, Phased, Timers
  <2> QED
    BY <2>1, <2>2, <2>3
<1> QED
  BY <1>1, <1>2

\* A step that moves the place keeps the invariant of the timers.
LEMMA StepTimes ==
    ASSUME TypeOK, TimeInv, Moves, Observe
    PROVE  TimeInv'
<1>1. CASE pc'.at = pc.at /\ fw' = fw /\ (pc.at = "dead" => failed' = failed)
  <2>1. UNCHANGED timeVars
    BY <1>1 DEF Observe
  <2>2. OpenOK' /\ View' = View /\ Lost' = Lost
    BY <1>1, <2>1 DEF TimeInv, OpenOK, View, Phase, Lost, timeVars
  <2> QED
    BY <2>1, <2>2 DEF TimeInv, JsonOK, timeVars, Balanced, Leaves
<1>2. CASE /\ pc.at \in Ops /\ fw' = fw
           /\ pc'.at = After(pc.at) \/ (pc.at = "compressor" /\ pc'.at = "sparse_attend")
  <2>0. pc'.at \in Ops \cup {"end"} /\ pc.at # "dead" /\ pc'.at # pc.at /\ pc.at # "end"
    BY <1>2, NextOps DEF Ops
  <2>1. /\ times' \in Phased /\ OpenOK' /\ Ticked(Running(pc.at))
        /\ ticks' \in [Phases -> Nat]
        /\ \A q \in Phases : ticks'[q] = ticks[q] + IF q = Phase THEN 1 ELSE 0
        /\ pc'.at \in Ops => \A q \in Phases : times'["layer.total"][q] = times["layer.total"][q]
    BY <1>2, OnwardTicks
  <2>2. Lost = {0} /\ Lost' = {0}
    BY <2>0 DEF Lost, Ops
  <2>3. View \in Phased /\ View' \in Phased
    BY <2>1, ViewGrows, ViewTyped DEF TimeInv
  <2>4. Balanced(View', Lost')
    BY <1>2, <2>1, <2>2, <2>3, BalanceTicks DEF TimeInv
  <2>5. JsonOK'
    <3>1. CASE pc'.at = "end"
      <4>1. json' = Torn \/ (json' = json /\ stale' = TRUE)
        BY <2>0, <3>1, HotOps DEF Observe, Opens
      <4>2. CASE json' = Torn
        BY <4>2 DEF JsonOK, Torn
      <4>3. CASE json' = json /\ stale' = TRUE
        BY <2>1, <2>2, <4>3, JsonStays
      <4> QED
        BY <4>1, <4>2, <4>3
    <3>2. CASE pc'.at \in Ops
      <4>1. json' = json /\ stale' = stale
        BY <2>0, <3>2, HotOps DEF Observe, Ops
      <4> QED
        BY <2>1, <2>2, <3>2, <4>1 DEF TimeInv, JsonOK
    <3> QED
      BY <2>0, <3>1, <3>2
  <2>6. \A q \in Phases : ticks'[q] = View'["layer.total"][q]
    <3>1. "layer.total" \in Running(pc.at) /\ "layer.total" \in Timers
      BY <1>2, RunningIs DEF Ops, Timers
    <3> QED
      BY <2>1, <3>1 DEF TimeInv, Ticked
  <2> QED
    BY <2>1, <2>4, <2>5, <2>6 DEF TimeInv
<1>3. CASE /\ pc.at \in Ops /\ fw' = fw /\ pc'.at = "dead"
           /\ pc.at = "sparse_attend" => "sparse_attend" \in failed'
  <2>1. /\ times' \in Phased /\ OpenOK' /\ Ticked(Running(pc.at) \ {"mla.b"})
        /\ ticks' \in [Phases -> Nat]
        /\ \A q \in Phases : ticks'[q] = ticks[q] + IF q = Phase THEN 1 ELSE 0
        /\ DOMAIN open' = {}
    BY <1>3, RaiseTicks
  <2>2. Lost = {0} /\ (pc.at = "sparse_attend" => Lost' = {0, 1}) /\ {0} \subseteq Lost'
    BY <1>3 DEF Lost, Ops
  <2>3. View \in Phased /\ View' \in Phased
    BY <2>1, ViewGrows, ViewTyped DEF TimeInv
  <2>4. Balanced(View', IF pc.at = "sparse_attend" THEN {0, 1} ELSE {0})
    <3>1. Balanced(View', IF pc.at = "sparse_attend" /\ Running(pc.at) \ {"mla.b"} # Running(pc.at)
                          THEN {0, 1} ELSE {0})
      BY <1>3, <2>1, <2>2, <2>3, BalanceTicks DEF TimeInv
    <3> QED
      BY <3>1 DEF Balanced
  <2>5. Balanced(View', Lost')
    BY <2>2, <2>4 DEF Balanced
  <2>6. \A x \in Timers, q \in Phases : View'[x][q] = times'[x][q]
    BY <2>1, <2>3 DEF View, Phased
  <2>7. JsonOK'
    <3>1. json' \in {Written(times'), Torn} \/ (json' = json /\ stale' = TRUE)
      BY <1>3, HotOps DEF Observe, Ops, RaisedWrites
    <3>2. Balanced(times', Lost')
      BY <2>5, <2>6 DEF Balanced, Leaves, Timers
    <3>3. CASE json' \in {Written(times'), Torn}
      <4>1. \A q \in Phases : times'["layer.total"][q] \in Nat
        BY <2>1 DEF Phased, Timers
      <4> QED
        BY <2>1, <3>2, <3>3, <4>1 DEF JsonOK, Written, Torn
    <3>4. CASE json' = json /\ stale' = TRUE
      BY <2>1, <2>2, <3>4, JsonStays
    <3> QED
      BY <3>1, <3>3, <3>4
  <2>8. \A q \in Phases : ticks'[q] = View'["layer.total"][q]
    <3>1. "layer.total" \in Running(pc.at) \ {"mla.b"} /\ "layer.total" \in Timers
      BY <1>3, RunningIs DEF Ops, Timers
    <3> QED
      BY <2>1, <3>1 DEF TimeInv, Ticked
  <2> QED
    BY <2>1, <2>5, <2>7, <2>8 DEF TimeInv
<1>4. CASE pc.at \in {"load", "idle", "end"} /\ pc'.at \in {"idle", "sinkhorn"} /\ pc'.at # pc.at
  <2>1. /\ times' = times /\ ticks' = ticks /\ OpenOK' /\ View = times /\ View' = times
        /\ json' \in {Written(times), Torn} \/ (json' = json /\ stale' = stale)
    BY <1>4, BeginTicks
  <2>2. Lost = {0} /\ Lost' = {0}
    BY <1>4 DEF Lost
  <2>3. Balanced(times, {0})
    BY <2>1, <2>2 DEF TimeInv
  <2>4. JsonOK'
    <3>1. \A q \in Phases : times["layer.total"][q] \in Nat
      BY DEF TimeInv, Phased, Timers
    <3> QED
      BY <2>1, <2>2, <2>3, <3>1 DEF TimeInv, JsonOK, Written, Torn
  <2> QED
    BY <2>1, <2>2, <2>3, <2>4 DEF TimeInv
<1> QED
  BY <1>1, <1>2, <1>3, <1>4 DEF Moves

LEMMA InitTimes == TimedInit => TimeInv
<1> SUFFICES ASSUME TimedInit PROVE TimeInv
  OBVIOUS
<1>1. times = NoTimes /\ ticks = [p \in Phases |-> 0] /\ DOMAIN open = {} /\ json = NoFile
      /\ pc = Step("load", "none") /\ failed = {} /\ open = [x \in {} |-> 0]
  BY DEF TimedInit, Init
<1>2. pc.at = "load"
  BY <1>1 DEF Step
<1>3. times \in Phased /\ ticks \in [Phases -> Nat]
  BY <1>1 DEF NoTimes, Phased
<1>4. OpenOK
  BY <1>1, <1>2 DEF OpenOK, Ops
<1>5. JsonOK
  BY <1>1 DEF JsonOK, NoFile
<1>6. \A x \in Timers, q \in Phases : View[x][q] = 0
  BY <1>1 DEF View, NoTimes
<1>7. Lost = {0}
  BY <1>2 DEF Lost
<1>8. Balanced(View, Lost)
  BY <1>6, <1>7 DEF Balanced, Leaves, Timers
<1>9. \A q \in Phases : ticks[q] = View["layer.total"][q]
  BY <1>1, <1>6 DEF Timers
<1> QED
  BY <1>3, <1>4, <1>5, <1>8, <1>9 DEF TimeInv

\* A kill, and a hand at the control file.
LEMMA KillTimes ==
    ASSUME TimeInv, Kill \/ WriteByHand, UNCHANGED timeVars
    PROVE  TimeInv'
<1>1. fw' = fw /\ failed' = failed /\ (pc' = pc \/ (pc.at # "dead" /\ pc'.at = "dead"))
  BY DEF Kill, WriteByHand, Step, ghosts
<1>2. View' = View
  BY <1>1 DEF View, Phase, timeVars
<1>3. OpenOK'
  BY <1>1 DEF TimeInv, OpenOK, timeVars, Ops
<1>4. Lost \subseteq Lost'
  BY <1>1 DEF Lost
<1>5. Balanced(View', Lost') /\ JsonOK'
  BY <1>2, <1>4 DEF TimeInv, JsonOK, Balanced, timeVars, Leaves
<1> QED
  BY <1>2, <1>3, <1>5 DEF TimeInv, timeVars

\* Every step of the timed engine keeps it.
LEMMA TimedStep ==
    TypeOK /\ TimeInv /\ [TimedNext]_<<vars, timeVars>> => TimeInv'
<1> SUFFICES ASSUME TypeOK, TimeInv, [TimedNext]_<<vars, timeVars>> PROVE TimeInv'
  OBVIOUS
<1>1. CASE (Worker \/ Driver) /\ Observe
  BY <1>1, WorkerMoves, StepTimes
<1>2. CASE (Kill \/ WriteByHand) /\ UNCHANGED timeVars
  BY <1>2, KillTimes
<1>3. CASE UNCHANGED <<vars, timeVars>>
  <2>1. pc' = pc /\ fw' = fw /\ failed' = failed /\ UNCHANGED timeVars
    BY <1>3 DEF vars, file, ghosts
  <2>2. View' = View /\ OpenOK' /\ Lost' = Lost
    BY <2>1 DEF View, Phase, timeVars, TimeInv, OpenOK, Lost
  <2> QED
    BY <2>1, <2>2 DEF TimeInv, JsonOK, Balanced, Leaves, timeVars
<1> QED
  BY <1>1, <1>2, <1>3 DEF TimedNext

\* A run with timers is a run.
LEMMA TimedIsRun == TimedSpec => Spec
<1>1. TimedInit => Init
  BY DEF TimedInit
<1>2. [TimedNext]_<<vars, timeVars>> => [Next]_vars
  BY DEF TimedNext, Next
<1> QED
  BY <1>1, <1>2, PTL DEF TimedSpec, Spec

\* What the chart computes of the file.
LEMMA SumsAre ==
    ASSUME NEW t \in Phased, NEW q \in Phases
    PROVE  /\ Counted(t, q, Listed) = Leaves(t, q) + CountedTwice(t, q)
           /\ CountedTwice(t, q) \in Nat
<1> DEFINE mhc == {"mhc.sinkhorn", "mhc.combine"}
           f == [x \in Timers |-> t[x][q]]
           leaf == {"mhc.hc_pre", "dsa.compressor", "dsa.indexer", "mla.b", "moe.expert_apply"}
<1>1. \A x \in Timers : t[x][q] \in Nat
  BY DEF Phased
<1>2. ASSUME NEW xs \in SUBSET Timers
      PROVE  Counted(t, q, xs) = Terms([x \in xs |-> t[x][q]], xs)
  <2> DEFINE g == [x \in xs |-> t[x][q]]
  <2>1. DOMAIN g = xs /\ \A x \in xs : g[x] \in Nat
    BY <1>1
  <2>2. Counted(t, q, xs) = SumFunction(g)
    BY DEF Counted
  <2> HIDE DEF g
  <2>3. SumFunction(g) = Terms(g, xs)
    BY <2>1, SumIsTerms
  <2> QED
    BY <2>2, <2>3 DEF g
<1>3. Listed = leaf \cup (mhc \cap Listed) /\ Listed \in SUBSET Timers
  BY DEF Listed, Kind, Timers
<1>4. Counted(t, q, Listed) = Terms([x \in Listed |-> t[x][q]], Listed)
  BY <1>2, <1>3
<1>5. CountedTwice(t, q) = Terms([x \in mhc \cap Listed |-> t[x][q]], mhc \cap Listed)
  BY <1>2, <1>3 DEF CountedTwice
<1>6. /\ "mhc.sinkhorn" \in Listed \/ "mhc.sinkhorn" \notin Listed
      /\ \A x \in leaf : x \in Listed /\ x \notin mhc
      /\ \A x \in {"layer.total", "dsa.mla_attention", "moe.forward"} : x \notin Listed
  BY DEF Listed, Kind, Timers
<1> QED
  BY <1>1, <1>4, <1>5, <1>6 DEF Terms, Term, Leaves, Timers

\* The wall time of the chart is the total.
LEMMA WallIs ==
    ASSUME NEW t \in Phased, NEW q \in Phases,
           t["dsa.mla_attention"][q] <= t["layer.total"][q],
           t["moe.forward"][q] <= t["layer.total"][q]
    PROVE  Wall(t, q) = t["layer.total"][q]
<1> DEFINE parents == {x \in Timers : Kind(x) = "parent"}
           T == {t[x][q] : x \in parents}
           m == t["layer.total"][q]
<1>1. parents = {"layer.total", "dsa.mla_attention", "moe.forward"}
  BY DEF Kind, Timers
<1>2. \A x \in Timers : t[x][q] \in Nat
  BY DEF Phased
<1>3. T = {m, t["dsa.mla_attention"][q], t["moe.forward"][q]} /\ T \subseteq Nat
  BY <1>1, <1>2 DEF Timers
<1>4. Wall(t, q) = Max(T)
  BY DEF Wall
<1>5. m \in T /\ \A y \in T : m >= y
  BY <1>2, <1>3 DEF Timers
<1> HIDE DEF T, m
<1>6. \A x \in T : (\A y \in T : x >= y) => x = m
  BY <1>3, <1>5
<1>7. Max(T) = m
  BY <1>5, <1>6 DEF Max
<1> QED
  BY <1>4, <1>7 DEF m

\* What the chart reads off the file is exact.
LEMMA TimesAre == ASSUME TypeOK, TimeInv PROVE TimesExact
<1> SUFFICES ASSUME json.file, json.text = "json", NEW p \in Phases
             PROVE  LET t == json.times
                    IN  /\ Wall(t, p) = t["layer.total"][p]
                        /\ ticks[p] - Wall(t, p) >= 0
                        /\ ~stale => ticks[p] - Wall(t, p) <=
                              (IF pc.at \in {"idle", "load"} THEN 0 ELSE Len(Chain))
                        /\ Other(t, p) + CountedTwice(t, p) \in
                              (IF pc.at = "dead" /\ "sparse_attend" \in failed THEN {0, 1} ELSE {0})
  BY DEF TimesExact
<1> DEFINE t == json.times
<1>1. /\ t \in Phased /\ Balanced(t, Lost)
      /\ t["layer.total"][p] <= times["layer.total"][p]
      /\ ~stale => t["layer.total"][p] = times["layer.total"][p]
  BY DEF TimeInv, JsonOK
<1> HIDE DEF t
<1>2. Wall(t, p) = t["layer.total"][p]
  BY <1>1, WallIs DEF Balanced
<1>3. /\ ticks[p] - Wall(t, p) >= 0
      /\ ~stale => ticks[p] - Wall(t, p) <= (IF pc.at \in {"idle", "load"} THEN 0 ELSE Len(Chain))
  <2>1. Len(Chain) = 7
    BY DEF Chain
  <2>2. times["layer.total"][p] \in Nat /\ t["layer.total"][p] \in Nat
    BY <1>1 DEF TimeInv, Phased, Timers
  <2>3. ticks[p] = times["layer.total"][p]
            + IF p = Phase /\ "layer.total" \in DOMAIN open THEN open["layer.total"] ELSE 0
    BY DEF TimeInv, View, Timers
  <2>4. "layer.total" \in DOMAIN open =>
            /\ pc.at \notin {"idle", "load"}
            /\ open["layer.total"] \in 0..6
    BY DEF TimeInv, OpenOK
  <2> QED
    BY <1>1, <1>2, <2>1, <2>2, <2>3, <2>4
<1>4. Other(t, p) + CountedTwice(t, p) \in Lost
  <2>1. Counted(t, p, Listed) = Leaves(t, p) + CountedTwice(t, p)
    BY <1>1, SumsAre
  <2>2. t["layer.total"][p] - Leaves(t, p) \in Lost
    BY <1>1 DEF Balanced
  <2>3. Leaves(t, p) \in Nat /\ t["layer.total"][p] \in Nat
    BY <1>1 DEF Leaves, Phased, Timers
  <2>4. CountedTwice(t, p) \in Nat
    BY <1>1, SumsAre
  <2> QED
    BY <1>2, <2>1, <2>2, <2>3, <2>4 DEF Other
<1> QED
  BY <1>2, <1>3, <1>4 DEF t, Lost

\* The invariant of the timers (_timed of _dsv4_cpu_infra.py) in every reachable state.
THEOREM TimesInvariant == TimedSpec => [](TypeOK /\ TimeInv)
<1>1. DispatchInv => TypeOK
  BY DEF DispatchInv
<1>2. TimedSpec => []TypeOK
  BY <1>1, TimedIsRun, DispatchInvariant, PTL
<1> QED
  BY <1>2, InitTimes, TimedStep, PTL DEF TimedSpec

\* What is read off the files is what ran: rows carry the label their kernels
\* ran under, the provenance file is current, a gate that passes certifies a run
\* with no eager code, strict completes clean, and the wall time in the file is
\* the sum of the leaves it is broken down into.
THEOREM ReadingsAreExact == TimedSpec => []ReadingsExact
<1>1. DispatchInv => RecordsExact
  BY RecordsAre
<1>2. TypeOK /\ TimeInv => TimesExact
  BY TimesAre
<1> QED
  BY <1>1, <1>2, TimedIsRun, TimesInvariant, DispatchInvariant, PTL DEF ReadingsExact

-----------------------------------------------------------------------------
(* The cuts of a kernel's loops. *)

\* Floor division by a positive number.
LEMMA DivMod ==
    ASSUME NEW n \in Nat, NEW d \in Nat \ {0}
    PROVE  /\ n = (n \div d) * d + (n % d)
           /\ n % d \in 0..(d - 1)
           /\ n \div d \in Nat
  OBVIOUS

\* Multiples of d are at least d apart.
LEMMA MultiplesApart ==
    ASSUME NEW d \in Nat \ {0}, NEW a \in Int, NEW b \in Int, a < b
    PROVE  a * d + d <= b * d
  OBVIOUS

\* Quotient and remainder are unique.
LEMMA DivUnique ==
    ASSUME NEW n \in Nat, NEW d \in Nat \ {0},
           NEW q \in Int, NEW e \in 0..(d - 1), n = q * d + e
    PROVE  n \div d = q /\ n % d = e
<1> DEFINE Q == n \div d
<1>1. Q \in Nat /\ n % d \in 0..(d - 1) /\ n = Q * d + (n % d)
  OBVIOUS
<1> HIDE DEF Q
<1>2. (Q < q => Q * d + d <= q * d) /\ (q < Q => q * d + d <= Q * d)
  BY <1>1, MultiplesApart
<1>3. Q = q
  BY <1>1, <1>2
<1> QED
  BY <1>1, <1>3 DEF Q

\* CeilDiv(a, b) multiples of b are the fewest that reach a.
LEMMA CeilDivBounds ==
    ASSUME NEW a \in Nat, NEW b \in Nat \ {0}
    PROVE  /\ CeilDiv(a, b) \in Nat
           /\ a <= CeilDiv(a, b) * b
           /\ CeilDiv(a, b) * b < a + b
           /\ a # 0 => CeilDiv(a, b) # 0
<1>1. a + b - 1 \in Nat
  OBVIOUS
<1>2. /\ a + b - 1 = CeilDiv(a, b) * b + ((a + b - 1) % b)
      /\ (a + b - 1) % b \in 0..(b - 1)
      /\ CeilDiv(a, b) \in Nat
  BY <1>1, DivMod DEF CeilDiv
<1>3. CeilDiv(a, b) * b \in Nat /\ (CeilDiv(a, b) = 0 => CeilDiv(a, b) * b = 0)
  BY <1>2
<1> HIDE DEF CeilDiv
<1> QED
  BY <1>2, <1>3

\* A place below a lies in one of CeilDiv(a, b) tiles, and a tile begins below a.
LEMMA TileOfPlace ==
    ASSUME NEW a \in Nat, NEW b \in Nat \ {0}, NEW x \in 0..(a - 1)
    PROVE  x \div b \in 0..(CeilDiv(a, b) - 1)
<1> DEFINE C == CeilDiv(a, b)
           q == x \div b
<1>1. C \in Nat /\ a <= C * b
  BY CeilDivBounds
<1>0. x \in Nat
  OBVIOUS
<1>2. q \in Nat /\ x = q * b + (x % b) /\ x % b \in 0..(b - 1)
  BY <1>0, DivMod, Zenon
<1> HIDE DEF C, q
<1>3. C < q => C * b + b <= q * b
  BY <1>1, <1>2, MultiplesApart
<1>4. q * b \in Nat /\ C * b \in Nat
  BY <1>1, <1>2
<1>5. q # C
  BY <1>1, <1>2, <1>4
<1> QED
  BY <1>1, <1>2, <1>3, <1>4, <1>5 DEF C, q

\* A tile begins below what is tiled.
LEMMA TileBegins ==
    ASSUME NEW a \in Nat, NEW b \in Nat \ {0}, NEW q \in 0..(CeilDiv(a, b) - 1)
    PROVE  q * b < a
<1> DEFINE C == CeilDiv(a, b)
<1>1. C \in Nat /\ C * b < a + b
  BY CeilDivBounds
<1> HIDE DEF C
<1>2. q \in Nat /\ q < C
  BY <1>1 DEF C
<1>3. q * b + b <= C * b
  BY <1>1, <1>2, MultiplesApart
<1>4. q * b \in Nat /\ C * b \in Nat
  BY <1>1, <1>2
<1> QED
  BY <1>1, <1>3, <1>4

\* The ranges of a loop are intervals that cover its tasks, each once.
LEMMA RangesPartition ==
    ASSUME NEW n \in Nat, NEW grain \in Nat, NEW threads \in 1..MaxThreads
    PROVE  LET R == Ranges(n, grain, threads)
           IN  /\ \A t \in 0..(MaxThreads - 1) :
                    R[t][1] \in 0..n /\ R[t][2] \in 0..n /\ R[t][1] <= R[t][2]
               /\ \A t, u \in 0..(MaxThreads - 1), x \in Nat :
                    R[t][1] <= x /\ x < R[t][2] /\ R[u][1] <= x /\ x < R[u][2] => t = u
               /\ \A x \in 0..(n - 1) : \E t \in 0..(MaxThreads - 1) : R[t][1] <= x /\ x < R[t][2]
<1> DEFINE R == Ranges(n, grain, threads)
           used == IF grain > 0 THEN Least(threads, CeilDiv(n, grain)) ELSE threads
           chunk == CeilDiv(n, used)
           T == 0..(MaxThreads - 1)
<1>0. MaxThreads \in Nat \ {0}
  BY ParallelKernelsAssumption
<1>1. CASE n <= 1 \/ n <= grain \/ threads = 1
  <2>1. \A t \in T : R[t] = IF t = 0 THEN <<0, n>> ELSE <<n, n>>
    BY <1>1 DEF Ranges
  <2> QED
    BY <2>1, <1>0
<1>2. CASE ~(n <= 1 \/ n <= grain \/ threads = 1)
  <2>1. used \in 1..MaxThreads /\ n > 1
    <3>1. CASE grain > 0
      <4>1. grain \in Nat \ {0} /\ n # 0
        BY <3>1, <1>2
      <4>2. CeilDiv(n, grain) \in Nat \ {0}
        BY <4>1, CeilDivBounds
      <4> QED
        BY <4>2, <3>1, <1>0, <1>2 DEF Least
    <3>2. CASE ~(grain > 0)
      BY <3>2, <1>0, <1>2
    <3> QED
      BY <3>1, <3>2
  <2>2. /\ chunk \in Nat \ {0} /\ n <= chunk * used
        /\ \A t \in T : R[t] = <<Least(t * chunk, n), Least((t + 1) * chunk, n)>>
    <3>1. chunk \in Nat \ {0} /\ n <= chunk * used
      <4> HIDE DEF used
      <4>1. used \in Nat \ {0} /\ n # 0
        BY <2>1, <1>0
      <4> QED
        BY <4>1, CeilDivBounds, Zenon
    <3> QED
      BY <3>1, <1>2, <1>0 DEF Ranges
  <2> HIDE DEF R, used, chunk
  <2>3. \A t \in T : t * chunk \in Nat /\ (t + 1) * chunk \in Nat /\ (t + 1) * chunk = t * chunk + chunk
    BY <2>2, <1>0
  <2>4. \A t \in T : R[t][1] \in 0..n /\ R[t][2] \in 0..n /\ R[t][1] <= R[t][2]
    BY <2>2, <2>3 DEF Least
  <2>5. ASSUME NEW t \in T, NEW u \in T, NEW x \in Nat, t < u, x < R[t][2]
        PROVE  x < R[u][1]
    <3>0. chunk \in Nat \ {0} /\ t \in Int /\ u \in Int /\ t < u
      BY <2>2, <2>5, <1>0
    <3>1. t * chunk + chunk <= u * chunk
      BY <3>0, MultiplesApart, Zenon
    <3>2. /\ R[t][2] = Least((t + 1) * chunk, n)
          /\ R[u][1] = Least(u * chunk, n)
      BY <2>2
    <3> QED
      BY <3>1, <3>2, <2>3, <2>5 DEF Least
  <2>6. \A t, u \in T, x \in Nat :
          R[t][1] <= x /\ x < R[t][2] /\ R[u][1] <= x /\ x < R[u][2] => t = u
    BY <2>4, <2>5, <1>0
  <2>7. ASSUME NEW x \in 0..(n - 1) PROVE \E t \in T : R[t][1] <= x /\ x < R[t][2]
    <3> DEFINE t == x \div chunk
    <3>1. t \in Nat /\ x = t * chunk + (x % chunk) /\ x % chunk \in 0..(chunk - 1) /\ x \in Nat
      <4>1. x \in Nat
        OBVIOUS
      <4> QED
        BY <4>1, <2>2, DivMod, Zenon
    <3> HIDE DEF t
    <3>2. used < t => used * chunk + chunk <= t * chunk
      BY <3>1, <2>1, <2>2, MultiplesApart
    <3>3. t * chunk \in Nat /\ used * chunk \in Nat /\ used * chunk = chunk * used
      BY <3>1, <2>1, <2>2
    <3>4. t # used
      BY <3>1, <3>3, <2>2
    <3>5. t \in T
      BY <3>1, <3>2, <3>3, <3>4, <2>1, <2>2, <1>0
    <3>6. R[t] = <<Least(t * chunk, n), Least((t + 1) * chunk, n)>>
      BY <3>5, <2>2
    <3>7. t * chunk <= x /\ x < (t + 1) * chunk /\ x < n
      BY <3>1, <3>3, <3>5, <2>3, <2>2
    <3> QED
      BY <3>5, <3>6, <3>7, <2>3 DEF Least
  <2> QED
    BY <2>4, <2>6, <2>7 DEF R
<1> QED
  BY <1>1, <1>2

\* The cells of task t, if a loop cuts rows of d cells in tiles of w.
TileCells(d, w, t) ==
    LET row  == t \div CeilDiv(d, w)
        tile == t % CeilDiv(d, w)
    IN  {row * d + tile * w + j : j \in 0..(Least(w, d - tile * w) - 1)}

\* Where a cell of task t lies, and the tile a cell lies in.
LEMMA TileCell ==
    ASSUME NEW d \in Nat \ {0}, NEW w \in Nat \ {0}, NEW t \in Nat, NEW x \in TileCells(d, w, t)
    PROVE  /\ x \in Nat
           /\ x \div d = t \div CeilDiv(d, w)
           /\ (x % d) \div w = t % CeilDiv(d, w)
<1> DEFINE C == CeilDiv(d, w)
           row == t \div C
           tile == t % C
<1>1. C \in Nat \ {0}
  BY CeilDivBounds
<1>2. row \in Nat /\ tile \in 0..(C - 1)
  BY <1>1, DivMod
<1>3. tile * w < d
  BY <1>2, TileBegins
<1>4. PICK j \in 0..(Least(w, d - tile * w) - 1) : x = row * d + tile * w + j
  BY DEF TileCells
<1> HIDE DEF C, row, tile
<1>5. tile \in Nat /\ tile * w \in Nat /\ row * d \in Nat
  BY <1>1, <1>2
<1>6. j \in 0..(w - 1) /\ tile * w + j \in 0..(d - 1)
  BY <1>3, <1>4, <1>5 DEF Least
<1> DEFINE col == tile * w + j
<1>7. col \in 0..(d - 1) /\ x = row * d + col /\ x \in Nat
  BY <1>4, <1>5, <1>6
<1>8. x \div d = row /\ x % d = col
  <2> HIDE DEF col
  <2>1. row \in Int
    BY <1>2
  <2> QED
    BY <2>1, <1>7, DivUnique, Zenon
<1>9. col \div w = tile
  <2>1. tile \in Int /\ col = tile * w + j /\ col \in Nat
    BY <1>5, <1>6
  <2> HIDE DEF col
  <2> QED
    BY <2>1, <1>6, DivUnique, Zenon
<1> QED
  BY <1>7, <1>8, <1>9 DEF C, row, tile

\* The tiles of n rows are the cells of n rows, each once.
LEMMA TilesPartition ==
    ASSUME NEW n \in Nat \ {0}, NEW d \in Nat \ {0}, NEW w \in Nat \ {0}
    PROVE  LET T == 0..(n * CeilDiv(d, w) - 1)
           IN  /\ \A t \in T : TileCells(d, w, t) \subseteq 0..(n * d - 1)
               /\ \A t, u \in T : TileCells(d, w, t) \cap TileCells(d, w, u) # {} => t = u
               /\ \A x \in 0..(n * d - 1) : \E t \in T : x \in TileCells(d, w, t)
<1> DEFINE C == CeilDiv(d, w)
           T == 0..(n * C - 1)
<1>1. C \in Nat \ {0} /\ T \subseteq Nat
  BY CeilDivBounds
<1>2. ASSUME NEW t \in T, NEW x \in TileCells(d, w, t)
      PROVE  x \in 0..(n * d - 1)
  <2> DEFINE row == x \div d
  <2>1. x \in Nat /\ row = t \div C
    BY <1>1, <1>2, TileCell
  <2>2. row \in Nat /\ t = row * C + (t % C) /\ t % C \in 0..(C - 1)
    BY <1>1, <2>1, DivMod
  <2>3. x = row * d + (x % d) /\ x % d \in 0..(d - 1)
    BY <2>1, DivMod
  <2> HIDE DEF row, C
  <2>4. row * C \in Nat /\ n * C \in Nat /\ row * d \in Nat /\ n * d \in Nat
    BY <1>1, <2>2
  <2>5. n < row => n * C + C <= row * C
    BY <1>1, <2>2, MultiplesApart
  <2>6. row # n
    BY <1>1, <2>2, <2>4
  <2>7. row < n
    BY <1>1, <2>2, <2>4, <2>5, <2>6
  <2>8. row * d + d <= n * d
    BY <2>2, <2>7, MultiplesApart
  <2> QED
    BY <2>1, <2>3, <2>4, <2>8
<1>3. ASSUME NEW t \in T, NEW u \in T, NEW x, x \in TileCells(d, w, t), x \in TileCells(d, w, u)
      PROVE  t = u
  <2>1. t \div C = u \div C /\ t % C = u % C
    BY <1>1, <1>3, TileCell
  <2>2. t = (t \div C) * C + (t % C) /\ u = (u \div C) * C + (u % C)
    BY <1>1, DivMod
  <2> QED
    BY <2>1, <2>2, Zenon
<1>4. ASSUME NEW x \in 0..(n * d - 1)
      PROVE  \E t \in T : x \in TileCells(d, w, t)
  <2> DEFINE row == x \div d
             col == x % d
             tile == col \div w
             j == col % w
             t == row * C + tile
  <2>0. x \in Nat
    OBVIOUS
  <2>1. row \in Nat /\ col \in 0..(d - 1) /\ x = row * d + col
    BY <2>0, DivMod, Zenon
  <2>2. tile \in 0..(C - 1)
    <3> HIDE DEF col
    <3> QED
      BY <2>1, TileOfPlace
  <2>3. j \in 0..(w - 1) /\ col = tile * w + j
    <3> HIDE DEF col
    <3> QED
      BY <2>1, DivMod
  <2> HIDE DEF row, col, tile, j, C
  <2>4. row * C \in Nat /\ n * C \in Nat /\ row * d \in Nat /\ n * d \in Nat
        /\ tile \in Nat /\ tile * w \in Nat
    BY <1>1, <2>1, <2>2
  <2>5. row < n
    <3>1. n < row => n * d + d <= row * d
      BY <2>1, MultiplesApart
    <3>2. n # row
      BY <2>1, <2>4
    <3> QED
      BY <3>1, <3>2, <2>1, <2>4
  <2>6. row * C + C <= n * C
    BY <1>1, <2>1, <2>5, MultiplesApart
  <2>7. t \in T
    BY <2>2, <2>4, <2>6, <1>1
  <2>8. t \div C = row /\ t % C = tile
    BY <2>1, <2>2, <2>4, <1>1, DivUnique
  <2>9. j \in 0..(Least(w, d - tile * w) - 1) /\ x = row * d + tile * w + j
    BY <2>1, <2>3, <2>4 DEF Least
  <2>10. x \in TileCells(d, w, t)
    BY <2>8, <2>9 DEF TileCells, C
  <2> QED
    BY <2>7, <2>10
<1> QED
  BY <1>2, <1>3, <1>4

\* Of whole rows there is one tile a row, of cells one a cell.
LEMMA TilesOfRow ==
    ASSUME NEW d \in Nat \ {0}
    PROVE  CeilDiv(d, d) = 1 /\ CeilDiv(d, 1) = d
<1>1. d + d - 1 = 1 * d + (d - 1) /\ d - 1 \in 0..(d - 1) /\ d + d - 1 \in Nat
  OBVIOUS
<1>2. CeilDiv(d, d) = 1
  BY <1>1, DivUnique DEF CeilDiv
<1> QED
  BY <1>2 DEF CeilDiv

\* A tile of a whole row, and a tile of one cell.
LEMMA RowTile ==
    ASSUME NEW d \in Nat \ {0}, NEW t \in Nat
    PROVE  TileCells(d, d, t) = {t * d + h : h \in 0..(d - 1)}
<1>1. CeilDiv(d, d) = 1
  BY TilesOfRow
<1>2. t \div 1 = t /\ t % 1 = 0 /\ t * d \in Nat
  OBVIOUS
<1>3. TileCells(d, d, t) = {t * d + 0 * d + j : j \in 0..(Least(d, d - 0 * d) - 1)}
  BY <1>1, <1>2 DEF TileCells
<1>4. Least(d, d - 0 * d) = d
  BY DEF Least
<1>5. \A j : t * d + 0 * d + j = t * d + j
  <2> QED BY <1>2
<1> QED
  BY <1>1, <1>3, <1>4, <1>5

\* A tile of one cell.
LEMMA CellTile ==
    ASSUME NEW d \in Nat \ {0}, NEW t \in Nat
    PROVE  TileCells(d, 1, t) = {t}
<1>1. CeilDiv(d, 1) = d
  BY TilesOfRow
<1>2. t = (t \div d) * d + (t % d) /\ t % d \in 0..(d - 1) /\ t \div d \in Nat
  BY DivMod
<1> DEFINE row == t \div d
           tile == t % d
<1>3. TileCells(d, 1, t) = {row * d + tile * 1 + j : j \in 0..(Least(1, d - tile * 1) - 1)}
  BY <1>1 DEF TileCells
<1> HIDE DEF row, tile
<1>4. row * d \in Nat /\ tile \in 0..(d - 1) /\ t = row * d + tile
  BY <1>2 DEF row, tile
<1>5. Least(1, d - tile * 1) = 1
  BY <1>4 DEF Least
<1>6. TileCells(d, 1, t) = {row * d + tile * 1 + j : j \in {0}}
  BY <1>3, <1>5
<1> QED
  BY <1>1, <1>4, <1>6

-----------------------------------------------------------------------------
(* Tasks and their cells. *)

\* The loop that writes the output.
LastLoop(c) == IF TwoLoops(c) THEN "second" ELSE "first"

\* Kernels that give one cell to a row of their input.
RowKernels == {"topk", "sinkhorn"}

\* Kernels that attend.
Attending == AttendKernels \cup {"attend_masked"} \cup MlaForms

\* Kernels that fill whole rows.
WholeRows == {"combine", "key_write"} \cup TokenForms

\* All kernels.
Kernels ==
    PoolKernels \cup AttendKernels \cup LogitsKernels \cup MlaForms \cup TokenForms
        \cup {"combine", "attend_masked", "topk", "sinkhorn", "key_write"}

\* Cells of a row of the output.
RowCells(c) == IF c.kernel \in RowKernels THEN 1 ELSE c.d

\* Cells of the tiles a row of the output is cut into.
TaskWidth(c) ==
    IF c.kernel \in PoolKernels THEN PoolTile(c)
    ELSE IF c.kernel \in LogitsKernels THEN (IF TwoLoops(c) THEN LogitsTile(c) ELSE 1)
    ELSE IF c.kernel \in Attending THEN (IF AttendPath(c) = "attend_blockbf16" THEN c.d ELSE 1)
    ELSE IF c.kernel \in WholeRows THEN c.d ELSE 1

\* The cells of a task.
TaskCells(c, t) == TileCells(RowCells(c), TaskWidth(c), t)

\* A kernel is of one kind.
LEMMA KindsApart ==
    ASSUME NEW k
    PROVE  /\ k \in Kernels <=>
                 k \in PoolKernels \cup Attending \cup LogitsKernels \cup RowKernels \cup WholeRows
           /\ k \in PoolKernels =>
                 k \notin Attending /\ k \notin LogitsKernels /\ k \notin RowKernels /\ k \notin WholeRows
           /\ k \in Attending =>
                 k \notin PoolKernels /\ k \notin LogitsKernels /\ k \notin RowKernels /\ k \notin WholeRows
           /\ k \in LogitsKernels =>
                 k \notin PoolKernels /\ k \notin Attending /\ k \notin RowKernels /\ k \notin WholeRows
           /\ k \in RowKernels =>
                 k \notin PoolKernels /\ k \notin Attending /\ k \notin LogitsKernels /\ k \notin WholeRows
           /\ k \in WholeRows =>
                 k \notin PoolKernels /\ k \notin Attending /\ k \notin LogitsKernels /\ k \notin RowKernels
           /\ k \in RowKernels <=> k = "topk" \/ k = "sinkhorn"
           /\ k \in WholeRows <=> k = "combine" \/ k \in TokenForms \cup {"key_write"}
           /\ k \in Attending <=> k \in AttendKernels \cup {"attend_masked"} \cup MlaForms
<1>1. k \in Kernels <=> k \in PoolKernels \cup Attending \cup LogitsKernels \cup RowKernels \cup WholeRows
  BY Zenon DEF Kernels, Attending, RowKernels, WholeRows
<1>2. /\ k \in RowKernels <=> k = "topk" \/ k = "sinkhorn"
      /\ k \in WholeRows <=> k = "combine" \/ k \in TokenForms \cup {"key_write"}
      /\ k \in Attending <=> k \in AttendKernels \cup {"attend_masked"} \cup MlaForms
  BY Zenon DEF Attending, RowKernels, WholeRows
<1>3. CASE k \in PoolKernels
  BY <1>1, <1>2, <1>3
  DEF PoolKernels, Attending, AttendKernels, MlaForms, LogitsKernels, RowKernels, WholeRows,
      TokenForms
<1>4. CASE k \in LogitsKernels
  BY <1>1, <1>2, <1>4
  DEF PoolKernels, Attending, AttendKernels, MlaForms, LogitsKernels, RowKernels, WholeRows,
      TokenForms
<1>5. CASE k \in RowKernels
  BY <1>1, <1>2, <1>5
  DEF PoolKernels, Attending, AttendKernels, MlaForms, LogitsKernels, RowKernels, WholeRows,
      TokenForms
<1>6. CASE k \in WholeRows
  BY <1>1, <1>2, <1>6
  DEF PoolKernels, Attending, AttendKernels, MlaForms, LogitsKernels, RowKernels, WholeRows,
      TokenForms
<1>7. CASE k \notin PoolKernels /\ k \notin LogitsKernels /\ k \notin RowKernels /\ k \notin WholeRows
  BY <1>1, <1>2, <1>7
<1> QED
  BY <1>3, <1>4, <1>5, <1>6, <1>7

\* The shape of a call.
LEMMA CallShape ==
    ASSUME NEW c \in Calls
    PROVE  /\ c.kernel \in Kernels
           /\ c.n \in Nat \ {0} /\ c.threads \in 1..MaxThreads /\ c.grain \in {NegInf, 0, 1}
           /\ RowCells(c) \in Nat \ {0}
           /\ c.kernel # "sinkhorn" => c.d \in Nat \ {0}
           /\ c.kernel \in LogitsKernels \cup {"topk"} => c.k \in Nat \ {0}
<1>1. c.kernel \in Kernels
  <2>1. c.kernel \in PoolKernels \cup {"pool", "combine"} \cup AttendKernels \cup {"attend_masked", "topk"}
          \cup LogitsKernels \cup {"sinkhorn"} \cup MlaForms \cup TokenForms \cup {"key_write"}
    BY DEF Calls, Call, TorchCall
  <2>2. "pool" \in PoolKernels
    BY DEF PoolKernels
  <2> QED BY <2>1, <2>2, Zenon DEF Kernels
<1>2. c.n \in 1..MaxN /\ c.threads \in {1} \cup 1..MaxThreads /\ c.grain \in {NegInf, 0, 1}
  BY DEF Calls, Call, TorchCall
<1>3. c.kernel # "sinkhorn" => c.d \in 1..MaxD \cup 1..2
  BY DEF Calls, Call, TorchCall
<1>4. c.kernel \in LogitsKernels \cup {"topk"} => c.k \in 1..2
  <2>1. \/ c.kernel \in PoolKernels \cup Attending \cup WholeRows \cup {"sinkhorn"}
        \/ c.k \in 1..2
    <3>1. "pool" \in PoolKernels
      BY DEF PoolKernels
    <3> QED BY <3>1 DEF Calls, Call, TorchCall, Attending, WholeRows
  <2> QED BY <2>1, KindsApart
<1>5. MaxN \in Nat \ {0} /\ MaxD \in Nat \ {0} /\ MaxThreads \in Nat \ {0}
  BY ParallelKernelsAssumption
<1> QED
  BY <1>1, <1>2, <1>3, <1>4, <1>5 DEF RowCells, RowKernels

\* Tiles are not empty.
LEMMA WidthIsPositive ==
    ASSUME NEW c \in Calls
    PROVE  TaskWidth(c) \in Nat \ {0}
<1>0. /\ c.n \in Nat \ {0} /\ c.threads \in Nat /\ VW \in Nat \ {0} /\ MaxTile \in Nat \ {0}
      /\ c.kernel # "sinkhorn" => c.d \in Nat \ {0}
      /\ c.kernel \in LogitsKernels => c.k \in Nat
  BY CallShape, ParallelKernelsAssumption, OnlineSoftmaxAssumption
<1>1. CASE c.kernel \in PoolKernels
  <2> DEFINE dpt == Most(1, CeilDiv(2 * c.threads, c.n))
             per == CeilDiv(Most(VW, CeilDiv(c.d, dpt)), VW)
  <2>0. 2 * c.threads \in Nat /\ c.d \in Nat
    BY <1>0, <1>1, KindsApart
  <2>1. dpt \in Nat \ {0}
    <3>1. CeilDiv(2 * c.threads, c.n) \in Nat
      BY <1>0, <2>0, CeilDivBounds
    <3> QED BY <3>1 DEF Most
  <2>2. per \in Nat \ {0}
    <3> HIDE DEF dpt
    <3>1. CeilDiv(c.d, dpt) \in Nat
      BY <2>0, <2>1, CeilDivBounds
    <3>2. Most(VW, CeilDiv(c.d, dpt)) \in Nat /\ Most(VW, CeilDiv(c.d, dpt)) # 0
      BY <3>1, <1>0 DEF Most
    <3> QED BY <3>2, <1>0, CeilDivBounds
  <2>3. TaskWidth(c) = VW * per
    BY <1>1 DEF PoolTile, TaskWidth
  <2> HIDE DEF per
  <2> QED BY <1>0, <2>2, <2>3
<1>2. CASE c.kernel \in LogitsKernels
  <2> DEFINE tpn == Most(1, CeilDiv(c.k * c.threads, c.n))
             per == CeilDiv(CeilDiv(c.d, tpn), VW)
  <2>0. c.k * c.threads \in Nat /\ c.d \in Nat
    BY <1>0, <1>2, KindsApart
  <2>1. tpn \in Nat \ {0}
    <3>1. CeilDiv(c.k * c.threads, c.n) \in Nat
      BY <1>0, <2>0, CeilDivBounds
    <3> QED BY <3>1 DEF Most
  <2>2. per \in Nat
    <3> HIDE DEF tpn
    <3>1. CeilDiv(c.d, tpn) \in Nat
      BY <2>0, <2>1, CeilDivBounds
    <3> QED BY <3>1, <1>0, CeilDivBounds
  <2>3. TaskWidth(c) \in {1, Least(MaxTile, Most(VW, VW * per))}
    BY <1>2, KindsApart DEF LogitsTile, TaskWidth
  <2> HIDE DEF per
  <2>5. VW * per \in Nat
    BY <1>0, <2>2
  <2> QED BY <1>0, <2>3, <2>5 DEF Least, Most
<1>3. CASE c.kernel \notin PoolKernels /\ c.kernel \notin LogitsKernels
  <2>1. TaskWidth(c) # 1 => c.kernel # "sinkhorn"
    BY <1>3, KindsApart DEF TaskWidth
  <2>2. TaskWidth(c) \in {1, c.d}
    BY <1>3 DEF TaskWidth
  <2> QED BY <1>0, <2>1, <2>2
<1> QED
  BY <1>1, <1>2, <1>3

\* The loop that writes the output has as many tasks as its rows have tiles,
\* and a task fills the cells of its tile and no others.
LEMMA PoolTiling ==
    ASSUME NEW c \in Calls, c.kernel \in PoolKernels, NEW t \in Nat, NEW s,
           NEW r \in Results(c, LastLoop(c), t, s)
    PROVE  DOMAIN r.cells = TaskCells(c, t)
<1>0. /\ c.kernel \notin AttendKernels \cup {"attend_masked"} \cup MlaForms
      /\ c.kernel # "topk" /\ c.kernel # "combine" /\ c.kernel \notin TokenForms \cup {"key_write"}
      /\ c.kernel # "sinkhorn" /\ c.kernel \notin LogitsKernels
  BY KindsApart
<1>1. r = PoolTask(c, t, s)
  BY <1>0 DEF Results
<1>2. RowCells(c) = c.d /\ TaskWidth(c) = PoolTile(c)
  BY KindsApart DEF RowCells, TaskWidth
<1> QED
  BY <1>1, <1>2 DEF TaskCells, TileCells, PoolTask, PoolTiles, PoolWidth

\* The heads of the queries, or the queries, are the tasks of attention.
LEMMA AttendTiling ==
    ASSUME NEW c \in Calls, c.kernel \in Attending
    PROVE  /\ Tasks(c, LastLoop(c)) = c.n * CeilDiv(RowCells(c), TaskWidth(c))
           /\ \A t \in Nat : \A s : \A r \in Results(c, LastLoop(c), t, s) : DOMAIN r.cells = TaskCells(c, t)
<1>1. /\ c.kernel \notin PoolKernels /\ c.kernel \notin LogitsKernels /\ c.kernel \notin RowKernels
      /\ c.kernel \in AttendKernels \cup {"attend_masked"} \cup MlaForms
  BY KindsApart
<1>2. /\ Tasks(c, LastLoop(c)) = AttendTasks(c)
      /\ \A t, s : Results(c, LastLoop(c), t, s) = {AttendTask(c, t, s)}
  <2>1. /\ c.kernel # "combine" /\ c.kernel \notin TokenForms \cup {"key_write"}
        /\ c.kernel # "topk" /\ c.kernel # "sinkhorn"
    <3>1. c.kernel \notin WholeRows
      BY KindsApart
    <3> QED BY <1>1, <3>1, KindsApart
  <2>2. LogitsPath(c) # "logits_tiled"
    BY <1>1 DEF LogitsPath, LogitsKernels
  <2> QED BY <1>1, <2>1, <2>2 DEF Tasks, Results
<1>3. RowCells(c) = c.d /\ TaskWidth(c) = IF AttendPath(c) = "attend_blockbf16" THEN c.d ELSE 1
  BY <1>1 DEF RowCells, TaskWidth
<1>4. c.d \in Nat \ {0} /\ c.n \in Nat
  BY <1>1, CallShape DEF RowKernels
<1>5. CeilDiv(c.d, c.d) = 1 /\ CeilDiv(c.d, 1) = c.d
  BY <1>4, TilesOfRow
<1>6. \A t \in Nat : TaskCells(c, t) = IF AttendPath(c) = "attend_blockbf16"
                                       THEN {t * c.d + h : h \in 0..(c.d - 1)} ELSE {t}
  BY <1>3, <1>4, RowTile, CellTile DEF TaskCells
<1>7. AttendTasks(c) = c.n * CeilDiv(RowCells(c), TaskWidth(c))
  BY <1>3, <1>4, <1>5 DEF AttendTasks
<1>8. \A t, s : DOMAIN AttendTask(c, t, s).cells = IF AttendPath(c) = "attend_blockbf16"
                                       THEN {t * c.d + h : h \in 0..(c.d - 1)} ELSE {t}
  BY DEF AttendTask
<1>9. ASSUME NEW t \in Nat, NEW s, NEW r \in Results(c, LastLoop(c), t, s)
      PROVE  DOMAIN r.cells = TaskCells(c, t)
  <2>1. r = AttendTask(c, t, s)
    BY <1>2, Zenon
  <2>2. DOMAIN r.cells = IF AttendPath(c) = "attend_blockbf16"
                         THEN {t * c.d + h : h \in 0..(c.d - 1)} ELSE {t}
    BY <2>1, <1>8, Zenon
  <2> QED BY <2>2, <1>6, Zenon
<1> QED
  BY <1>2, <1>7, <1>9

\* The tiles of the rows, or the keys, are the tasks of the logits.
LEMMA LogitsTiling ==
    ASSUME NEW c \in Calls, c.kernel \in LogitsKernels
    PROVE  /\ Tasks(c, LastLoop(c)) = c.n * CeilDiv(RowCells(c), TaskWidth(c))
           /\ \A t \in Nat : \A s : \A r \in Results(c, LastLoop(c), t, s) : DOMAIN r.cells = TaskCells(c, t)
<1>1. /\ c.kernel \notin PoolKernels /\ c.kernel \notin Attending /\ c.kernel \notin RowKernels
      /\ c.kernel \notin WholeRows
  BY KindsApart
<1>2. /\ c.kernel \notin AttendKernels \cup {"attend_masked"} \cup MlaForms
      /\ c.kernel # "topk" /\ c.kernel # "combine" /\ c.kernel \notin TokenForms \cup {"key_write"}
      /\ c.kernel # "sinkhorn"
  BY <1>1, KindsApart
<1>3. RowCells(c) = c.d /\ TaskWidth(c) = IF TwoLoops(c) THEN LogitsTile(c) ELSE 1
  BY <1>1 DEF RowCells, TaskWidth
<1>4. c.d \in Nat \ {0} /\ c.n \in Nat
  BY <1>2, CallShape
<1>5. TwoLoops(c) <=> LogitsPath(c) = "logits_tiled"
  BY <1>2 DEF TwoLoops
<1>6. CASE TwoLoops(c)
  <2>1. /\ Tasks(c, LastLoop(c)) = c.n * LogitsTiles(c)
        /\ \A t, s : Results(c, LastLoop(c), t, s) = {TiledTask(c, t, s)}
    BY <1>1, <1>2, <1>5, <1>6 DEF Tasks, Results, LastLoop
  <2>2. \A t, s : DOMAIN TiledTask(c, t, s).cells = TaskCells(c, t)
    BY <1>3, <1>6 DEF TaskCells, TileCells, TiledTask, LogitsTiles
  <2> QED BY <2>1, <2>2, <1>3, <1>6 DEF LogitsTiles
<1>7. CASE ~TwoLoops(c)
  <2>1. /\ Tasks(c, LastLoop(c)) = c.n * c.d
        /\ \A t, s : Results(c, LastLoop(c), t, s) = {LogitTask(c, t, s)}
    BY <1>1, <1>2, <1>5, <1>7 DEF Tasks, Results, LastLoop
  <2>2. \A t \in Nat : TaskCells(c, t) = {t}
    BY <1>3, <1>4, <1>7, CellTile DEF TaskCells
  <2>3. CeilDiv(c.d, 1) = c.d
    BY <1>4, TilesOfRow
  <2>4. \A t, s : DOMAIN LogitTask(c, t, s).cells = {t}
    BY DEF LogitTask
  <2>5. ASSUME NEW t \in Nat, NEW s, NEW r \in Results(c, LastLoop(c), t, s)
        PROVE  DOMAIN r.cells = TaskCells(c, t)
    <3>1. r = LogitTask(c, t, s)
      BY <2>1, Zenon
    <3> QED BY <3>1, <2>2, <2>4, Zenon
  <2> QED BY <2>1, <2>3, <2>5, <1>3, <1>7
<1> QED
  BY <1>6, <1>7

\* The rows are the tasks of top-k and sinkhorn.
LEMMA RowTiling ==
    ASSUME NEW c \in Calls, c.kernel \in RowKernels
    PROVE  /\ Tasks(c, LastLoop(c)) = c.n * CeilDiv(RowCells(c), TaskWidth(c))
           /\ \A t \in Nat : \A s : \A r \in Results(c, LastLoop(c), t, s) : DOMAIN r.cells = TaskCells(c, t)
<1>1. /\ c.kernel \notin PoolKernels /\ c.kernel \notin Attending /\ c.kernel \notin LogitsKernels
      /\ c.kernel \notin WholeRows /\ (c.kernel = "topk" \/ c.kernel = "sinkhorn")
  BY KindsApart
<1>2. /\ c.kernel \notin AttendKernels \cup {"attend_masked"} \cup MlaForms
      /\ c.kernel # "combine" /\ c.kernel \notin TokenForms \cup {"key_write"}
  BY <1>1, KindsApart
<1>3. RowCells(c) = 1 /\ TaskWidth(c) = 1 /\ CeilDiv(1, 1) = 1 /\ c.n \in Nat
  BY <1>1, CallShape DEF RowCells, TaskWidth, CeilDiv
<1>4. LogitsPath(c) = c.kernel
  BY <1>1 DEF LogitsPath
<1>5. Tasks(c, LastLoop(c)) = c.n
  BY <1>1, <1>2, <1>4 DEF Tasks, LastLoop
<1>6. \A t, s : \A r \in Results(c, LastLoop(c), t, s) :
        r \in TopkRow(c, t, s) \cup TopkMerge(c, t, s) \cup {SinkhornTask(c, t, s)}
  BY <1>1, <1>2 DEF Results, LastLoop
<1>7. \A t, s : \A r \in TopkRow(c, t, s) \cup TopkMerge(c, t, s) \cup {SinkhornTask(c, t, s)} :
        DOMAIN r.cells = {t}
  <2>1. \A t, s : \A r \in TopkRow(c, t, s) : DOMAIN r.cells = {t}
    BY DEF TopkRow
  <2>2. ASSUME NEW t, NEW s, NEW r \in TopkMerge(c, t, s) PROVE DOMAIN r.cells = {t}
    <3>1. PICK sel : r = [cells |-> [i \in {t} |-> sel], scratch |-> s]
      BY Zenon DEF TopkMerge
    <3> QED BY <3>1
  <2>3. \A t, s : DOMAIN SinkhornTask(c, t, s).cells = {t}
    BY DEF SinkhornTask
  <2> QED BY <2>1, <2>2, <2>3
<1>8. \A t \in Nat : TaskCells(c, t) = {t}
  BY <1>3, CellTile DEF TaskCells
<1>9. ASSUME NEW t \in Nat, NEW s, NEW r \in Results(c, LastLoop(c), t, s)
      PROVE  DOMAIN r.cells = TaskCells(c, t)
  BY <1>6, <1>7, <1>8
<1>10. Tasks(c, LastLoop(c)) = c.n * CeilDiv(RowCells(c), TaskWidth(c))
  BY <1>3, <1>5
<1> QED
  BY <1>9, <1>10

\* The rows are the tasks of combine and of the forms in torch, a row's cells a task's.
LEMMA WholeRowTiling ==
    ASSUME NEW c \in Calls, c.kernel \in WholeRows
    PROVE  /\ Tasks(c, LastLoop(c)) = c.n * CeilDiv(RowCells(c), TaskWidth(c))
           /\ \A t \in Nat : \A s : \A r \in Results(c, LastLoop(c), t, s) : DOMAIN r.cells = TaskCells(c, t)
<1>1. /\ c.kernel \notin PoolKernels /\ c.kernel \notin Attending /\ c.kernel \notin LogitsKernels
      /\ c.kernel \notin RowKernels
      /\ c.kernel = "combine" \/ c.kernel \in TokenForms \cup {"key_write"}
  BY KindsApart
<1>2. /\ c.kernel \notin AttendKernels \cup {"attend_masked"} \cup MlaForms
      /\ c.kernel # "topk" /\ c.kernel # "sinkhorn"
  BY <1>1, KindsApart
<1>3. RowCells(c) = c.d /\ TaskWidth(c) = c.d /\ c.n \in Nat /\ c.d \in Nat \ {0}
  BY <1>1, <1>2, CallShape DEF RowCells, TaskWidth
<1>4. LogitsPath(c) # "logits_tiled"
  BY <1>1 DEF LogitsPath, LogitsKernels
<1>5. Tasks(c, LastLoop(c)) = c.n
  BY <1>1, <1>2, <1>4 DEF Tasks
<1>6. \A t, s : \A r \in Results(c, LastLoop(c), t, s) : r = CombineTask(c, t, s) \/ r = TokenTask(c, t, s)
  BY <1>1, <1>2 DEF Results
<1>7. \A t, s : /\ DOMAIN CombineTask(c, t, s).cells = {t * c.d + h : h \in 0..(c.d - 1)}
               /\ DOMAIN TokenTask(c, t, s).cells = {t * c.d + h : h \in 0..(c.d - 1)}
  BY DEF CombineTask, TokenTask
<1>8. CeilDiv(c.d, c.d) = 1 /\ \A t \in Nat : TaskCells(c, t) = {t * c.d + h : h \in 0..(c.d - 1)}
  BY <1>3, RowTile, TilesOfRow DEF TaskCells
<1>9. ASSUME NEW t \in Nat, NEW s, NEW r \in Results(c, LastLoop(c), t, s)
      PROVE  DOMAIN r.cells = TaskCells(c, t)
  BY <1>6, <1>7, <1>8
<1>10. Tasks(c, LastLoop(c)) = c.n * CeilDiv(RowCells(c), TaskWidth(c))
  BY <1>3, <1>5, <1>8
<1> QED
  BY <1>9, <1>10

\* The tasks of a call are the tiles of its output.
LEMMA TasksAreTiles ==
    ASSUME NEW c \in Calls
    PROVE  /\ Tasks(c, LastLoop(c)) = c.n * CeilDiv(RowCells(c), TaskWidth(c))
           /\ \A t \in Nat : \A s : \A r \in Results(c, LastLoop(c), t, s) : DOMAIN r.cells = TaskCells(c, t)
           /\ Cells(c) = 0..(c.n * RowCells(c) - 1)
<1>1. Cells(c) = 0..(c.n * RowCells(c) - 1)
  BY CallShape DEF Cells, RowCells, RowKernels
<1>2. CASE c.kernel \in PoolKernels
  <2>0. /\ c.kernel \notin AttendKernels \cup {"attend_masked"} \cup MlaForms
        /\ c.kernel # "topk" /\ c.kernel \notin LogitsKernels
    BY <1>2, KindsApart
  <2>1. Tasks(c, LastLoop(c)) = PoolTasks(c)
    <3>1. LogitsPath(c) # "logits_tiled"
      BY <2>0 DEF LogitsPath, LogitsKernels
    <3> QED BY <1>2, <2>0, <3>1 DEF Tasks
  <2>2. RowCells(c) = c.d /\ TaskWidth(c) = PoolTile(c)
    BY <1>2, KindsApart DEF RowCells, TaskWidth
  <2> QED BY <1>1, <1>2, <2>1, <2>2, PoolTiling DEF PoolTasks, PoolTiles
<1>3. CASE c.kernel \notin PoolKernels
  <2>1. c.kernel \in Attending \/ c.kernel \in LogitsKernels \/ c.kernel \in RowKernels \/ c.kernel \in WholeRows
    BY <1>3, CallShape, KindsApart
  <2> QED BY <2>1, <1>1, AttendTiling, LogitsTiling, RowTiling, WholeRowTiling
<1> QED
  BY <1>2, <1>3

\* Every loop a call runs is cut into ranges.
LEMMA LoopIsCut ==
    ASSUME NEW c \in Calls, NEW loop \in {"first", LastLoop(c)}
    PROVE  Tasks(c, loop) \in Nat /\ Grain(c, loop) \in Nat /\ Threads(c) \in 1..MaxThreads
<1>0. /\ c.kernel \in Kernels /\ c.n \in Nat \ {0} /\ c.threads \in 1..MaxThreads
      /\ c.grain \in {-1, 0, 1} /\ MaxThreads \in Nat \ {0} /\ RowGrain \in Nat
      /\ c.kernel # "sinkhorn" => c.d \in Nat \ {0}
      /\ c.kernel \in LogitsKernels \cup {"topk"} => c.k \in Nat \ {0}
  BY CallShape, ParallelKernelsAssumption DEF NegInf
<1>1. Tasks(c, LastLoop(c)) \in Nat
  <2>1. CeilDiv(RowCells(c), TaskWidth(c)) \in Nat
    BY CallShape, WidthIsPositive, CeilDivBounds
  <2> QED BY <2>1, <1>0, TasksAreTiles
<1>2. ASSUME TwoLoops(c) PROVE Tasks(c, "first") \in Nat
  <2>1. CASE c.kernel = "topk"
    <3>1. K(c) \in Nat
      BY <1>0, <2>1 DEF K, Least
    <3>2. Most(c.n, 1) \in Nat \ {0} /\ Most(K(c), 1) \in Nat \ {0}
      BY <1>0, <3>1 DEF Most
    <3>3. c.threads \div Most(c.n, 1) \in Nat /\ c.d \div Most(K(c), 1) \in Nat
      <4>1. c.threads \in Nat /\ c.d \in Nat
        BY <1>0, <2>1
      <4> QED BY <4>1, <3>2, DivMod, Zenon
    <3>4. Chunks(c) \in Nat
      BY <3>3 DEF Chunks, Most, Least
    <3>5. LogitsPath(c) = "topk"
      BY <2>1 DEF LogitsPath
    <3>6. Tasks(c, "first") = c.n * Chunks(c)
      BY <1>2, <2>1, <3>5 DEF Tasks, PoolKernels, AttendKernels, MlaForms, LogitsKernels
    <3> QED BY <3>4, <3>6, <1>0
  <2>2. CASE c.kernel # "topk"
    <3>1. LogitsPath(c) = "logits_tiled"
      BY <1>2, <2>2 DEF TwoLoops
    <3>2. c.kernel \in LogitsKernels
      BY <3>1 DEF LogitsPath, LogitsKernels
    <3>3. c.kernel \notin PoolKernels /\ c.kernel \notin AttendKernels \cup {"attend_masked"} \cup MlaForms
      BY <3>2, KindsApart
    <3>4. Tasks(c, "first") = c.n
      BY <1>2, <2>2, <3>1, <3>2, <3>3 DEF Tasks
    <3> QED BY <3>4, <1>0
  <2> QED BY <2>1, <2>2
<1>3. Tasks(c, loop) \in Nat
  BY <1>1, <1>2 DEF LastLoop
<1>4. Grain(c, loop) \in Nat
  <2>1. c.kernel \in PoolKernels => PoolGrain(c) \in Nat
    <3> SUFFICES ASSUME c.kernel \in PoolKernels PROVE PoolGrain(c) \in Nat
      OBVIOUS
    <3>1. PoolTasks(c) \in Nat
      <4>1. RowCells(c) = c.d /\ TaskWidth(c) = PoolTile(c)
        BY KindsApart DEF RowCells, TaskWidth
      <4>2. PoolTiles(c) \in Nat
        BY <4>1, CallShape, WidthIsPositive, CeilDivBounds DEF PoolTiles
      <4> QED BY <4>2, <1>0 DEF PoolTasks
    <3>2. PoolGrain(c) \in {0, c.grain, PoolTasks(c)}
          /\ (PoolGrain(c) = c.grain => c.grain # -1 \/ PoolGrain(c) \in {0, PoolTasks(c)})
      BY DEF PoolGrain, NegInf
    <3> QED BY <3>1, <3>2, <1>0
  <2>2. Grain(c, loop) \in {PoolGrain(c), RowGrain, 1, 4096, 0}
    BY DEF Grain
  <2>3. c.kernel \notin PoolKernels => Grain(c, loop) \in {RowGrain, 1, 4096, 0}
    BY DEF Grain
  <2> QED BY <2>1, <2>2, <2>3, <1>0
<1>5. Threads(c) \in 1..MaxThreads
  BY <1>0 DEF Threads
<1> QED
  BY <1>3, <1>4, <1>5

-----------------------------------------------------------------------------
(* The runs of a loop. *)

\* The threads of the pool.
Pool == 0..(MaxThreads - 1)

\* The threads are inside their ranges of a loop the call has.
Progress ==
    /\ call \in Calls
    /\ running \in {"first", LastLoop(call), "done"}
    /\ pos \in [Pool -> Nat]
    /\ running # "done" =>
          \A t \in Pool : RangesOf(running)[t][1] <= pos[t] /\ pos[t] <= RangesOf(running)[t][2]

\* The tasks of the running loop that are over.
Over == {k \in Nat : \E t \in Pool : RangesOf(running)[t][1] <= k /\ k < pos[t]}

\* The ranges of the loop that runs.
LEMMA RangesNow ==
    ASSUME Progress, running # "done"
    PROVE  /\ \A t \in Pool : RangesOf(running)[t][1] \in Nat
                              /\ RangesOf(running)[t][2] \in 0..Tasks(call, running)
           /\ \A t, u \in Pool, x \in Nat :
                 RangesOf(running)[t][1] <= x /\ x < RangesOf(running)[t][2]
                 /\ RangesOf(running)[u][1] <= x /\ x < RangesOf(running)[u][2] => t = u
           /\ \A x \in 0..(Tasks(call, running) - 1) : \E t \in Pool :
                 RangesOf(running)[t][1] <= x /\ x < RangesOf(running)[t][2]
<1>1. /\ Tasks(call, running) \in Nat /\ Grain(call, running) \in Nat
      /\ Threads(call) \in 1..MaxThreads
  BY LoopIsCut DEF Progress
<1>2. RangesOf(running) = Ranges(Tasks(call, running), Grain(call, running), Threads(call))
  BY DEF RangesOf
<1> DEFINE n == Tasks(call, running)
           grain == Grain(call, running)
           threads == Threads(call)
<1>3. n \in Nat /\ grain \in Nat /\ threads \in 1..MaxThreads /\ RangesOf(running) = Ranges(n, grain, threads)
  BY <1>1, <1>2
<1> HIDE DEF n, grain, threads
<1>4. /\ \A t \in Pool : /\ RangesOf(running)[t][1] \in 0..n
                        /\ RangesOf(running)[t][2] \in 0..n
      /\ \A t, u \in Pool, x \in Nat :
            RangesOf(running)[t][1] <= x /\ x < RangesOf(running)[t][2]
            /\ RangesOf(running)[u][1] <= x /\ x < RangesOf(running)[u][2] => t = u
      /\ \A x \in 0..(n - 1) : \E t \in Pool :
            RangesOf(running)[t][1] <= x /\ x < RangesOf(running)[t][2]
  BY <1>3, RangesPartition DEF Pool
<1> QED
  BY <1>3, <1>4 DEF n

\* A loop begins with no task over.
LEMMA LoopBegins ==
    ASSUME NEW c \in Calls, NEW loop \in {"first", LastLoop(c)}
    PROVE  /\ Start(c, loop) \in [Pool -> Nat]
           /\ \A t \in Pool : LET R == Ranges(Tasks(c, loop), Grain(c, loop), Threads(c))[t]
                              IN  Start(c, loop)[t] = R[1] /\ R[1] <= R[2]
<1>1. Tasks(c, loop) \in Nat /\ Grain(c, loop) \in Nat /\ Threads(c) \in 1..MaxThreads
  BY LoopIsCut
<1>2. \A t \in Pool : LET R == Ranges(Tasks(c, loop), Grain(c, loop), Threads(c))[t]
                     IN  R[1] \in Nat /\ R[1] <= R[2]
  <2> DEFINE n == Tasks(c, loop)
             grain == Grain(c, loop)
             threads == Threads(c)
  <2>1. n \in Nat /\ grain \in Nat /\ threads \in 1..MaxThreads
    BY <1>1
  <2> HIDE DEF n, grain, threads
  <2>2. \A t \in Pool : Ranges(n, grain, threads)[t][1] \in 0..n
                       /\ Ranges(n, grain, threads)[t][1] <= Ranges(n, grain, threads)[t][2]
    BY <2>1, RangesPartition DEF Pool
  <2> QED BY <2>1, <2>2 DEF n, grain, threads
<1>3. Start(c, loop) = [t \in Pool |-> Ranges(Tasks(c, loop), Grain(c, loop), Threads(c))[t][1]]
  BY DEF Start, Pool
<1> QED
  BY <1>2, <1>3

\* A step runs a task that was not over.
LEMMA TaskIsNew ==
    ASSUME Progress, NEW t \in Pool, RunTask(t)
    PROVE  /\ Progress' /\ running # "done"
           /\ pos[t] \in 0..(Tasks(call, running) - 1)
           /\ pos[t] \notin Over
           /\ Over' = Over \cup {pos[t]}
<1>1. /\ running # "done" /\ pos[t] < RangesOf(running)[t][2]
      /\ pos' = [pos EXCEPT ![t] = @ + 1] /\ UNCHANGED <<call, running>>
  BY DEF RunTask
<1> DEFINE R == RangesOf(running)
<1>2. /\ \A u \in Pool : R[u][1] \in Nat /\ R[u][2] \in 0..Tasks(call, running)
      /\ \A u, v \in Pool, x \in Nat :
            R[u][1] <= x /\ x < R[u][2] /\ R[v][1] <= x /\ x < R[v][2] => u = v
  BY <1>1, RangesNow
<1>3. /\ \A u \in Pool : pos[u] \in Nat /\ R[u][1] <= pos[u] /\ pos[u] <= R[u][2]
      /\ \A u \in Pool : pos'[u] = IF u = t THEN pos[t] + 1 ELSE pos[u]
  BY <1>1 DEF Progress
<1>4. Tasks(call, running) \in Nat
  BY <1>1, LoopIsCut DEF Progress
<1>5. RangesOf(running)' = R
  BY <1>1 DEF RangesOf
<1> HIDE DEF R
<1>6. Progress'
  <2>1. pos' \in [Pool -> Nat]
    BY <1>1 DEF Progress
  <2>2. \A u \in Pool : R[u][1] <= pos'[u] /\ pos'[u] <= R[u][2]
    BY <1>1, <1>2, <1>3, <1>4 DEF R
  <2> QED BY <2>1, <2>2, <1>1, <1>5 DEF Progress, LastLoop
<1>7. pos[t] \in 0..(Tasks(call, running) - 1)
  BY <1>1, <1>2, <1>3, <1>4 DEF R
<1>8. Over = {k \in Nat : \E u \in Pool : R[u][1] <= k /\ k < pos[u]}
  BY DEF Over, R
<1>9. Over' = {k \in Nat : \E u \in Pool : R[u][1] <= k /\ k < pos'[u]}
  BY <1>5 DEF Over
<1>10. pos[t] \notin Over
  <2> SUFFICES ASSUME NEW u \in Pool, R[u][1] <= pos[t], pos[t] < pos[u] PROVE FALSE
    BY <1>8
  <2>1. u = t
    BY <1>1, <1>2, <1>3, <1>4 DEF R
  <2> QED BY <2>1, <1>3
<1>11. \A k \in Nat, u \in Pool : (R[u][1] <= k /\ k < pos'[u]) <=>
          (R[u][1] <= k /\ k < pos[u]) \/ (u = t /\ k = pos[t])
  BY <1>3, <1>2
<1>12. Over' = Over \cup {pos[t]}
  BY <1>3, <1>8, <1>9, <1>11
<1> QED
  BY <1>1, <1>6, <1>7, <1>10, <1>12

\* A loop that ends has run all its tasks.
LEMMA AllTasksOver ==
    ASSUME Progress, EndLoop
    PROVE  Over = 0..(Tasks(call, running) - 1)
<1>1. running # "done" /\ \A t \in Pool : pos[t] >= RangesOf(running)[t][2]
  BY DEF EndLoop, Progress
<1>2. \A t \in Pool : pos[t] = RangesOf(running)[t][2]
  <2>1. \A t \in Pool : RangesOf(running)[t][2] \in Nat
    <3>1. Tasks(call, running) \in Nat
      BY <1>1, LoopIsCut DEF Progress
    <3> QED BY <3>1, <1>1, RangesNow
  <2> QED BY <1>1, <2>1 DEF Progress
<1>3. Tasks(call, running) \in Nat
  BY <1>1, LoopIsCut DEF Progress
<1> QED
  BY <1>1, <1>2, <1>3, RangesNow DEF Over

\* What the output holds: the cells of the tasks that are over, each written once.
Filling ==
    /\ running = LastLoop(call) =>
          /\ DOMAIN out = UNION {TaskCells(call, k) : k \in Over}
          /\ IsFiniteSet(DOMAIN out) /\ writes = Cardinality(DOMAIN out)
    /\ running = "first" /\ TwoLoops(call) => DOMAIN out = {} /\ writes = 0
    /\ FilledOnce

\* Tasks that are over are tasks.
LEMMA OverAreTasks ==
    ASSUME Progress, running # "done"
    PROVE  Over \subseteq 0..(Tasks(call, running) - 1)
<1>1. Tasks(call, running) \in Nat
  BY LoopIsCut DEF Progress
<1>2. \A t \in Pool : pos[t] \in Nat /\ pos[t] <= RangesOf(running)[t][2]
  BY DEF Progress
<1> QED
  BY <1>1, <1>2, RangesNow DEF Over

\* The cells of the tasks of a call.
LEMMA CellsOfTasks ==
    ASSUME NEW c \in Calls
    PROVE  LET T == 0..(Tasks(c, LastLoop(c)) - 1)
           IN  /\ \A t \in T : TaskCells(c, t) \subseteq Cells(c) /\ IsFiniteSet(TaskCells(c, t))
               /\ \A t, u \in T : TaskCells(c, t) \cap TaskCells(c, u) # {} => t = u
               /\ UNION {TaskCells(c, t) : t \in T} = Cells(c)
<1> DEFINE n == c.n
           d == RowCells(c)
           w == TaskWidth(c)
           T == 0..(Tasks(c, LastLoop(c)) - 1)
<1>1. n \in Nat \ {0} /\ d \in Nat \ {0} /\ w \in Nat \ {0}
  BY CallShape, WidthIsPositive
<1>2. /\ T = 0..(n * CeilDiv(d, w) - 1) /\ Cells(c) = 0..(n * d - 1)
      /\ \A t : TaskCells(c, t) = TileCells(d, w, t)
  BY TasksAreTiles DEF TaskCells
<1> HIDE DEF n, d, w, T
<1>3. /\ \A t \in T : TileCells(d, w, t) \subseteq 0..(n * d - 1)
      /\ \A t, u \in T : TileCells(d, w, t) \cap TileCells(d, w, u) # {} => t = u
      /\ \A x \in 0..(n * d - 1) : \E t \in T : x \in TileCells(d, w, t)
  BY <1>1, <1>2, TilesPartition
<1>4. IsFiniteSet(0..(n * d - 1))
  <2>1. n * d - 1 \in Int
    BY <1>1
  <2> QED BY <2>1, FS_Interval
<1>5. \A t \in T : IsFiniteSet(TileCells(d, w, t))
  BY <1>3, <1>4, FS_Subset
<1>6. UNION {TaskCells(c, t) : t \in T} = Cells(c)
  BY <1>2, <1>3
<1> QED
  BY <1>2, <1>3, <1>5, <1>6 DEF T

\* Cells that are written for the first time add to the count what they add to
\* the output.
LEMMA NewCells ==
    ASSUME NEW f, NEW g, IsFiniteSet(DOMAIN f), IsFiniteSet(DOMAIN g), DOMAIN f \cap DOMAIN g = {}
    PROVE  /\ IsFiniteSet(DOMAIN f \cup DOMAIN g)
           /\ Cardinality(DOMAIN f \cup DOMAIN g) = Cardinality(DOMAIN f) + Cardinality(DOMAIN g)
<1>1. /\ IsFiniteSet(DOMAIN f \cup DOMAIN g)
      /\ Cardinality(DOMAIN f \cup DOMAIN g) =
           Cardinality(DOMAIN f) + Cardinality(DOMAIN g) - Cardinality(DOMAIN f \cap DOMAIN g)
  BY FS_Union
<1>2. Cardinality(DOMAIN f \cap DOMAIN g) = 0
  BY FS_EmptySet
<1>3. Cardinality(DOMAIN f) \in Nat /\ Cardinality(DOMAIN g) \in Nat
  BY FS_CardinalityType
<1> QED
  BY <1>1, <1>2, <1>3

\* A call begins with nothing filled.
LEMMA FillingInit ==
    ASSUME KernelInit
    PROVE  Progress /\ Filling /\ Over = {}
<1>1. call \in Calls /\ running = "first" /\ pos = Start(call, "first") /\ out = <<>> /\ writes = 0
  BY DEF KernelInit
<1>2. /\ pos \in [Pool -> Nat]
      /\ \A t \in Pool : pos[t] = RangesOf("first")[t][1]
                         /\ RangesOf("first")[t][1] <= RangesOf("first")[t][2]
  BY <1>1, LoopBegins DEF RangesOf
<1>3. Progress
  BY <1>1, <1>2 DEF Progress
<1>4. Over = {}
  BY <1>1, <1>2 DEF Over
<1>5. DOMAIN out = {} /\ writes = 0 /\ IsFiniteSet({}) /\ Cardinality({}) = 0
  BY <1>1, FS_EmptySet
<1>6. Filling
  BY <1>1, <1>4, <1>5 DEF Filling, FilledOnce
<1> QED
  BY <1>3, <1>4, <1>6

\* What a task of the last loop writes.
LEMMA TaskFills ==
    ASSUME Progress, NEW t \in Pool, RunTask(t), running = LastLoop(call)
    PROVE  \E r \in Results(call, running, pos[t], scratch[t]) :
              /\ DOMAIN r.cells = TaskCells(call, pos[t])
              /\ out' = [i \in DOMAIN out \cup DOMAIN r.cells |->
                              IF i \in DOMAIN r.cells THEN r.cells[i] ELSE out[i]]
              /\ writes' = writes + Cardinality(DOMAIN r.cells)
              /\ UNCHANGED buf
<1>1. ~(running = "first" /\ TwoLoops(call)) /\ call \in Calls
  BY DEF LastLoop, Progress
<1>2. PICK r \in Results(call, running, pos[t], scratch[t]) :
        /\ out' = [i \in DOMAIN out \cup DOMAIN r.cells |->
                              IF i \in DOMAIN r.cells THEN r.cells[i] ELSE out[i]]
        /\ writes' = writes + Cardinality(DOMAIN r.cells)
        /\ UNCHANGED buf
  BY <1>1 DEF RunTask
<1>3. pos[t] \in Nat
  BY DEF Progress
<1>4. DOMAIN r.cells = TaskCells(call, pos[t])
  BY <1>1, <1>2, <1>3, TasksAreTiles
<1> QED
  BY <1>2, <1>4

\* A task fills cells that no other has filled.
LEMMA FillingRun ==
    ASSUME Progress, Filling, NEW t \in Pool, RunTask(t)
    PROVE  Filling'
<1>1. /\ Progress' /\ running # "done" /\ pos[t] \in 0..(Tasks(call, running) - 1)
      /\ pos[t] \notin Over /\ Over' = Over \cup {pos[t]} /\ Over \subseteq 0..(Tasks(call, running) - 1)
  BY TaskIsNew, OverAreTasks
<1>2. UNCHANGED <<call, running>> /\ call \in Calls
  BY DEF RunTask, Progress
<1>3. CASE running = LastLoop(call)
  <2>1. PICK r : /\ DOMAIN r.cells = TaskCells(call, pos[t])
                 /\ out' = [i \in DOMAIN out \cup DOMAIN r.cells |->
                              IF i \in DOMAIN r.cells THEN r.cells[i] ELSE out[i]]
                 /\ writes' = writes + Cardinality(DOMAIN r.cells)
    BY <1>3, TaskFills
  <2>2. /\ DOMAIN out = UNION {TaskCells(call, k) : k \in Over}
        /\ IsFiniteSet(DOMAIN out) /\ writes = Cardinality(DOMAIN out)
    BY <1>3 DEF Filling
  <2>3. /\ IsFiniteSet(DOMAIN r.cells) /\ DOMAIN out \cap DOMAIN r.cells = {}
    BY <1>1, <1>2, <1>3, <2>1, <2>2, CellsOfTasks
  <2>4. DOMAIN out' = DOMAIN out \cup DOMAIN r.cells
    BY <2>1
  <2>5. DOMAIN out' = UNION {TaskCells(call, k) : k \in Over'}
    BY <1>1, <2>1, <2>2, <2>4
  <2>6. IsFiniteSet(DOMAIN out') /\ writes' = Cardinality(DOMAIN out')
    BY <2>1, <2>2, <2>3, <2>4, NewCells
  <2> QED
    BY <1>1, <1>2, <1>3, <2>5, <2>6 DEF Filling, FilledOnce, LastLoop
<1>4. CASE running # LastLoop(call)
  <2>1. running = "first" /\ TwoLoops(call)
    BY <1>1, <1>4 DEF Progress, LastLoop
  <2>2. UNCHANGED <<out, writes>>
    BY <2>1 DEF RunTask
  <2> QED
    BY <1>1, <1>2, <2>1, <2>2 DEF Filling, FilledOnce, LastLoop
<1> QED
  BY <1>3, <1>4

\* A call that returns has filled its output; a second loop begins with no task over.
LEMMA FillingEnd ==
    ASSUME Progress, Filling, EndLoop
    PROVE  Progress' /\ Filling' /\ (running' # "done" => Over' = {})
<1>1. /\ call' = call /\ call \in Calls /\ out' = out /\ writes' = writes
      /\ running \in {"first", LastLoop(call)} /\ running # "done"
      /\ Over = 0..(Tasks(call, running) - 1)
  BY AllTasksOver DEF EndLoop, Progress
<1>2. CASE running = "first" /\ TwoLoops(call)
  <2>1. running' = "second" /\ pos' = Start(call, "second") /\ LastLoop(call) = "second"
    BY <1>2 DEF EndLoop, LastLoop
  <2>2. /\ pos' \in [Pool -> Nat]
        /\ \A t \in Pool : pos'[t] = RangesOf("second")[t][1]
                           /\ RangesOf("second")[t][1] <= RangesOf("second")[t][2]
    BY <1>1, <2>1, LoopBegins DEF RangesOf
  <2>3. RangesOf(running)' = RangesOf("second")
    BY <1>1, <2>1 DEF RangesOf
  <2>4. Progress'
    BY <1>1, <2>1, <2>2, <2>3 DEF Progress
  <2>5. Over' = {}
    BY <2>2, <2>3 DEF Over
  <2>6. DOMAIN out = {} /\ writes = 0 /\ IsFiniteSet({}) /\ Cardinality({}) = 0
    BY <1>2, FS_EmptySet DEF Filling
  <2> QED
    BY <1>1, <2>1, <2>4, <2>5, <2>6 DEF Filling, FilledOnce
<1>3. CASE ~(running = "first" /\ TwoLoops(call))
  <2>1. running' = "done" /\ pos' = pos /\ running = LastLoop(call)
    BY <1>1, <1>3 DEF EndLoop, LastLoop
  <2>2. Progress'
    BY <1>1, <2>1 DEF Progress
  <2>3. DOMAIN out = Cells(call) /\ writes = Cardinality(DOMAIN out)
    BY <1>1, <2>1, CellsOfTasks DEF Filling
  <2> QED
    BY <1>1, <2>1, <2>2, <2>3 DEF Filling, FilledOnce, LastLoop
<1> QED
  BY <1>2, <1>3

-----------------------------------------------------------------------------
(* Selection by parts. *)

\* Of every part of S, b holds the best k.
BestOfParts(c, n, S, k, I, X, b) ==
    /\ IsFiniteSet(S) /\ k \in Nat /\ k <= Cardinality(S)
    /\ \A s \in S : Logit(c, n, s) \in Int
    /\ UNION {X[i] : i \in I} = S
    /\ \A i \in I : b[i] \in Selections(c, n, X[i], Least(k, Cardinality(X[i])))

\* The best k of the bests of the parts of a set are a best k of the set.
LEMMA BestOfBests ==
    ASSUME NEW c, NEW n, NEW S, NEW k, NEW I, NEW X, NEW b, BestOfParts(c, n, S, k, I, X, b),
           NEW all, all = UNION {b[i] : i \in I},
           NEW sel \in Selections(c, n, all, Least(k, Cardinality(all)))
    PROVE  sel \in Selections(c, n, S, k)
<1>0. /\ IsFiniteSet(S) /\ k \in Nat /\ k <= Cardinality(S)
      /\ \A s \in S : Logit(c, n, s) \in Int
      /\ UNION {X[i] : i \in I} = S
      /\ \A i \in I : b[i] \in Selections(c, n, X[i], Least(k, Cardinality(X[i])))
  BY DEF BestOfParts
<1>1. \A i \in I : X[i] \subseteq S /\ b[i] \subseteq X[i]
                   /\ Cardinality(b[i]) = Least(k, Cardinality(X[i]))
                   /\ \A e \in b[i] : \A j \in X[i] \ b[i] : Logit(c, n, e) >= Logit(c, n, j)
  BY <1>0 DEF Selections, kSubset
<1>2. all \subseteq S /\ IsFiniteSet(all) /\ Cardinality(all) \in Nat /\ Cardinality(S) \in Nat
  <2>1. all \subseteq S
    BY <1>0, <1>1
  <2> QED BY <2>1, <1>0, FS_Subset, FS_CardinalityType
<1>3. \A i \in I : /\ IsFiniteSet(X[i]) /\ IsFiniteSet(b[i])
                   /\ Cardinality(X[i]) \in Nat /\ Cardinality(b[i]) \in Nat
  <2> SUFFICES ASSUME NEW i \in I
               PROVE  /\ IsFiniteSet(X[i]) /\ IsFiniteSet(b[i])
                      /\ Cardinality(X[i]) \in Nat /\ Cardinality(b[i]) \in Nat
    OBVIOUS
  <2>1. IsFiniteSet(X[i])
    BY <1>0, <1>1, FS_Subset
  <2>2. IsFiniteSet(b[i])
    BY <2>1, <1>1, FS_Subset
  <2> QED BY <2>1, <2>2, FS_CardinalityType
\* A part is selected whole, or k of it are.
<1>4. \A i \in I : b[i] = X[i] \/ Cardinality(b[i]) = k
  <2> SUFFICES ASSUME NEW i \in I, Cardinality(b[i]) # k PROVE b[i] = X[i]
    OBVIOUS
  <2>1. Cardinality(b[i]) = Cardinality(X[i])
    BY <1>0, <1>1, <1>3 DEF Least
  <2> QED BY <2>1, <1>1, <1>3, FS_Subset
<1>5. k <= Cardinality(all)
  <2>1. CASE \E i \in I : Cardinality(b[i]) = k
    <3>1. PICK i \in I : Cardinality(b[i]) = k
      BY <2>1
    <3>2. b[i] \subseteq all
      BY <3>1
    <3>3. Cardinality(b[i]) <= Cardinality(all)
      BY <3>2, <1>2, FS_Subset
    <3> QED BY <3>1, <3>3, <1>0
  <2>2. CASE ~\E i \in I : Cardinality(b[i]) = k
    <3>1. all = S
      BY <2>2, <1>0, <1>4
    <3> QED BY <3>1, <1>0
  <2> QED BY <2>1, <2>2
<1>6. /\ sel \subseteq all /\ Cardinality(sel) = k
      /\ \A i \in sel : \A j \in all \ sel : Logit(c, n, i) >= Logit(c, n, j)
  <2>1. Least(k, Cardinality(all)) = k
    BY <1>0, <1>2, <1>5 DEF Least
  <2> QED BY <2>1 DEF Selections, kSubset
<1>7. ASSUME NEW i \in sel, NEW j \in S \ sel
      PROVE  Logit(c, n, i) >= Logit(c, n, j)
  <2>1. CASE j \in all
    BY <2>1, <1>6
  <2>2. CASE j \notin all
    <3>1. PICK p \in I : j \in X[p]
      BY <1>0
    <3>2. j \notin b[p]
      BY <2>2
    <3>3. Cardinality(b[p]) = k
      BY <3>1, <3>2, <1>4
    <3>4. CASE i \in b[p]
      BY <3>1, <3>2, <3>4, <1>1
    <3>5. CASE i \notin b[p]
      <4>1. IsFiniteSet(sel)
        BY <1>2, <1>6, FS_Subset
      <4>2. ~(b[p] \subseteq sel)
        BY <4>1, <3>3, <3>5, <1>6, FS_Subset
      <4>3. PICK e \in b[p] : e \notin sel
        BY <4>2
      <4>4. e \in all \ sel
        BY <4>3
      <4>5. Logit(c, n, i) >= Logit(c, n, e) /\ Logit(c, n, e) >= Logit(c, n, j)
        BY <4>3, <4>4, <3>1, <3>2, <1>1, <1>6
      <4>6. Logit(c, n, i) \in Int /\ Logit(c, n, j) \in Int /\ Logit(c, n, e) \in Int
        BY <4>4, <1>0, <1>2, <1>6
      <4> QED BY <4>5, <4>6
    <3> QED BY <3>4, <3>5
  <2> QED BY <2>1, <2>2
<1> QED
  BY <1>2, <1>6, <1>7 DEF Selections, kSubset

\* The chunks of a row are the row.
LEMMA ChunksCover ==
    ASSUME NEW c, c.d \in Nat \ {0}, Chunks(c) \in Nat \ {0}
    PROVE  UNION {Chunk(c, i) : i \in 0..(Chunks(c) - 1)} = 0..(c.d - 1)
<1> DEFINE d == c.d
           C == Chunks(c)
<1>1. d \in Nat \ {0} /\ C \in Nat \ {0}
  OBVIOUS
<1>2. \A i : Chunk(c, i) = ((i * d) \div C)..(((i + 1) * d) \div C - 1)
  BY DEF Chunk
<1> HIDE DEF d, C
<1>3. ASSUME NEW i \in 0..(C - 1), NEW x \in ((i * d) \div C)..(((i + 1) * d) \div C - 1)
      PROVE  x \in 0..(d - 1)
  <2>1. i * d \in Nat /\ (i + 1) * d \in Nat /\ C * d \in Nat /\ (i + 1) * d <= C * d
    <3>1. i + 1 \in Nat /\ (i + 1 < C => (i + 1) * d + d <= C * d)
      BY <1>1, MultiplesApart
    <3> QED BY <3>1, <1>1
  <2> DEFINE p == (i * d) \div C
             q == ((i + 1) * d) \div C
             a == (i + 1) * d
  <2>2. p \in Nat
    BY <2>1, <1>1, DivMod
  <2>3. a \in Nat /\ q = a \div C
    BY <2>1
  <2> HIDE DEF a
  <2>4. q \in Nat /\ a = q * C + (a % C) /\ a % C \in 0..(C - 1)
    BY <2>3, <1>1, DivMod
  <2>5. x \in p..(q - 1)
    OBVIOUS
  <2> HIDE DEF p, q
  <2>6. d < q => d * C + C <= q * C
    BY <2>4, <1>1, MultiplesApart
  <2>7. q <= d
    <3>1. a <= C * d /\ C * d = d * C /\ d * C \in Nat /\ q * C \in Nat
      BY <2>1, <2>4, <1>1 DEF a
    <3> QED BY <3>1, <2>4, <2>6, <1>1
  <2> QED BY <2>2, <2>4, <2>5, <2>7, <1>1
\* A key lies in the last chunk that begins at or before it.
<1>4. ASSUME NEW x \in 0..(d - 1)
      PROVE  \E i \in 0..(C - 1) : x \in ((i * d) \div C)..(((i + 1) * d) \div C - 1)
  <2> DEFINE y == (x + 1) * C - 1
             i == y \div d
  <2>1. y \in Nat /\ x + 1 \in Nat /\ (x + 1) * C = x * C + C /\ x * C \in Nat
    BY <1>1
  <2>2. i \in Nat /\ y = i * d + (y % d) /\ y % d \in 0..(d - 1)
    BY <2>1, <1>1, DivMod, Zenon
  <2>3. y = x * C + C - 1
    <3> DEFINE z == (x + 1) * C
    <3>1. z = x * C + C /\ x * C \in Nat /\ y = z - 1
      BY <2>1
    <3> HIDE DEF z, y
    <3> QED BY <3>1, <1>1
  <2> HIDE DEF y, i
  \* i * d <= y < (i + 1) * d
  <2>4. i * d \in Nat /\ (i + 1) * d = i * d + d /\ i * d <= y /\ y < i * d + d
    BY <2>1, <2>2, <1>1
  <2>5. i < C
    <3>1. C < i => C * d + d <= i * d
      BY <2>2, <1>1, MultiplesApart
    <3>2. C * d \in Nat
      BY <1>1
    <3>3. x + 1 < d => (x + 1) * C + C <= d * C
      BY <1>1, <2>1, MultiplesApart
    <3>4. (x + 1) * C <= d * C /\ d * C = C * d
      <4>1. x + 1 = d \/ x + 1 < d
        BY <1>1
      <4>2. (x + 1) * C \in Nat /\ d * C \in Nat /\ d * C = C * d
        BY <1>1, <2>1
      <4> QED BY <4>1, <4>2, <3>3, <1>1
    <3>5. y < C * d
      <4> DEFINE u == x * C
                 z == (x + 1) * C
                 v == C * d
      <4>1. y = u + C - 1 /\ z = u + C /\ z <= v /\ u \in Nat /\ v \in Nat
        BY <3>4, <2>1, <2>3, <3>2, Zenon
      <4> HIDE DEF u, z, v
      <4>2. y < v
        BY <4>1, <1>1
      <4> QED BY <4>2 DEF v
    <3>6. i # C
      <4> SUFFICES ASSUME i = C PROVE FALSE
        OBVIOUS
      <4>1. i * d = C * d
        OBVIOUS
      <4> QED BY <4>1, <3>2, <3>5, <2>1, <2>4
    <3> QED BY <3>1, <3>2, <3>5, <3>6, <2>2, <2>4, <1>1
  <2>6. (i * d) \div C <= x
    <3> DEFINE a == i * d
               q == a \div C
    <3>1. a \in Nat
      BY <2>4
    <3> HIDE DEF a
    <3>2. q \in Nat /\ a = q * C + (a % C) /\ a % C \in 0..(C - 1)
      BY <3>1, <1>1, DivMod
    <3> HIDE DEF q
    <3>3. x < q => x * C + C <= q * C
      BY <3>2, <1>1, MultiplesApart
    <3>4. a < x * C + C /\ q * C \in Nat
      BY <2>3, <2>4, <3>2, <1>1, <2>1 DEF a
    <3>5. q <= x
      BY <3>2, <3>3, <3>4, <2>1, <1>1
    <3> QED BY <3>5 DEF q, a
  <2>7. x < ((i + 1) * d) \div C
    <3> DEFINE a == (i + 1) * d
               q == a \div C
    <3>1. a \in Nat /\ x * C + C <= a
      BY <2>3, <2>4, <2>1, <1>1
    <3> HIDE DEF a
    <3>2. q \in Nat /\ a = q * C + (a % C) /\ a % C \in 0..(C - 1)
      BY <3>1, <1>1, DivMod
    <3> HIDE DEF q
    <3>3. q < x => q * C + C <= x * C
      BY <3>2, <1>1, MultiplesApart
    <3>4. q # x
      BY <3>1, <3>2, <2>1, <1>1
    <3>5. x < q
      <4>1. q * C \in Nat
        BY <3>2, <1>1
      <4> QED BY <3>1, <3>2, <3>3, <3>4, <4>1, <2>1, <1>1
    <3> QED BY <3>5 DEF q, a
  <2>8. i \in 0..(C - 1)
    BY <2>2, <2>5, <1>1
  <2>9. (i * d) \div C \in Nat /\ ((i + 1) * d) \div C \in Nat
    <3>1. i * d \in Nat /\ (i + 1) * d \in Nat
      BY <2>4, <1>1
    <3> QED BY <3>1, <1>1, DivMod, Zenon
  <2>10. x \in ((i * d) \div C)..(((i + 1) * d) \div C - 1)
    <3> DEFINE p == (i * d) \div C
               q == ((i + 1) * d) \div C
    <3>1. p \in Nat /\ q \in Nat /\ p <= x /\ x < q /\ x \in Nat
      BY <2>6, <2>7, <2>9
    <3> HIDE DEF p, q
    <3>2. x \in p..(q - 1)
      BY <3>1
    <3> QED BY <3>2 DEF p, q
  <2> QED BY <2>8, <2>10
<1>5. UNION {((i * d) \div C)..(((i + 1) * d) \div C - 1) : i \in 0..(C - 1)} = 0..(d - 1)
  <2> DEFINE P(i) == ((i * d) \div C)..(((i + 1) * d) \div C - 1)
  <2>1. /\ \A i \in 0..(C - 1) : P(i) \subseteq 0..(d - 1)
        /\ \A x \in 0..(d - 1) : \E i \in 0..(C - 1) : x \in P(i)
    BY <1>3, <1>4
  <2> HIDE DEF P
  <2>2. UNION {P(i) : i \in 0..(C - 1)} = 0..(d - 1)
    BY <2>1
  <2> QED BY <2>2 DEF P
<1> QED
  BY <1>2, <1>5 DEF d, C

\* What the first loop has left for the second.
Handed ==
    TwoLoops(call) =>
        /\ running = "first" => DOMAIN buf = Over
        /\ running # "first" => DOMAIN buf = 0..(Tasks(call, "first") - 1)

\* A row's candidates are selections of its chunks, and what is selected of a row.
TopkHeld ==
    call.kernel = "topk" =>
        /\ TwoLoops(call) =>
              \A t \in DOMAIN buf :
                  LET keys == Chunk(call, t % Chunks(call))
                  IN  buf[t] \in Selections(call, t \div Chunks(call), keys,
                                            Least(K(call), Cardinality(keys)))
        /\ \A n \in DOMAIN out : out[n] \in Selections(call, n, 0..(call.d - 1), K(call))

\* The logit of a cell.
CellLogit(c, i) ==
    LET n   == i \div c.d
        key == Key(c, n, i % c.d)
    IN  IF LogitsPath(c) = "logits_fp32avx"
        THEN Stages([h \in Heads |-> Query(n, h) * key])
        ELSE Stages([h \in Heads |-> Bf(Query(n, h)) * Bf(key)])

\* The packed queries of the rows, and the logits of the cells that are filled.
LogitsHeld ==
    call.kernel \in LogitsKernels \ {"logits_fused"} =>
        /\ TwoLoops(call) => \A n \in DOMAIN buf : buf[n] = [h \in Heads |-> Bf(Query(n, h))]
        /\ \A i \in DOMAIN out : out[i] = CellLogit(call, i)

\* A seed of scores.
LEMMA SeedIsInt ==
    ASSUME NEW c \in Calls, c.kernel = "topk" \/ c.kernel \in LogitsKernels, NEW i \in Nat
    PROVE  Seed(c, i) \in Int
<1>1. \/ c.kernel \in PoolKernels \cup Attending \cup WholeRows \cup {"sinkhorn"}
      \/ c.seed \in Windows(0..1) \cup Windows(Scores)
  <2>1. "pool" \in PoolKernels
    BY DEF PoolKernels
  <2> QED BY <2>1 DEF Calls, Call, TorchCall, Attending, WholeRows
<1>2. c.seed \in Windows(0..1) \cup Windows(Scores)
  BY <1>1, KindsApart
<1>3. (i % WindowLen) + 1 \in 1..WindowLen
  <2>1. WindowLen \in Nat \ {0}
    BY ParallelKernelsAssumption
  <2>2. i % WindowLen \in 0..(WindowLen - 1)
    BY <2>1, DivMod
  <2> QED BY <2>1, <2>2
<1>4. 0..1 \subseteq Int /\ Scores \subseteq Int
  BY OnlineSoftmaxAssumption DEF Scores, NegInf
<1> QED
  BY <1>2, <1>3, <1>4 DEF Windows, Seed

\* The shape of a call of top-k.
LEMMA TopkShape ==
    ASSUME NEW c \in Calls, c.kernel = "topk"
    PROVE  /\ c.n \in Nat \ {0} /\ c.d \in Nat \ {0}
           /\ K(c) \in Nat /\ K(c) <= c.d
           /\ Chunks(c) \in Nat \ {0}
           /\ \A n, s \in Nat : Logit(c, n, s) \in Int
           /\ TwoLoops(c) => Tasks(c, "first") = c.n * Chunks(c) /\ LastLoop(c) = "second"
           /\ Tasks(c, LastLoop(c)) = c.n
<1>0. /\ c.n \in Nat \ {0} /\ c.d \in Nat \ {0} /\ c.k \in Nat \ {0}
      /\ c.threads \in 1..MaxThreads /\ MaxThreads \in Nat \ {0}
  BY CallShape, ParallelKernelsAssumption
<1>1. K(c) \in Nat \ {0} /\ K(c) <= c.d
  BY <1>0 DEF K, Least
<1>2. Chunks(c) \in Nat \ {0}
  <2>1. Most(c.n, 1) \in Nat \ {0} /\ Most(K(c), 1) \in Nat \ {0}
    BY <1>0, <1>1 DEF Most
  <2>2. c.threads \div Most(c.n, 1) \in Nat /\ c.d \div Most(K(c), 1) \in Nat
    <3>1. c.threads \in Nat /\ c.d \in Nat
      BY <1>0
    <3> QED BY <2>1, <3>1, DivMod, Zenon
  <2> QED BY <2>2 DEF Chunks, Most, Least
<1>3. \A n, s \in Nat : Logit(c, n, s) \in Int
  BY SeedIsInt DEF Logit
<1>4. /\ c.kernel \notin PoolKernels /\ c.kernel \notin AttendKernels \cup {"attend_masked"} \cup MlaForms
      /\ c.kernel \notin LogitsKernels /\ LogitsPath(c) = "topk"
  BY DEF PoolKernels, AttendKernels, MlaForms, LogitsKernels, LogitsPath
<1>5. TwoLoops(c) => Tasks(c, "first") = c.n * Chunks(c) /\ LastLoop(c) = "second"
  BY <1>4 DEF Tasks, LastLoop
<1>6. Tasks(c, LastLoop(c)) = c.n
  BY <1>4 DEF Tasks, LastLoop
<1> QED
  BY <1>0, <1>1, <1>2, <1>3, <1>5, <1>6

\* A call of two loops is a chunked top-k or tiled logits, and a task of its
\* first loop leaves one thing.
LEMMA FirstLoop ==
    ASSUME NEW c \in Calls, TwoLoops(c), NEW t, NEW s, NEW r \in Results(c, "first", t, s)
    PROVE  /\ DOMAIN r.cells = {t}
           /\ c.kernel = "topk" => r \in TopkLocal(c, t, s)
           /\ c.kernel # "topk" => r = PackTask(c, t, s)
<1>1. c.kernel = "topk" \/ LogitsPath(c) = "logits_tiled"
  BY DEF TwoLoops
<1>2. c.kernel = "topk" \/ c.kernel \in LogitsKernels
  BY <1>1 DEF LogitsPath, LogitsKernels
<1>3. /\ c.kernel \notin PoolKernels /\ c.kernel # "combine" /\ c.kernel \notin TokenForms \cup {"key_write"}
      /\ c.kernel \notin AttendKernels \cup {"attend_masked"} \cup MlaForms /\ c.kernel # "sinkhorn"
  BY <1>2, KindsApart DEF RowKernels
<1>4. c.kernel = "topk" => r \in TopkLocal(c, t, s)
  <2>1. c.kernel = "topk" => c.kernel \notin LogitsKernels
    BY DEF LogitsKernels
  <2>2. c.kernel = "topk" => Results(c, "first", t, s) = TopkLocal(c, t, s)
    BY <1>3, <2>1 DEF Results
  <2> QED BY <2>2
<1>5. c.kernel # "topk" => r = PackTask(c, t, s)
  BY <1>2, <1>3 DEF Results
<1>6. \A q \in TopkLocal(c, t, s) : DOMAIN q.cells = {t}
  <2> SUFFICES ASSUME NEW q \in TopkLocal(c, t, s) PROVE DOMAIN q.cells = {t}
    OBVIOUS
  <2>1. PICK sel : q = [cells |-> [i \in {t} |-> sel], scratch |-> s]
    BY Zenon DEF TopkLocal
  <2> QED BY <2>1
<1>7. DOMAIN PackTask(c, t, s).cells = {t}
  BY DEF PackTask
<1> QED
  BY <1>4, <1>5, <1>6, <1>7

\* What a task of the first loop leaves to the second.
LEMMA TaskHands ==
    ASSUME Progress, NEW t \in Pool, RunTask(t), running = "first", TwoLoops(call)
    PROVE  \E r \in Results(call, "first", pos[t], scratch[t]) :
              /\ DOMAIN r.cells = {pos[t]}
              /\ buf' = [i \in DOMAIN buf \cup {pos[t]} |->
                              IF i \in {pos[t]} THEN r.cells[i] ELSE buf[i]]
              /\ UNCHANGED <<out, writes>>
<1>1. PICK r \in Results(call, "first", pos[t], scratch[t]) :
        /\ buf' = [i \in DOMAIN buf \cup DOMAIN r.cells |->
                              IF i \in DOMAIN r.cells THEN r.cells[i] ELSE buf[i]]
        /\ UNCHANGED <<out, writes>>
  BY DEF RunTask
<1>2. DOMAIN r.cells = {pos[t]}
  BY FirstLoop DEF Progress
<1> QED
  BY <1>1, <1>2

\* A task of the first loop leaves one thing more.
LEMMA HandedRun ==
    ASSUME Progress, Handed, NEW t \in Pool, RunTask(t)
    PROVE  Handed'
<1>1. UNCHANGED <<call, running>> /\ Over' = Over \cup {pos[t]} /\ running # "done" /\ call \in Calls
  BY TaskIsNew DEF RunTask, Progress
<1>2. CASE running = "first" /\ TwoLoops(call)
  <2>1. DOMAIN buf' = DOMAIN buf \cup {pos[t]}
    BY <1>2, TaskHands
  <2> QED BY <1>1, <1>2, <2>1 DEF Handed
<1>3. CASE ~(running = "first" /\ TwoLoops(call))
  <2>1. UNCHANGED buf
    BY <1>3 DEF RunTask
  <2> QED BY <1>1, <1>3, <2>1 DEF Handed
<1> QED
  BY <1>2, <1>3

\* The second loop finds what all tasks of the first have left.
LEMMA HandedEnd ==
    ASSUME Progress, Handed, EndLoop
    PROVE  Handed'
<1>1. call' = call /\ buf' = buf /\ running' # "first" /\ Over = 0..(Tasks(call, running) - 1)
  BY AllTasksOver DEF EndLoop
<1> QED
  BY <1>1 DEF Handed

\* The chunked path selects of a row what a selection of the whole row may.
LEMMA MergeIsSelection ==
    ASSUME Progress, Handed, TopkHeld, call.kernel = "topk", TwoLoops(call), running = "second",
           NEW n \in 0..(call.n - 1), NEW s, NEW r \in TopkMerge(call, n, s)
    PROVE  r.cells[n] \in Selections(call, n, 0..(call.d - 1), K(call))
<1> DEFINE c == call
           C == Chunks(c)
           S == 0..(c.d - 1)
           I == 0..(C - 1)
           X == [i \in I |-> Chunk(c, i)]
           b == [i \in I |-> buf[n * C + i]]
           all == UNION {buf[n * C + i] : i \in I}
<1>1. /\ c \in Calls /\ c.n \in Nat \ {0} /\ c.d \in Nat \ {0} /\ C \in Nat \ {0}
      /\ K(c) \in Nat /\ K(c) <= c.d
      /\ \A u, v \in Nat : Logit(c, u, v) \in Int
      /\ Tasks(c, "first") = c.n * C
  BY TopkShape DEF Progress
<1>2. IsFiniteSet(S) /\ Cardinality(S) = c.d
  <2> DEFINE e == c.d - 1
  <2>1. e \in Int /\ e >= 0 /\ e + 1 = c.d
    BY <1>1
  <2> HIDE DEF e
  <2>2. IsFiniteSet(0..e) /\ Cardinality(0..e) = IF 0 > e THEN 0 ELSE e - 0 + 1
    BY <2>1, FS_Interval
  <2> QED BY <2>1, <2>2 DEF e
<1>3. UNION {X[i] : i \in I} = S
  <2>1. UNION {Chunk(c, i) : i \in I} = S
    BY <1>1, ChunksCover
  <2> QED BY <2>1
<1>4. ASSUME NEW i \in I
      PROVE  b[i] \in Selections(c, n, X[i], Least(K(c), Cardinality(X[i])))
  <2> DEFINE t == n * C + i
  <2>1. n \in Nat /\ t \in 0..(c.n * C - 1) /\ t \in Nat
    <3>1. n \in Nat /\ n < c.n /\ i \in Nat /\ i < C
      BY <1>1
    <3>2. n * C + C <= c.n * C
      BY <3>1, <1>1, MultiplesApart
    <3>3. n * C \in Nat /\ c.n * C \in Nat
      BY <3>1, <1>1
    <3> QED BY <3>1, <3>2, <3>3, <1>1
  <2>2. t \div C = n /\ t % C = i
    <3> HIDE DEF C
    <3>1. n \in Int /\ t \in Nat /\ t = n * C + i /\ i \in 0..(C - 1) /\ C \in Nat \ {0}
      BY <2>1, <1>1
    <3> HIDE DEF t
    <3> QED BY <3>1, DivUnique, Zenon
  <2>3. t \in DOMAIN buf
    BY <2>1, <1>1 DEF Handed
  <2> HIDE DEF t
  <2>4. buf[t] \in Selections(c, n, Chunk(c, i), Least(K(c), Cardinality(Chunk(c, i))))
    BY <2>2, <2>3 DEF TopkHeld
  <2> QED BY <2>4 DEF t
<1>5. all = UNION {b[i] : i \in I}
  OBVIOUS
<1>6. PICK sel \in Selections(c, n, all, Least(K(c), Cardinality(all))) :
         r = [cells |-> [i \in {n} |-> sel], scratch |-> s]
  BY DEF TopkMerge
<1>7. \A x \in S : Logit(c, n, x) \in Int
  <2>1. n \in Nat /\ S \subseteq Nat
    BY <1>1
  <2> QED BY <2>1, <1>1
<1>9. \A i \in I : b[i] \in Selections(c, n, X[i], Least(K(c), Cardinality(X[i])))
  BY <1>4
<1>10. sel \in Selections(c, n, all, Least(K(c), Cardinality(all)))
  OBVIOUS
<1>11. K(c) \in Nat /\ K(c) <= Cardinality(S)
  BY <1>1, <1>2
<1>8. sel \in Selections(c, n, S, K(c))
  <2> HIDE DEF c, C, S, I, X, b, all
  <2>1. BestOfParts(c, n, S, K(c), I, X, b)
    BY <1>2, <1>3, <1>7, <1>9, <1>11 DEF BestOfParts
  <2>2. \A A : A = UNION {b[i] : i \in I} =>
          \A q \in Selections(c, n, A, Least(K(c), Cardinality(A))) : q \in Selections(c, n, S, K(c))
    BY <2>1, BestOfBests
  <2> QED BY <2>2, <1>5, <1>10
<1> QED
  BY <1>6, <1>8

\* A call begins with nothing left and nothing selected.
LEMMA HeldInit ==
    ASSUME KernelInit
    PROVE  Handed /\ TopkHeld /\ LogitsHeld
<1>1. running = "first" /\ Over = {} /\ DOMAIN buf = {} /\ DOMAIN out = {}
  BY FillingInit DEF KernelInit
<1> QED
  BY <1>1 DEF Handed, TopkHeld, LogitsHeld

\* What the last loop of top-k selects of a row.
LEMMA TopkOfTask ==
    ASSUME Progress, Handed, TopkHeld, call.kernel = "topk", running = LastLoop(call),
           NEW n \in 0..(call.n - 1), NEW s, NEW r \in Results(call, running, n, s)
    PROVE  DOMAIN r.cells = {n} /\ r.cells[n] \in Selections(call, n, 0..(call.d - 1), K(call))
<1>1. /\ call.kernel \notin PoolKernels /\ call.kernel # "combine"
      /\ call.kernel \notin TokenForms \cup {"key_write"} /\ call.kernel \notin LogitsKernels
      /\ call.kernel \notin AttendKernels \cup {"attend_masked"} \cup MlaForms /\ call.kernel # "sinkhorn"
  BY DEF PoolKernels, TokenForms, LogitsKernels, AttendKernels, MlaForms
<1>2. CASE TwoLoops(call)
  <2>1. running = "second"
    BY <1>2 DEF LastLoop
  <2>2. Results(call, running, n, s) = TopkMerge(call, n, s)
    BY <1>1, <1>2, <2>1 DEF Results
  <2>3. r.cells[n] \in Selections(call, n, 0..(call.d - 1), K(call))
    BY <1>2, <2>1, <2>2, MergeIsSelection
  <2>4. PICK sel : r = [cells |-> [i \in {n} |-> sel], scratch |-> s]
    BY <2>2, Zenon DEF TopkMerge
  <2> QED BY <2>3, <2>4
<1>3. CASE ~TwoLoops(call)
  <2>1. Results(call, running, n, s) = TopkRow(call, n, s)
    BY <1>1, <1>3 DEF Results
  <2>2. PICK sel \in Selections(call, n, 0..(call.d - 1), K(call)) :
          r = [cells |-> [i \in {n} |-> sel], scratch |-> s]
    BY <2>1, Zenon DEF TopkRow
  <2> QED BY <2>2
<1> QED
  BY <1>2, <1>3

\* A task of top-k selects of its chunk, of a row's candidates or of a row.
LEMMA TopkRun ==
    ASSUME Progress, Handed, TopkHeld, NEW t \in Pool, RunTask(t)
    PROVE  TopkHeld'
<1> SUFFICES ASSUME call.kernel = "topk" PROVE TopkHeld'
  <2>1. call' = call
    BY DEF RunTask
  <2> QED BY <2>1 DEF TopkHeld
<1>1. /\ UNCHANGED <<call, running>> /\ running # "done" /\ call \in Calls
      /\ pos[t] \in 0..(Tasks(call, running) - 1)
  BY TaskIsNew DEF RunTask, Progress
<1>2. CASE running = "first" /\ TwoLoops(call)
  <2>1. PICK r \in Results(call, "first", pos[t], scratch[t]) :
           /\ DOMAIN r.cells = {pos[t]}
           /\ buf' = [i \in DOMAIN buf \cup {pos[t]} |->
                         IF i \in {pos[t]} THEN r.cells[i] ELSE buf[i]]
           /\ UNCHANGED <<out, writes>>
    BY <1>2, TaskHands
  <2> DEFINE keys == Chunk(call, pos[t] % Chunks(call))
             P(u, sel) == LET ks == Chunk(call, u % Chunks(call))
                          IN  sel \in Selections(call, u \div Chunks(call), ks,
                                                 Least(K(call), Cardinality(ks)))
  <2>2. P(pos[t], r.cells[pos[t]])
    <3>1. r \in TopkLocal(call, pos[t], scratch[t])
      BY <1>1, <1>2, <2>1, FirstLoop
    <3>2. PICK sel \in Selections(call, pos[t] \div Chunks(call), keys, Least(K(call), Cardinality(keys))) :
             r = [cells |-> [i \in {pos[t]} |-> sel], scratch |-> scratch[t]]
      BY <3>1, Zenon DEF TopkLocal
    <3>3. r.cells[pos[t]] = sel
      BY <3>2
    <3> QED BY <3>2, <3>3
  <2>3. \A u \in DOMAIN buf : P(u, buf[u])
    BY <1>2 DEF TopkHeld
  <2> HIDE DEF P
  <2>4. \A u \in DOMAIN buf' : P(u, buf'[u])
    BY <2>1, <2>2, <2>3
  <2>5. \A u \in DOMAIN buf' :
           LET ks == Chunk(call, u % Chunks(call))
           IN  buf'[u] \in Selections(call, u \div Chunks(call), ks, Least(K(call), Cardinality(ks)))
    BY <2>4 DEF P
  <2> QED BY <1>1, <1>2, <2>1, <2>5 DEF TopkHeld
<1>3. CASE ~(running = "first" /\ TwoLoops(call))
  <2>1. running = LastLoop(call)
    BY <1>1, <1>3 DEF Progress, LastLoop
  <2>2. PICK r \in Results(call, running, pos[t], scratch[t]) :
              /\ out' = [i \in DOMAIN out \cup DOMAIN r.cells |->
                              IF i \in DOMAIN r.cells THEN r.cells[i] ELSE out[i]]
              /\ UNCHANGED buf
    BY <2>1, TaskFills
  <2>3. pos[t] \in 0..(call.n - 1)
    BY <1>1, <2>1, TopkShape
  <2>4. /\ DOMAIN r.cells = {pos[t]}
        /\ r.cells[pos[t]] \in Selections(call, pos[t], 0..(call.d - 1), K(call))
    BY <2>1, <2>2, <2>3, TopkOfTask
  <2>5. \A n \in DOMAIN out : out[n] \in Selections(call, n, 0..(call.d - 1), K(call))
    BY DEF TopkHeld
  <2>6. \A n \in DOMAIN out' : out'[n] \in Selections(call, n, 0..(call.d - 1), K(call))
    BY <2>2, <2>4, <2>5
  <2> QED BY <1>1, <2>2, <2>6 DEF TopkHeld
<1> QED
  BY <1>2, <1>3

\* Rounding twice is rounding once.
LEMMA BfTwice ==
    ASSUME NEW v \in Int
    PROVE  Bf(v) \in Int /\ Bf(Bf(v)) = Bf(v)
<1> DEFINE q == v \div 2
<1>1. q \in Int
  OBVIOUS
<1> HIDE DEF q
<1>2. (2 * q) \div 2 = q
  BY <1>1
<1> QED
  BY <1>1, <1>2 DEF Bf, q

\* The product of one matrix product gives a key the logit of the others.
LEMMA AmxIsM1 ==
    ASSUME NEW c, NEW n \in Nat, NEW key \in Int
    PROVE  AmxLogit(c, n, key) = Stages([h \in Heads |-> Bf(Query(n, h)) * Bf(key)])
<1>1. \A h \in Heads : Bf(Query(n, h)) * Bf(key) \in Int
  <2> SUFFICES ASSUME NEW h \in Heads PROVE Bf(Query(n, h)) * Bf(key) \in Int
    OBVIOUS
  <2>1. Query(n, h) \in Int
    BY DEF Query
  <2> QED BY <2>1, BfTwice
<1> DEFINE P(h) == Bf(Query(n, h)) * Bf(key)
<1>2. [h \in Heads |-> Bf([g \in Heads |-> Bf(P(g))][h])] = [h \in Heads |-> Bf([g \in Heads |-> P(g)][h])]
  <2>1. \A h \in Heads : Bf(Bf(P(h))) = Bf(P(h))
    BY <1>1, BfTwice
  <2> HIDE DEF P
  <2> QED BY <2>1
<1>3. Stages([h \in Heads |-> Bf(P(h))]) = Stages([h \in Heads |-> P(h)])
  <2> HIDE DEF P
  <2> QED BY <1>2 DEF Stages
<1> QED
  BY <1>3 DEF AmxLogit

\* What a task of the logits writes to a cell.
LEMMA LogitOfTask ==
    ASSUME Progress, Handed, LogitsHeld, call.kernel \in LogitsKernels \ {"logits_fused"},
           running = LastLoop(call), NEW t \in 0..(Tasks(call, running) - 1), NEW s,
           NEW r \in Results(call, running, t, s), NEW i \in TaskCells(call, t)
    PROVE  r.cells[i] = CellLogit(call, i)
<1> DEFINE c == call
           d == c.d
<1>1. /\ c.kernel \notin PoolKernels /\ c.kernel # "combine" /\ c.kernel # "topk"
      /\ c.kernel \notin TokenForms \cup {"key_write"} /\ c.kernel \in LogitsKernels
      /\ c.kernel \notin AttendKernels \cup {"attend_masked"} \cup MlaForms /\ c.kernel # "sinkhorn"
      /\ c.kernel # "logits_fused"
  BY DEF PoolKernels, TokenForms, LogitsKernels, AttendKernels, MlaForms
<1>2. c \in Calls /\ c.n \in Nat \ {0} /\ d \in Nat \ {0} /\ RowCells(c) = d
  <2>1. c \in Calls
    BY DEF Progress
  <2>2. c.kernel \notin RowKernels
    BY <1>1 DEF RowKernels
  <2> QED BY <2>1, <2>2, <1>1, CallShape DEF RowCells
<1>3. TwoLoops(c) <=> LogitsPath(c) = "logits_tiled"
  BY <1>1 DEF TwoLoops
<1>4. /\ i \in Cells(c) /\ i \in Nat
      /\ i \div d \in 0..(c.n - 1) /\ i % d \in 0..(d - 1) /\ i = (i \div d) * d + (i % d)
  <2>1. i \in Cells(c)
    BY <1>2, CellsOfTasks
  <2>2. Cells(c) = 0..(c.n * d - 1)
    BY <1>2, TasksAreTiles
  <2>3. i \in Nat
    BY <2>1, <2>2
  <2> DEFINE q == i \div d
  <2>4. i = q * d + (i % d) /\ i % d \in 0..(d - 1) /\ q \in Nat
    BY <1>2, <2>3, DivMod, Zenon
  <2> HIDE DEF q, c, d
  <2>5. c.n < q => c.n * d + d <= q * d
    BY <1>2, <2>4, MultiplesApart
  <2>6. c.n * d \in Nat /\ q * d \in Nat /\ i < c.n * d
    <3> DEFINE v == c.n * d
    <3>1. v \in Nat /\ q * d \in Nat
      BY <1>2, <2>4
    <3>2. i \in 0..(v - 1)
      BY <2>1, <2>2
    <3> HIDE DEF v
    <3>3. i < v
      BY <3>1, <3>2
    <3> QED BY <3>1, <3>3 DEF v
  <2>7. c.n # q
    BY <1>2, <2>4, <2>6
  <2>8. q \in 0..(c.n - 1)
    BY <1>2, <2>4, <2>5, <2>6, <2>7
  <2> QED BY <2>1, <2>3, <2>4, <2>8 DEF q
<1> DEFINE n == i \div d
           key == Key(c, n, i % d)
<1>5. key \in Int /\ n \in Nat
  <2>1. n \in Nat /\ n + (i % d) \in Nat
    BY <1>4
  <2> QED BY <2>1, <1>1, <1>2, SeedIsInt DEF Key
<1>6. CASE TwoLoops(c)
  <2>1. running = "second" /\ LogitsPath(c) = "logits_tiled"
    BY <1>3, <1>6 DEF LastLoop
  <2>2. r = TiledTask(c, t, s)
    BY <1>1, <1>6, <2>1 DEF Results
  <2>3. t \div LogitsTiles(c) = n
    <3>1. t \in Nat
      OBVIOUS
    <3>2. TaskWidth(c) = LogitsTile(c) /\ TaskWidth(c) \in Nat \ {0}
      BY <1>1, <1>2, <1>6, WidthIsPositive DEF TaskWidth
    <3>3. i \in TileCells(d, LogitsTile(c), t)
      BY <1>2, <3>2 DEF TaskCells
    <3> QED BY <1>2, <3>1, <3>2, <3>3, TileCell DEF LogitsTiles
  <2>4. buf[n] = [h \in Heads |-> Bf(Query(n, h))]
    <3>1. Tasks(c, "first") = c.n
      BY <1>1, <1>6, <2>1 DEF Tasks
    <3>2. n \in DOMAIN buf
      BY <1>4, <1>6, <2>1, <3>1 DEF Handed
    <3> QED BY <1>6, <3>2 DEF LogitsHeld
  <2>5. i - n * d = i % d
    <3> DEFINE e == i % d
               m == n * d
    <3>1. i = m + e /\ m \in Nat /\ e \in Nat
      BY <1>2, <1>4
    <3> HIDE DEF e, m
    <3>2. i - m = e
      BY <3>1
    <3> QED BY <3>2 DEF e, m
  <2>6. i \in DOMAIN r.cells
    BY <1>2, TasksAreTiles
  <2>7. LET row == t \div LogitsTiles(c)
        IN  r.cells[i] = Stages([h \in Heads |-> buf[row][h] * Bf(Key(c, row, i - row * d))])
    BY <2>2, <2>6 DEF TiledTask
  <2>8. r.cells[i] = Stages([h \in Heads |-> buf[n][h] * Bf(key)])
    BY <2>3, <2>5, <2>7
  <2>9. [h \in Heads |-> buf[n][h] * Bf(key)] = [h \in Heads |-> Bf(Query(n, h)) * Bf(key)]
    <3> HIDE DEF n, key
    <3> QED BY <2>4
  <2>10. CellLogit(c, i) = Stages([h \in Heads |-> Bf(Query(n, h)) * Bf(key)])
    BY <2>1 DEF CellLogit
  <2> QED BY <2>8, <2>9, <2>10
<1>7. CASE ~TwoLoops(c)
  <2>1. r = LogitTask(c, t, s)
    BY <1>1, <1>7 DEF Results
  <2>2. i = t
    <3>1. TaskCells(c, t) = {t}
      BY <1>1, <1>2, <1>7, CellTile DEF TaskCells, TaskWidth
    <3> QED BY <3>1
  <2>3. r.cells[i] = LogitTask(c, i, s).cells[i]
    BY <2>1, <2>2
  <2>4. LogitsPath(c) \in {"logits_fp32avx", "logits_m1", "logits_amxbmm"}
    <3>1. c.d \in Nat /\ c.n \in Nat \ {0} /\ Fp32MaxS \in Nat
      BY <1>2, ParallelKernelsAssumption
    <3> QED BY <3>1, <1>1, <1>3, <1>7 DEF LogitsPath, LogitsKernels
  <2>5. CASE LogitsPath(c) = "logits_fp32avx"
    <3>1. r.cells[i] = Fp32Logit(c, n, key)
      BY <2>3, <2>5 DEF LogitTask
    <3> QED BY <3>1, <2>5 DEF Fp32Logit, CellLogit
  <2>6. CASE LogitsPath(c) = "logits_m1"
    <3>1. r.cells[i] = M1Logit(c, n, key)
      BY <2>3, <2>6 DEF LogitTask
    <3> QED BY <3>1, <2>6 DEF M1Logit, CellLogit
  <2>7. CASE LogitsPath(c) = "logits_amxbmm"
    <3>1. r.cells[i] = AmxLogit(c, n, key)
      BY <2>3, <2>7 DEF LogitTask
    <3>2. AmxLogit(c, n, key) = Stages([h \in Heads |-> Bf(Query(n, h)) * Bf(key)])
      <4> HIDE DEF n, key
      <4> QED BY <1>5, AmxIsM1
    <3> QED BY <3>1, <3>2, <2>7 DEF CellLogit
  <2> QED BY <2>4, <2>5, <2>6, <2>7
<1> QED
  BY <1>6, <1>7

\* A task of the logits packs a row's queries or writes the logits of its cells.
LEMMA LogitsRun ==
    ASSUME Progress, Handed, LogitsHeld, NEW t \in Pool, RunTask(t)
    PROVE  LogitsHeld'
<1> SUFFICES ASSUME call.kernel \in LogitsKernels \ {"logits_fused"} PROVE LogitsHeld'
  <2>1. call' = call
    BY DEF RunTask
  <2> QED BY <2>1 DEF LogitsHeld
<1>1. /\ UNCHANGED <<call, running>> /\ running # "done" /\ call \in Calls
      /\ pos[t] \in 0..(Tasks(call, running) - 1)
  BY TaskIsNew DEF RunTask, Progress
<1>2. CASE running = "first" /\ TwoLoops(call)
  <2>1. PICK r \in Results(call, "first", pos[t], scratch[t]) :
           /\ DOMAIN r.cells = {pos[t]}
           /\ buf' = [i \in DOMAIN buf \cup {pos[t]} |->
                         IF i \in {pos[t]} THEN r.cells[i] ELSE buf[i]]
           /\ UNCHANGED <<out, writes>>
    BY <1>2, TaskHands
  <2>2. r = PackTask(call, pos[t], scratch[t])
    <3>1. call.kernel # "topk"
      BY DEF LogitsKernels
    <3> QED BY <3>1, <1>1, <1>2, <2>1, FirstLoop
  <2>3. r.cells[pos[t]] = [h \in Heads |-> Bf(Query(pos[t], h))]
    BY <2>2 DEF PackTask
  <2>4. \A n \in DOMAIN buf : buf[n] = [h \in Heads |-> Bf(Query(n, h))]
    BY <1>2 DEF LogitsHeld
  <2>5. \A n \in DOMAIN buf' : buf'[n] = [h \in Heads |-> Bf(Query(n, h))]
    BY <2>1, <2>3, <2>4
  <2>6. \A i \in DOMAIN out' : out'[i] = CellLogit(call, i)
    BY <2>1 DEF LogitsHeld
  <2> QED BY <1>1, <2>5, <2>6 DEF LogitsHeld
<1>3. CASE ~(running = "first" /\ TwoLoops(call))
  <2>1. running = LastLoop(call)
    BY <1>1, <1>3 DEF Progress, LastLoop
  <2>2. PICK r \in Results(call, running, pos[t], scratch[t]) :
              /\ DOMAIN r.cells = TaskCells(call, pos[t])
              /\ out' = [i \in DOMAIN out \cup DOMAIN r.cells |->
                              IF i \in DOMAIN r.cells THEN r.cells[i] ELSE out[i]]
              /\ UNCHANGED buf
    BY <2>1, TaskFills
  <2>3. \A i \in DOMAIN r.cells : r.cells[i] = CellLogit(call, i)
    BY <1>1, <2>1, <2>2, LogitOfTask
  <2>4. \A i \in DOMAIN out : out[i] = CellLogit(call, i)
    BY DEF LogitsHeld
  <2>5. \A i \in DOMAIN out' : out'[i] = CellLogit(call, i)
    BY <2>2, <2>3, <2>4
  <2> QED BY <1>1, <2>2, <2>5 DEF LogitsHeld
<1> QED
  BY <1>2, <1>3

-----------------------------------------------------------------------------
(* A sum of two or three. *)

\* Whether i is in T, as a term of a sum of at most three.
Part(v, T, i) == IF i \in T THEN v[i] ELSE 0

\* The sum, term by term.
Parts(v, T) == Part(v, T, 0) + Part(v, T, 1) + Part(v, T, 2)

\* The recursion by which the library adds up v over the subsets of S.
TailSums(g, v, S) ==
    g = [T \in SUBSET S |->
            IF T = {} THEN 0
            ELSE LET x == CHOOSE x \in T : TRUE IN v[x] + g[T \ {x}]]

\* A term can be taken out of the sum.
LEMMA PartsTake ==
    ASSUME NEW v \in [0..2 -> Nat], NEW T \in SUBSET (0..2), NEW x \in T
    PROVE  Parts(v, T) = v[x] + Parts(v, T \ {x})
<1>1. v[0] \in Nat /\ v[1] \in Nat /\ v[2] \in Nat
  OBVIOUS
<1>2. x = 0 \/ x = 1 \/ x = 2
  OBVIOUS
<1>3. CASE x = 0
  BY <1>1, <1>3 DEF Parts, Part
<1>4. CASE x = 1
  BY <1>1, <1>4 DEF Parts, Part
<1>5. CASE x = 2
  BY <1>1, <1>5 DEF Parts, Part
<1> QED
  BY <1>2, <1>3, <1>4, <1>5

\* The library's sum over the first one, two or three, term by term.
LEMMA TailSumIs ==
    ASSUME NEW v \in [0..2 -> Nat], NEW S \in SUBSET (0..2)
    PROVE  /\ \E h : TailSums(h, v, S)
           /\ \A h : TailSums(h, v, S) => h[S] = Parts(v, S)
<1> DEFINE some(T) == CHOOSE x \in T : TRUE
           total == [T \in SUBSET S |-> Parts(v, T)]
           one == [i \in 0..2 |-> 1]
           size(T) == Parts(one, T)
<1>1. one \in [0..2 -> Nat]
  OBVIOUS
<1>2. Parts(v, {}) = 0
  BY DEF Parts, Part
<1>3. ASSUME NEW T PROVE size(T) \in Nat
  BY DEF Parts, Part
<1>4. ASSUME NEW T \in SUBSET S, T # {}
      PROVE  /\ some(T) \in T /\ T \ {some(T)} \in SUBSET S
             /\ Parts(v, T) = v[some(T)] + Parts(v, T \ {some(T)})
             /\ size(T) = 1 + size(T \ {some(T)})
  <2>1. PICK x : x = some(T)
    OBVIOUS
  <2>2. x \in T /\ T \in SUBSET (0..2) /\ x \in 0..2
    BY <1>4, <2>1
  <2>3. Parts(v, T) = v[x] + Parts(v, T \ {x})
    BY <2>2, PartsTake
  <2>4. size(T) = one[x] + size(T \ {x}) /\ one[x] = 1
    BY <1>1, <2>2, PartsTake
  <2> HIDE DEF some, size, one
  <2> QED
    BY <2>1, <2>2, <2>3, <2>4
<1> HIDE DEF size, one
<1>5. TailSums(total, v, S)
  <2>1. ASSUME NEW T \in SUBSET S
        PROVE  total[T] = IF T = {} THEN 0 ELSE v[some(T)] + total[T \ {some(T)}]
    BY <1>2, <1>4
  <2>2. total = [T \in SUBSET S |-> IF T = {} THEN 0 ELSE v[some(T)] + total[T \ {some(T)}]]
    BY <2>1
  <2> HIDE DEF total
  <2> QED
    BY <2>2 DEF TailSums
<1>6. ASSUME NEW h, TailSums(h, v, S) PROVE h[S] = Parts(v, S)
  <2>1. \A T \in SUBSET S : h[T] = IF T = {} THEN 0 ELSE v[some(T)] + h[T \ {some(T)}]
    BY <1>6 DEF TailSums
  <2> DEFINE Bad == {n \in Nat : \E T \in SUBSET S : size(T) = n /\ h[T] # total[T]}
  <2>2. Bad = {}
    <3> SUFFICES ASSUME Bad # {} PROVE FALSE
      OBVIOUS
    <3>1. PICK n \in Bad : \A m \in Bad : n <= m
      BY LeastElement
    <3>2. PICK T \in SUBSET S : size(T) = n /\ h[T] # total[T]
      BY <3>1
    <3>3. T # {}
      BY <1>2, <2>1, <3>2
    <3> DEFINE x == some(T)
               U == T \ {x}
    <3>4. U \in SUBSET S /\ size(T) = 1 + size(U) /\ size(U) \in Nat
      BY <1>3, <1>4, <3>3
    <3>5. total[T] = v[x] + total[U]
      BY <1>4, <3>3, <3>4
    <3>6. h[T] = v[x] + h[U]
      BY <2>1, <3>3
    <3> HIDE DEF U, total
    <3>7. h[U] # total[U]
      BY <3>2, <3>5, <3>6
    <3>8. size(U) = n - 1 /\ n - 1 \in Nat
      BY <3>1, <3>2, <3>4
    <3>9. n - 1 \in Bad
      BY <3>4, <3>7, <3>8
    <3>10. n \in Nat
      BY <3>1
    <3> QED
      BY <3>1, <3>9, <3>10
  <2>3. h[S] = total[S]
    BY <1>3, <2>2
  <2> QED
    BY <2>3
<1> QED
  BY <1>5, <1>6

-----------------------------------------------------------------------------
(* The folds of the kernels. *)

\* The keys of the b-th block.
CutOf(s, b) == SubSeq(s, (b - 1) * Block + 1, IF b * Block < Len(s) THEN b * Block ELSE Len(s))

\* The next tile of a combined row.
CombineNext(c, m, st, b) ==
    LET h0  == (b - 1) * Tile
        acc == [i \in 0..(Least(Tile, c.d - h0) - 1) |->
                   CombineStart(st.acc, i, h0)
                     + MapThenSumSet(LAMBDA k : Pre(c, m, k) * Xflat(c, m, k * c.d + h0 + i),
                                     0..(Clusters - 1))]
    IN  [acc |-> acc,
         y |-> [h \in DOMAIN st.y \cup {h0 + i : i \in DOMAIN acc} |->
                  IF h >= h0 THEN acc[h - h0] ELSE st.y[h]]]

\* What a step of a fold makes of a, of the next element x: p tells which fold
\* it is, and over which data.
Do(p, a, x) ==
    CASE p.kind = "highest" -> IF x > a THEN x ELSE a
      [] p.kind = "total"   -> a + x
      [] p.kind = "plus"    -> Plus(a, x)
      [] p.kind = "update"  -> Update(a, p.xs[x], p.vs[x])
      [] p.kind = "clamped" -> UpdateClamped(a, p.xs[x], p.vs[x])
      [] p.kind = "twopass" ->
            LET e == IF p.xs[x] = NegInf THEN 0 ELSE Exp(p.xs[x], p.m)
            IN  [a EXCEPT !.l = @ + e, !.acc = @ + e * p.vs[x]]
      [] p.kind = "attend"  -> AttendStep(a, p.xs[x], p.vs[x])
      [] p.kind = "masked"  -> IF x \in p.keep THEN AttendStep(a, p.xs[x], p.vs[x]) ELSE a
      [] p.kind = "add"     -> [a EXCEPT !.l = @ + Exp(p.xs[x], p.m),
                                         !.acc = @ + Exp(p.xs[x], p.m) * p.vs[x]]
      [] p.kind = "blocks"  -> BlockStep(a, CutOf(p.xs, x), CutOf(p.vs, x))
      [] p.kind = "kept"    -> IF p.xs[x] = NegInf THEN a ELSE Append(a, x)
      [] p.kind = "combine" -> CombineNext(p.c, p.row, a, x)

\* The recursion by which the library folds.
Folding(g, p, s, seq, n) ==
    g = [S \in SUBSET (1..n) |->
            IF S = {} THEN s
            ELSE LET x == Max(S) IN Do(p, g[S \ {x}], seq[x])]

\* The values a fold goes through.
Walk(W, p, s, seq, n) ==
    /\ W[0] = s
    /\ \A k \in 1..n : W[k] = Do(p, W[k - 1], seq[k])

\* The largest of what is no more than k.
LEMMA LargestOf ==
    ASSUME NEW k \in Nat, NEW S \in SUBSET (1..k), k \in S
    PROVE  Max(S) = k
<1>1. \A y \in S : k >= y /\ y \in Nat
  OBVIOUS
<1>2. k \in S /\ \A y \in S : k >= y
  BY <1>1
<1>3. \A x \in S : (\A y \in S : x >= y) => x = k
  BY <1>1
<1> QED
  BY <1>2, <1>3 DEF Max

\* The recursion has a solution.
LEMMA FoldingExists ==
    ASSUME NEW p, NEW s, NEW seq, NEW n \in Nat
    PROVE  \E g : Folding(g, p, s, seq, n)
<1> DEFINE Bad == {k \in Nat : ~ \E g : Folding(g, p, s, seq, k)}
<1>1. SUFFICES ASSUME Bad # {} PROVE FALSE
  OBVIOUS
<1>2. PICK k \in Bad : \A m \in Bad : k <= m
  <2>1. Bad \in SUBSET Nat
    OBVIOUS
  <2> HIDE DEF Bad
  <2> QED
    BY <1>1, <2>1, LeastElement
<1>3. k \in Nat /\ ~ \E g : Folding(g, p, s, seq, k)
  BY <1>2
<1>4. CASE k = 0
  <2> DEFINE g == [S \in SUBSET (1..0) |-> s]
  <2>1. \A S \in SUBSET (1..0) : S = {}
    OBVIOUS
  <2>2. g = [S \in SUBSET (1..0) |->
                IF S = {} THEN s
                ELSE LET x == Max(S) IN Do(p, g[S \ {x}], seq[x])]
    BY <2>1
  <2>3. Folding(g, p, s, seq, 0)
    <3> HIDE DEF g
    <3> QED
      BY <2>2 DEF Folding
  <2> QED
    BY <1>3, <1>4, <2>3
<1>5. CASE k # 0
  <2>1. k - 1 \in Nat /\ k - 1 \notin Bad
    <3>1. k \in Nat /\ k - 1 \in Nat
      BY <1>3, <1>5
    <3> HIDE DEF Bad
    <3> QED
      BY <1>2, <3>1
  <2>2. PICK g : Folding(g, p, s, seq, k - 1)
    BY <2>1
  <2> DEFINE h == [S \in SUBSET (1..k) |->
                      IF k \in S THEN Do(p, g[S \ {k}], seq[k]) ELSE g[S]]
             F(f, S) == IF S = {} THEN s
                        ELSE LET x == Max(S) IN Do(p, f[S \ {x}], seq[x])
  <2>3. \A S \in SUBSET (1..k) : k \notin S => S \in SUBSET (1..(k - 1))
    <3>1. \A x \in 1..k : x # k => x \in 1..(k - 1)
      BY <2>1
    <3> QED
      BY <3>1
  <2>4. ASSUME NEW S \in SUBSET (1..k), k \in S PROVE h[S] = F(h, S)
    <3>1. Max(S) = k /\ S # {}
      BY <1>3, <2>4, LargestOf
    <3>2. S \ {k} \in SUBSET (1..k) /\ k \notin S \ {k}
      OBVIOUS
    <3>3. h[S \ {k}] = g[S \ {k}]
      BY <3>2
    <3>4. h[S] = Do(p, g[S \ {k}], seq[k])
      BY <2>4
    <3> HIDE DEF h
    <3> QED
      BY <3>1, <3>3, <3>4
  <2>5. ASSUME NEW S \in SUBSET (1..k), k \notin S PROVE h[S] = F(h, S)
    <3>1. S \in SUBSET (1..(k - 1))
      BY <2>3, <2>5
    <3>2. h[S] = g[S]
      BY <2>5
    <3>3. g[S] = F(g, S)
      BY <2>2, <3>1 DEF Folding
    <3>4. \A x : h[S \ {x}] = g[S \ {x}]
      <4>1. \A x : S \ {x} \in SUBSET (1..k) /\ k \notin S \ {x}
        BY <2>5
      <4> QED
        BY <4>1
    <3> HIDE DEF h
    <3> QED
      BY <3>2, <3>3, <3>4
  <2>6. \A S \in SUBSET (1..k) : h[S] = F(h, S)
    BY <2>4, <2>5
  <2>7. h = [S \in SUBSET (1..k) |-> h[S]]
    OBVIOUS
  <2> HIDE DEF h
  <2>8. h = [S \in SUBSET (1..k) |-> F(h, S)]
    BY <2>6, <2>7
  <2>9. Folding(h, p, s, seq, k)
    BY <2>8 DEF Folding
  <2> QED
    BY <1>3, <2>9
<1> QED
  BY <1>4, <1>5

\* Any solution walks through the sequence.
LEMMA FoldingWalks ==
    ASSUME NEW g, NEW p, NEW s, NEW seq, NEW n \in Nat, Folding(g, p, s, seq, n)
    PROVE  \E W : Walk(W, p, s, seq, n) /\ W[n] = g[1..n]
<1> DEFINE W == [k \in 0..n |-> g[1..k]]
<1>1. \A S \in SUBSET (1..n) :
         g[S] = IF S = {} THEN s ELSE LET x == Max(S) IN Do(p, g[S \ {x}], seq[x])
  BY DEF Folding
<1>2. W[0] = s
  <2>1. 1..0 = {} /\ {} \in SUBSET (1..n)
    OBVIOUS
  <2>2. g[{}] = s
    BY <1>1, <2>1
  <2>3. W[0] = g[1..0]
    OBVIOUS
  <2> HIDE DEF W
  <2> QED
    BY <2>1, <2>2, <2>3, Zenon
<1>3. ASSUME NEW k \in 1..n PROVE W[k] = Do(p, W[k - 1], seq[k])
  <2>1. 1..k \in SUBSET (1..n) /\ k \in 1..k /\ (1..k) \ {k} = 1..(k - 1)
    OBVIOUS
  <2>2. Max(1..k) = k
    BY <2>1, LargestOf
  <2>3. g[1..k] = Do(p, g[1..(k - 1)], seq[k])
    <3>1. 1..k # {}
      BY <2>1
    <3>2. PICK S : S = 1..k
      OBVIOUS
    <3> QED
      BY <1>1, <2>1, <2>2, <3>1, <3>2
  <2>4. W[k] = g[1..k] /\ W[k - 1] = g[1..(k - 1)]
    OBVIOUS
  <2> HIDE DEF W
  <2> QED
    BY <2>3, <2>4
<1>4. W[n] = g[1..n]
  OBVIOUS
<1> HIDE DEF W
<1> QED
  BY <1>2, <1>3, <1>4 DEF Walk

\* What holds before a walk and is kept by its steps holds at its end.
LEMMA Climb ==
    ASSUME NEW n \in Nat, NEW T, 0 \in T, \A k \in 1..n : k - 1 \in T => k \in T
    PROVE  \A k \in 0..n : k \in T
<1> DEFINE Bad == {k \in 0..n : k \notin T}
<1>1. SUFFICES ASSUME Bad # {} PROVE FALSE
  OBVIOUS
<1>2. Bad \in SUBSET Nat
  OBVIOUS
<1>3. PICK k \in Bad : \A m \in Bad : k <= m
  <2> HIDE DEF Bad
  <2> QED
    BY <1>1, <1>2, LeastElement
<1>4. k \in 1..n /\ k - 1 \in 0..n /\ k - 1 < k
  BY <1>3
<1>5. k - 1 \notin Bad
  BY <1>3, <1>4
<1>6. k - 1 \in T
  BY <1>4, <1>5
<1> QED
  BY <1>3, <1>4, <1>6

\* The walk to the greatest score.
LEMMA HighestWalk ==
    ASSUME NEW s, NEW xs, NEW n \in Nat, DOMAIN xs = 1..n
    PROVE  \E W : /\ Walk(W, [kind |-> "highest"], s, xs, n)
                  /\ W[n] = Highest(s, xs)
<1> DEFINE q == xs
           p == [kind |-> "highest"]
           Op(a, x) == IF x > a THEN x ELSE a
           Rec(g) == g = [S \in SUBSET (1..n) |->
                             IF S = {} THEN s
                             ELSE LET x == Max(S) IN Op(g[S \ {x}], q[x])]
           h == CHOOSE g : Rec(g)
<1>1. \A g : Rec(g) <=> Folding(g, p, s, q, n)
  <2>1. \A a, x : Op(a, x) = Do(p, a, x)
    BY DEF Do
  <2> HIDE DEF Op, p, q
  <2> QED
    BY <2>1 DEF Folding
<1>2. Highest(s, xs) = h[1..n]
  BY Zenon DEF Highest, FoldLeft, MapThenFoldSet
<1>3. Rec(h)
  <2>1. \E g : Rec(g)
    <3> HIDE DEF Rec, p, q
    <3> QED
      BY <1>1, FoldingExists
  <2> HIDE DEF Rec
  <2> QED
    BY <2>1
<1> HIDE DEF Rec, h, p, q
<1>4. \E W : Walk(W, p, s, q, n) /\ W[n] = h[1..n]
  BY <1>1, <1>3, FoldingWalks
<1> QED
  BY <1>2, <1>4 DEF p, q

\* The walk to a sum.
LEMMA TotalWalk ==
    ASSUME NEW xs, NEW n \in Nat, DOMAIN xs = 1..n
    PROVE  \E W : /\ Walk(W, [kind |-> "total"], 0, xs, n)
                  /\ W[n] = SumOf(xs)
<1> DEFINE q == xs
           p == [kind |-> "total"]
           Op(a, x) == a + x
           Rec(g) == g = [S \in SUBSET (1..n) |->
                             IF S = {} THEN 0
                             ELSE LET x == Max(S) IN Op(g[S \ {x}], q[x])]
           h == CHOOSE g : Rec(g)
<1>1. \A g : Rec(g) <=> Folding(g, p, 0, q, n)
  <2>1. \A a, x : Op(a, x) = Do(p, a, x)
    BY DEF Do
  <2> HIDE DEF Op, p, q
  <2> QED
    BY <2>1 DEF Folding
<1>2. SumOf(xs) = h[1..n]
  BY Zenon DEF SumOf, FoldLeft, MapThenFoldSet
<1>3. Rec(h)
  <2>1. \E g : Rec(g)
    <3> HIDE DEF Rec, p, q
    <3> QED
      BY <1>1, FoldingExists
  <2> HIDE DEF Rec
  <2> QED
    BY <2>1
<1> HIDE DEF Rec, h, p, q
<1>4. \E W : Walk(W, p, 0, q, n) /\ W[n] = h[1..n]
  BY <1>1, <1>3, FoldingWalks
<1> QED
  BY <1>2, <1>4 DEF p, q

\* The walk to a sum that may not be a number.
LEMMA PlusWalk ==
    ASSUME NEW xs, NEW n \in Nat, DOMAIN xs = 1..n
    PROVE  \E W : /\ Walk(W, [kind |-> "plus"], 0, xs, n)
                  /\ W[n] = SumOrNaN(xs)
<1> DEFINE q == xs
           p == [kind |-> "plus"]
           Op(a, x) == Plus(a, x)
           Rec(g) == g = [S \in SUBSET (1..n) |->
                             IF S = {} THEN 0
                             ELSE LET x == Max(S) IN Op(g[S \ {x}], q[x])]
           h == CHOOSE g : Rec(g)
<1>1. \A g : Rec(g) <=> Folding(g, p, 0, q, n)
  <2>1. \A a, x : Op(a, x) = Do(p, a, x)
    BY DEF Do
  <2> HIDE DEF Op, p, q
  <2> QED
    BY <2>1 DEF Folding
<1>2. SumOrNaN(xs) = h[1..n]
  BY Zenon DEF SumOrNaN, FoldLeft, MapThenFoldSet
<1>3. Rec(h)
  <2>1. \E g : Rec(g)
    <3> HIDE DEF Rec, p, q
    <3> QED
      BY <1>1, FoldingExists
  <2> HIDE DEF Rec
  <2> QED
    BY <2>1
<1> HIDE DEF Rec, h, p, q
<1>4. \E W : Walk(W, p, 0, q, n) /\ W[n] = h[1..n]
  BY <1>1, <1>3, FoldingWalks
<1> QED
  BY <1>2, <1>4 DEF p, q

\* The walk of the streaming pool.
LEMMA StreamingWalk ==
    ASSUME NEW s, NEW xs, NEW vs, NEW n \in Nat, DOMAIN xs = 1..n
    PROVE  \E W : /\ Walk(W, [kind |-> "update", xs |-> xs, vs |-> vs], s, [i \in DOMAIN xs |-> i], n)
                  /\ W[n] = Streaming(s, xs, vs)
<1> DEFINE q == [i \in DOMAIN xs |-> i]
           p == [kind |-> "update", xs |-> xs, vs |-> vs]
           Op(a, x) == Update(a, xs[x], vs[x])
           Rec(g) == g = [S \in SUBSET (1..n) |->
                             IF S = {} THEN s
                             ELSE LET x == Max(S) IN Op(g[S \ {x}], q[x])]
           h == CHOOSE g : Rec(g)
<1>1. \A g : Rec(g) <=> Folding(g, p, s, q, n)
  <2>1. \A a, x : Op(a, x) = Do(p, a, x)
    BY DEF Do
  <2> HIDE DEF Op, p, q
  <2> QED
    BY <2>1 DEF Folding
<1>2. Streaming(s, xs, vs) = h[1..n]
  BY Zenon DEF Streaming, FoldLeftDomain, FoldLeft, MapThenFoldSet
<1>3. Rec(h)
  <2>1. \E g : Rec(g)
    <3> HIDE DEF Rec, p, q
    <3> QED
      BY <1>1, FoldingExists
  <2> HIDE DEF Rec
  <2> QED
    BY <2>1
<1> HIDE DEF Rec, h, p, q
<1>4. \E W : Walk(W, p, s, q, n) /\ W[n] = h[1..n]
  BY <1>1, <1>3, FoldingWalks
<1> QED
  BY <1>2, <1>4 DEF p, q

\* The walk of the pool with the clamped exp.
LEMMA ClampedWalk ==
    ASSUME NEW s, NEW xs, NEW vs, NEW n \in Nat, DOMAIN xs = 1..n
    PROVE  \E W : /\ Walk(W, [kind |-> "clamped", xs |-> xs, vs |-> vs], s, [i \in DOMAIN xs |-> i], n)
                  /\ W[n] = StreamingClamped(s, xs, vs)
<1> DEFINE q == [i \in DOMAIN xs |-> i]
           p == [kind |-> "clamped", xs |-> xs, vs |-> vs]
           Op(a, x) == UpdateClamped(a, xs[x], vs[x])
           Rec(g) == g = [S \in SUBSET (1..n) |->
                             IF S = {} THEN s
                             ELSE LET x == Max(S) IN Op(g[S \ {x}], q[x])]
           h == CHOOSE g : Rec(g)
<1>1. \A g : Rec(g) <=> Folding(g, p, s, q, n)
  <2>1. \A a, x : Op(a, x) = Do(p, a, x)
    BY DEF Do
  <2> HIDE DEF Op, p, q
  <2> QED
    BY <2>1 DEF Folding
<1>2. StreamingClamped(s, xs, vs) = h[1..n]
  BY Zenon DEF StreamingClamped, FoldLeftDomain, FoldLeft, MapThenFoldSet
<1>3. Rec(h)
  <2>1. \E g : Rec(g)
    <3> HIDE DEF Rec, p, q
    <3> QED
      BY <1>1, FoldingExists
  <2> HIDE DEF Rec
  <2> QED
    BY <2>1
<1> HIDE DEF Rec, h, p, q
<1>4. \E W : Walk(W, p, s, q, n) /\ W[n] = h[1..n]
  BY <1>1, <1>3, FoldingWalks
<1> QED
  BY <1>2, <1>4 DEF p, q

\* The folds that are named nowhere else: s is what they start from.
TwoPassAdds(s, m, xs, vs) ==
    FoldLeftDomain(LAMBDA a, r : LET e == IF xs[r] = NegInf THEN 0 ELSE Exp(xs[r], m)
                                 IN  [a EXCEPT !.l = @ + e, !.acc = @ + e * vs[r]], s, xs)

Adds(s, m, xs, vs) ==
    FoldLeftDomain(LAMBDA a, k : [a EXCEPT !.l = @ + Exp(xs[k], m), !.acc = @ + Exp(xs[k], m) * vs[k]], s, xs)

AttendSteps(s, xs, vs) == FoldLeftDomain(LAMBDA a, k : AttendStep(a, xs[k], vs[k]), s, xs)

MaskedSteps(s, xs, vs, keep) ==
    FoldLeftDomain(LAMBDA a, k : IF k \in keep THEN AttendStep(a, xs[k], vs[k]) ELSE a, s, xs)

KeptOf(xs) == FoldLeftDomain(LAMBDA ks, k : IF xs[k] = NegInf THEN ks ELSE Append(ks, k), <<>>, xs)

Blocks(s, n, xs, vs) ==
    FoldLeft(LAMBDA a, b : BlockStep(a, CutOf(xs, b), CutOf(vs, b)), s, [b \in 1..n |-> b])

CombineTiles(s, n, c, row) == FoldLeft(LAMBDA a, b : CombineNext(c, row, a, b), s, [b \in 1..n |-> b])

\* The walk of the pool's second pass.
LEMMA TwoPassWalk ==
    ASSUME NEW s, NEW xs, NEW vs, NEW m, NEW n \in Nat, DOMAIN xs = 1..n
    PROVE  \E W : /\ Walk(W, [kind |-> "twopass", xs |-> xs, vs |-> vs, m |-> m], s, [i \in DOMAIN xs |-> i], n)
                  /\ W[n] = TwoPassAdds(s, m, xs, vs)
<1> DEFINE q == [i \in DOMAIN xs |-> i]
           p == [kind |-> "twopass", xs |-> xs, vs |-> vs, m |-> m]
           Op(a, x) == LET e == IF xs[x] = NegInf THEN 0 ELSE Exp(xs[x], m) IN  [a EXCEPT !.l = @ + e, !.acc = @ + e * vs[x]]
           Rec(g) == g = [S \in SUBSET (1..n) |->
                             IF S = {} THEN s
                             ELSE LET x == Max(S) IN Op(g[S \ {x}], q[x])]
           h == CHOOSE g : Rec(g)
<1>1. \A g : Rec(g) <=> Folding(g, p, s, q, n)
  <2>1. \A a, x : Op(a, x) = Do(p, a, x)
    BY DEF Do
  <2> HIDE DEF Op, p, q
  <2> QED
    BY <2>1 DEF Folding
<1>2. TwoPassAdds(s, m, xs, vs) = h[1..n]
  BY Zenon DEF TwoPassAdds, FoldLeftDomain, FoldLeft, MapThenFoldSet
<1>3. Rec(h)
  <2>1. \E g : Rec(g)
    <3> HIDE DEF Rec, p, q
    <3> QED
      BY <1>1, FoldingExists
  <2> HIDE DEF Rec
  <2> QED
    BY <2>1
<1> HIDE DEF Rec, h, p, q
<1>4. \E W : Walk(W, p, s, q, n) /\ W[n] = h[1..n]
  BY <1>1, <1>3, FoldingWalks
<1> QED
  BY <1>2, <1>4 DEF p, q

\* The walk of sums against a maximum that is known beforehand.
LEMMA AddWalk ==
    ASSUME NEW s, NEW xs, NEW vs, NEW m, NEW n \in Nat, DOMAIN xs = 1..n
    PROVE  \E W : /\ Walk(W, [kind |-> "add", xs |-> xs, vs |-> vs, m |-> m], s, [i \in DOMAIN xs |-> i], n)
                  /\ W[n] = Adds(s, m, xs, vs)
<1> DEFINE q == [i \in DOMAIN xs |-> i]
           p == [kind |-> "add", xs |-> xs, vs |-> vs, m |-> m]
           Op(a, x) == [a EXCEPT !.l = @ + Exp(xs[x], m), !.acc = @ + Exp(xs[x], m) * vs[x]]
           Rec(g) == g = [S \in SUBSET (1..n) |->
                             IF S = {} THEN s
                             ELSE LET x == Max(S) IN Op(g[S \ {x}], q[x])]
           h == CHOOSE g : Rec(g)
<1>1. \A g : Rec(g) <=> Folding(g, p, s, q, n)
  <2>1. \A a, x : Op(a, x) = Do(p, a, x)
    BY DEF Do
  <2> HIDE DEF Op, p, q
  <2> QED
    BY <2>1 DEF Folding
<1>2. Adds(s, m, xs, vs) = h[1..n]
  BY Zenon DEF Adds, FoldLeftDomain, FoldLeft, MapThenFoldSet
<1>3. Rec(h)
  <2>1. \E g : Rec(g)
    <3> HIDE DEF Rec, p, q
    <3> QED
      BY <1>1, FoldingExists
  <2> HIDE DEF Rec
  <2> QED
    BY <2>1
<1> HIDE DEF Rec, h, p, q
<1>4. \E W : Walk(W, p, s, q, n) /\ W[n] = h[1..n]
  BY <1>1, <1>3, FoldingWalks
<1> QED
  BY <1>2, <1>4 DEF p, q

\* The walk of the flash attention.
LEMMA AttendWalk ==
    ASSUME NEW s, NEW xs, NEW vs, NEW n \in Nat, DOMAIN xs = 1..n
    PROVE  \E W : /\ Walk(W, [kind |-> "attend", xs |-> xs, vs |-> vs], s, [i \in DOMAIN xs |-> i], n)
                  /\ W[n] = AttendSteps(s, xs, vs)
<1> DEFINE q == [i \in DOMAIN xs |-> i]
           p == [kind |-> "attend", xs |-> xs, vs |-> vs]
           Op(a, x) == AttendStep(a, xs[x], vs[x])
           Rec(g) == g = [S \in SUBSET (1..n) |->
                             IF S = {} THEN s
                             ELSE LET x == Max(S) IN Op(g[S \ {x}], q[x])]
           h == CHOOSE g : Rec(g)
<1>1. \A g : Rec(g) <=> Folding(g, p, s, q, n)
  <2>1. \A a, x : Op(a, x) = Do(p, a, x)
    BY DEF Do
  <2> HIDE DEF Op, p, q
  <2> QED
    BY <2>1 DEF Folding
<1>2. AttendSteps(s, xs, vs) = h[1..n]
  BY Zenon DEF AttendSteps, FoldLeftDomain, FoldLeft, MapThenFoldSet
<1>3. Rec(h)
  <2>1. \E g : Rec(g)
    <3> HIDE DEF Rec, p, q
    <3> QED
      BY <1>1, FoldingExists
  <2> HIDE DEF Rec
  <2> QED
    BY <2>1
<1> HIDE DEF Rec, h, p, q
<1>4. \E W : Walk(W, p, s, q, n) /\ W[n] = h[1..n]
  BY <1>1, <1>3, FoldingWalks
<1> QED
  BY <1>2, <1>4 DEF p, q

\* The same where masked keys are skipped.
LEMMA MaskedWalk ==
    ASSUME NEW s, NEW xs, NEW vs, NEW keep, NEW n \in Nat, DOMAIN xs = 1..n
    PROVE  \E W : /\ Walk(W, [kind |-> "masked", xs |-> xs, vs |-> vs, keep |-> keep], s, [i \in DOMAIN xs |-> i], n)
                  /\ W[n] = MaskedSteps(s, xs, vs, keep)
<1> DEFINE q == [i \in DOMAIN xs |-> i]
           p == [kind |-> "masked", xs |-> xs, vs |-> vs, keep |-> keep]
           Op(a, x) == IF x \in keep THEN AttendStep(a, xs[x], vs[x]) ELSE a
           Rec(g) == g = [S \in SUBSET (1..n) |->
                             IF S = {} THEN s
                             ELSE LET x == Max(S) IN Op(g[S \ {x}], q[x])]
           h == CHOOSE g : Rec(g)
<1>1. \A g : Rec(g) <=> Folding(g, p, s, q, n)
  <2>1. \A a, x : Op(a, x) = Do(p, a, x)
    BY DEF Do
  <2> HIDE DEF Op, p, q
  <2> QED
    BY <2>1 DEF Folding
<1>2. MaskedSteps(s, xs, vs, keep) = h[1..n]
  BY Zenon DEF MaskedSteps, FoldLeftDomain, FoldLeft, MapThenFoldSet
<1>3. Rec(h)
  <2>1. \E g : Rec(g)
    <3> HIDE DEF Rec, p, q
    <3> QED
      BY <1>1, FoldingExists
  <2> HIDE DEF Rec
  <2> QED
    BY <2>1
<1> HIDE DEF Rec, h, p, q
<1>4. \E W : Walk(W, p, s, q, n) /\ W[n] = h[1..n]
  BY <1>1, <1>3, FoldingWalks
<1> QED
  BY <1>2, <1>4 DEF p, q

\* The walk to the keys that are kept.
LEMMA KeptWalk ==
    ASSUME NEW xs, NEW n \in Nat, DOMAIN xs = 1..n
    PROVE  \E W : /\ Walk(W, [kind |-> "kept", xs |-> xs], <<>>, [i \in DOMAIN xs |-> i], n)
                  /\ W[n] = KeptOf(xs)
<1> DEFINE q == [i \in DOMAIN xs |-> i]
           p == [kind |-> "kept", xs |-> xs]
           Op(a, x) == IF xs[x] = NegInf THEN a ELSE Append(a, x)
           Rec(g) == g = [S \in SUBSET (1..n) |->
                             IF S = {} THEN <<>>
                             ELSE LET x == Max(S) IN Op(g[S \ {x}], q[x])]
           h == CHOOSE g : Rec(g)
<1>1. \A g : Rec(g) <=> Folding(g, p, <<>>, q, n)
  <2>1. \A a, x : Op(a, x) = Do(p, a, x)
    BY DEF Do
  <2> HIDE DEF Op, p, q
  <2> QED
    BY <2>1 DEF Folding
<1>2. KeptOf(xs) = h[1..n]
  BY Zenon DEF KeptOf, FoldLeftDomain, FoldLeft, MapThenFoldSet
<1>3. Rec(h)
  <2>1. \E g : Rec(g)
    <3> HIDE DEF Rec, p, q
    <3> QED
      BY <1>1, FoldingExists
  <2> HIDE DEF Rec
  <2> QED
    BY <2>1
<1> HIDE DEF Rec, h, p, q
<1>4. \E W : Walk(W, p, <<>>, q, n) /\ W[n] = h[1..n]
  BY <1>1, <1>3, FoldingWalks
<1> QED
  BY <1>2, <1>4 DEF p, q

\* The walk of the blockwise form.
LEMMA BlocksWalk ==
    ASSUME NEW s, NEW xs, NEW vs, NEW n \in Nat
    PROVE  \E W : /\ Walk(W, [kind |-> "blocks", xs |-> xs, vs |-> vs], s, [b \in 1..n |-> b], n)
                  /\ W[n] = Blocks(s, n, xs, vs)
<1> DEFINE q == [b \in 1..n |-> b]
           p == [kind |-> "blocks", xs |-> xs, vs |-> vs]
           Op(a, x) == BlockStep(a, CutOf(xs, x), CutOf(vs, x))
           Rec(g) == g = [S \in SUBSET (1..n) |->
                             IF S = {} THEN s
                             ELSE LET x == Max(S) IN Op(g[S \ {x}], q[x])]
           h == CHOOSE g : Rec(g)
<1>1. \A g : Rec(g) <=> Folding(g, p, s, q, n)
  <2>1. \A a, x : Op(a, x) = Do(p, a, x)
    BY DEF Do
  <2> HIDE DEF Op, p, q
  <2> QED
    BY <2>1 DEF Folding
<1>2. Blocks(s, n, xs, vs) = h[1..n]
  BY Zenon DEF Blocks, FoldLeft, MapThenFoldSet
<1>3. Rec(h)
  <2>1. \E g : Rec(g)
    <3> HIDE DEF Rec, p, q
    <3> QED
      BY <1>1, FoldingExists
  <2> HIDE DEF Rec
  <2> QED
    BY <2>1
<1> HIDE DEF Rec, h, p, q
<1>4. \E W : Walk(W, p, s, q, n) /\ W[n] = h[1..n]
  BY <1>1, <1>3, FoldingWalks
<1> QED
  BY <1>2, <1>4 DEF p, q

\* The walk over the tiles of a combined row.
LEMMA CombineWalk ==
    ASSUME NEW s, NEW c, NEW row, NEW n \in Nat
    PROVE  \E W : /\ Walk(W, [kind |-> "combine", c |-> c, row |-> row], s, [b \in 1..n |-> b], n)
                  /\ W[n] = CombineTiles(s, n, c, row)
<1> DEFINE q == [b \in 1..n |-> b]
           p == [kind |-> "combine", c |-> c, row |-> row]
           Op(a, x) == CombineNext(c, row, a, x)
           Rec(g) == g = [S \in SUBSET (1..n) |->
                             IF S = {} THEN s
                             ELSE LET x == Max(S) IN Op(g[S \ {x}], q[x])]
           h == CHOOSE g : Rec(g)
<1>1. \A g : Rec(g) <=> Folding(g, p, s, q, n)
  <2>1. \A a, x : Op(a, x) = Do(p, a, x)
    BY DEF Do
  <2> HIDE DEF Op, p, q
  <2> QED
    BY <2>1 DEF Folding
<1>2. CombineTiles(s, n, c, row) = h[1..n]
  BY Zenon DEF CombineTiles, FoldLeft, MapThenFoldSet
<1>3. Rec(h)
  <2>1. \E g : Rec(g)
    <3> HIDE DEF Rec, p, q
    <3> QED
      BY <1>1, FoldingExists
  <2> HIDE DEF Rec
  <2> QED
    BY <2>1
<1> HIDE DEF Rec, h, p, q
<1>4. \E W : Walk(W, p, s, q, n) /\ W[n] = h[1..n]
  BY <1>1, <1>3, FoldingWalks
<1> QED
  BY <1>2, <1>4 DEF p, q

-----------------------------------------------------------------------------
(* Powers of two. *)

\* n elements have 2^n sets, one more doubles them.
LEMMA PowerStep ==
    ASSUME NEW n \in Nat
    PROVE  2^n \in Nat /\ 2^(n + 1) = 2^n + 2^n
<1> DEFINE A == SUBSET (1..n)
           B == {S \cup {n + 1} : S \in A}
           f == [S \in A |-> S \cup {n + 1}]
<1>1. \A k \in Nat : /\ IsFiniteSet(SUBSET (1..k)) /\ Cardinality(SUBSET (1..k)) = 2^k
                     /\ Cardinality(SUBSET (1..k)) \in Nat
  <2> SUFFICES ASSUME NEW k \in Nat
               PROVE  /\ IsFiniteSet(SUBSET (1..k)) /\ Cardinality(SUBSET (1..k)) = 2^k
                      /\ Cardinality(SUBSET (1..k)) \in Nat
    OBVIOUS
  <2>1. IsFiniteSet(1..k) /\ Cardinality(1..k) = k
    <3>1. (IF 1 > k THEN 0 ELSE k - 1 + 1) = k
      OBVIOUS
    <3> QED
      BY <3>1, FS_Interval, 1 \in Int, k \in Int
  <2>2. IsFiniteSet(SUBSET (1..k)) /\ Cardinality(SUBSET (1..k)) = 2^k
    BY <2>1, FS_SUBSET, Zenon
  <2> QED
    BY <2>2, FS_CardinalityType, Zenon
<1>2. IsFiniteSet(B) /\ Cardinality(B) = Cardinality(A)
  <2>1. f \in Bijection(A, B)
    <3>1. \A S \in A : n + 1 \notin S
      OBVIOUS
    <3>2. f \in [A -> B]
      OBVIOUS
    <3>3. \A S, T \in A : f[S] = f[T] => S = T
      BY <3>1
    <3>4. \A T \in B : \E S \in A : f[S] = T
      OBVIOUS
    <3> HIDE DEF A, B, f
    <3> QED
      BY <3>2, <3>3, <3>4 DEF Bijection, Injection, Surjection, IsInjective
  <2>2. IsFiniteSet(A)
    BY <1>1
  <2> HIDE DEF A, B, f
  <2> QED
    BY <2>1, <2>2, FS_Bijection, Zenon DEF ExistsBijection
<1>3. SUBSET (1..(n + 1)) = A \cup B
  <2>1. ASSUME NEW S \in SUBSET (1..(n + 1)) PROVE S \in A \cup B
    <3>1. CASE n + 1 \in S
      <4>1. S \ {n + 1} \in A /\ S = (S \ {n + 1}) \cup {n + 1}
        <5>1. 1..(n + 1) = (1..n) \cup {n + 1}
          OBVIOUS
        <5> QED
          BY <3>1, <5>1
      <4> HIDE DEF A
      <4> QED
        BY <4>1
    <3>2. CASE n + 1 \notin S
      <4>1. 1..(n + 1) = (1..n) \cup {n + 1}
        OBVIOUS
      <4> QED
        BY <3>2, <4>1
    <3> QED
      BY <3>1, <3>2
  <2>2. ASSUME NEW S \in A \cup B PROVE S \in SUBSET (1..(n + 1))
    <3>1. 1..n \subseteq 1..(n + 1) /\ n + 1 \in 1..(n + 1)
      OBVIOUS
    <3> QED
      BY <3>1
  <2> HIDE DEF A, B
  <2> QED
    BY <2>1, <2>2
<1>4. A \cap B = {}
  <2>1. \A S \in A : n + 1 \notin S
    OBVIOUS
  <2>2. \A S \in B : n + 1 \in S
    OBVIOUS
  <2> HIDE DEF A, B
  <2> QED
    BY <2>1, <2>2
<1>5. IsFiniteSet(A) /\ Cardinality(A) = 2^n /\ Cardinality(A) \in Nat
  BY <1>1
<1>6. Cardinality(SUBSET (1..(n + 1))) = 2^(n + 1)
  BY <1>1, n + 1 \in Nat
<1> HIDE DEF A, B, f
<1>7. Cardinality(A \cup B) = Cardinality(A) + Cardinality(B) - Cardinality(A \cap B)
  BY <1>2, <1>5, FS_Union, Zenon
<1>8. Cardinality(A \cap B) = 0
  BY <1>4, FS_EmptySet
<1>9. PICK x \in Nat : x = 2^n
  BY <1>5
<1>10. Cardinality(A \cup B) = x + x
  BY <1>2, <1>5, <1>7, <1>8, <1>9
<1> QED
  BY <1>3, <1>6, <1>9, <1>10

\* 2^n as a function, of which the other facts are about.
Pow == [n \in Nat |-> 2^n]

\* Powers of two are positive and double.
LEMMA PowIs ==
    /\ Pow \in [Nat -> Nat \ {0}]
    /\ \A n \in Nat : Pow[n] = 2^n
    /\ Pow[0] = 1
    /\ \A n \in Nat : Pow[n + 1] = 2 * Pow[n]
<1>1. \A n \in Nat : Pow[n] = 2^n
  BY DEF Pow
<1>2. \A n \in Nat : Pow[n] \in Nat
  BY <1>1, PowerStep
<1>3. Pow[0] = 1
  <2>1. 2^0 = 1
    OBVIOUS
  <2> QED
    BY <1>1, <2>1
<1>4. \A n \in Nat : Pow[n + 1] = Pow[n] + Pow[n]
  BY <1>1, PowerStep
<1>5. \A n \in Nat : Pow[n + 1] = 2 * Pow[n]
  BY <1>2, <1>4
<1>6. ASSUME NEW n \in Nat PROVE Pow[n] # 0
  <2> DEFINE T == {k \in 0..n : Pow[k] # 0}
  <2>1. 0 \in T
    BY <1>3
  <2>2. \A k \in 1..n : k - 1 \in T => k \in T
    <3> SUFFICES ASSUME NEW k \in 1..n, Pow[k - 1] # 0 PROVE Pow[k] # 0
      OBVIOUS
    <3>1. k - 1 \in Nat /\ (k - 1) + 1 = k
      OBVIOUS
    <3>2. Pow[k] = 2 * Pow[k - 1] /\ Pow[k - 1] \in Nat
      BY <1>2, <1>5, <3>1
    <3> QED
      BY <3>2
  <2> HIDE DEF T
  <2>3. \A k \in 0..n : k \in T
    BY <2>1, <2>2, Climb
  <2> QED
    BY <2>3 DEF T
<1>7. Pow = [n \in Nat |-> Pow[n]]
  BY DEF Pow
<1>8. Pow \in [Nat -> Nat \ {0}]
  BY <1>2, <1>6, <1>7
<1> QED
  BY <1>1, <1>3, <1>5, <1>8

\* Products.
LEMMA TimesMore ==
    ASSUME NEW a \in Int, NEW b \in Int, NEW c \in Int
    PROVE  /\ (a * b) * c = a * (b * c)
           /\ a * b = b * a
           /\ a * (b + c) = a * b + a * c
           /\ a * b \in Int
  OBVIOUS

\* The power of a sum is a product.
LEMMA PowSum ==
    ASSUME NEW a \in Nat, NEW b \in Nat
    PROVE  Pow[a + b] = Pow[a] * Pow[b]
<1> DEFINE T == {k \in 0..b : Pow[a + k] = Pow[a] * Pow[k]}
<1>1. 0 \in T
  <2>1. a + 0 = a /\ Pow[a] \in Nat
    BY PowIs
  <2> QED
    BY <2>1, PowIs
<1>2. \A k \in 1..b : k - 1 \in T => k \in T
  <2> SUFFICES ASSUME NEW k \in 1..b, Pow[a + (k - 1)] = Pow[a] * Pow[k - 1]
               PROVE  Pow[a + k] = Pow[a] * Pow[k]
    OBVIOUS
  <2>1. k - 1 \in Nat /\ (k - 1) + 1 = k /\ a + (k - 1) \in Nat /\ (a + (k - 1)) + 1 = a + k
    OBVIOUS
  <2>2. Pow[k] = 2 * Pow[k - 1] /\ Pow[a + k] = 2 * Pow[a + (k - 1)]
    BY <2>1, PowIs
  <2>3. PICK x \in Nat, y \in Nat : x = Pow[a] /\ y = Pow[k - 1]
    BY <2>1, PowIs
  <2>4. 2 * (x * y) = x * (2 * y)
    OBVIOUS
  <2> QED
    BY <2>2, <2>3, <2>4
<1> HIDE DEF T
<1>3. \A k \in 0..b : k \in T
  BY <1>1, <1>2, Climb
<1>4. b \in T
  BY <1>3
<1> QED
  BY <1>4 DEF T

-----------------------------------------------------------------------------
(* Weights and rescales. *)

\* What a score weighs: exp of it, nothing if it is masked.
Weight(x) == IF x = NegInf THEN 0 ELSE Pow[x]

\* The unit of the sums whose maximum is m.
Scale(m) == Pow[MaxScore - m]

\* Scores, and what they weigh at their own scale.
LEMMA ScoresAre ==
    /\ MaxScore \in Nat /\ Unit = Pow[MaxScore] /\ Unit \in Nat \ {0}
    /\ NegInf = -1 /\ NaN = -2
    /\ Scores = {-1} \cup 0..MaxScore
    /\ \A x \in Scores : Weight(x) \in Nat /\ (x # NegInf => x \in 0..MaxScore /\ Weight(x) > 0)
    /\ \A m \in 0..MaxScore : Scale(m) \in Nat \ {0} /\ Scale(m) * Weight(m) = Unit
<1>1. MaxScore \in Nat
  BY OnlineSoftmaxAssumption
<1>2. Unit = Pow[MaxScore] /\ Unit \in Nat \ {0}
  BY <1>1, PowIs DEF Unit
<1>3. NegInf = -1 /\ NaN = -2 /\ Scores = {-1} \cup 0..MaxScore
  BY DEF NegInf, NaN, Scores
<1>4. ASSUME NEW x \in Scores
      PROVE  Weight(x) \in Nat /\ (x # NegInf => x \in 0..MaxScore /\ Weight(x) > 0)
  <2>1. x # NegInf => x \in 0..MaxScore
    BY <1>3
  <2>2. x # NegInf => Pow[x] \in Nat \ {0}
    BY <2>1, PowIs
  <2>3. x # NegInf => Pow[x] > 0
    BY <2>2
  <2> QED
    BY <2>1, <2>2, <2>3 DEF Weight
<1>5. ASSUME NEW m \in 0..MaxScore PROVE Scale(m) \in Nat \ {0} /\ Scale(m) * Weight(m) = Unit
  <2>1. MaxScore - m \in Nat /\ (MaxScore - m) + m = MaxScore /\ m \in Nat /\ m # NegInf
    BY <1>1, <1>3
  <2>2. Pow[MaxScore] = Pow[MaxScore - m] * Pow[m]
    BY <2>1, PowSum
  <2> QED
    BY <1>2, <2>1, <2>2, PowIs DEF Scale, Weight
<1> QED
  BY <1>1, <1>2, <1>3, <1>4, <1>5

\* A factor divides out.
LEMMA QuotientOf ==
    ASSUME NEW a \in Nat, NEW b \in Nat \ {0}
    PROVE  (a * b) \div b = a
  OBVIOUS

\* exp of a score against another is its weight at the scale of that one.
LEMMA ExpWeighs ==
    ASSUME NEW x \in Scores, NEW m \in 0..MaxScore
    PROVE  Exp(x, m) = Scale(m) * Weight(x) /\ Exp(x, m) \in Nat
<1> SUFFICES Exp(x, m) = Scale(m) * Weight(x)
  <2>1. PICK a \in Nat, b \in Nat : a = Scale(m) /\ b = Weight(x)
    BY ScoresAre
  <2>2. a * b \in Nat
    OBVIOUS
  <2> QED
    BY <2>1, <2>2
<1>1. m # NegInf /\ MaxScore \in Nat /\ m \in Nat /\ NegInf = -1
  BY ScoresAre
<1>2. CASE x = NegInf
  <2>1. Exp(x, m) = 0
    BY <1>1, <1>2 DEF Exp
  <2>2. Weight(x) = 0 /\ Scale(m) \in Nat
    BY <1>2, ScoresAre DEF Weight
  <2> QED
    BY <2>1, <2>2
<1>3. CASE x # NegInf
  <2>1. x \in 0..MaxScore /\ x \in Nat
    BY <1>1, <1>3, ScoresAre
  <2>2. Weight(x) = Pow[x]
    BY <1>3 DEF Weight
  <2>3. CASE x >= m
    <3>1. x - m \in Nat /\ MaxScore - m \in Nat /\ (MaxScore - m) + x = MaxScore + (x - m)
      BY <1>1, <2>1, <2>3
    <3>2. Exp(x, m) = Unit * 2^(x - m)
      BY <1>1, <1>3, <2>1, <2>3 DEF Exp
    <3>3. 2^(x - m) = Pow[x - m]
      BY <3>1, PowIs
    <3>4. Pow[MaxScore + (x - m)] = Pow[MaxScore] * Pow[x - m]
      BY <1>1, <3>1, PowSum
    <3>5. Pow[(MaxScore - m) + x] = Pow[MaxScore - m] * Pow[x]
      BY <2>1, <3>1, PowSum
    <3> QED
      BY <2>2, <3>1, <3>2, <3>3, <3>4, <3>5, ScoresAre DEF Scale
  <2>4. CASE ~(x >= m)
    <3>1. x < m /\ m - x \in Nat
      BY <2>1, <2>4
    <3>2. Exp(x, m) = Unit \div 2^(m - x)
      BY <1>1, <1>3, <2>1, <3>1 DEF Exp
    <3>3. 2^(m - x) = Pow[m - x]
      BY <3>1, PowIs
    <3>4. (MaxScore - m) + x \in Nat /\ ((MaxScore - m) + x) + (m - x) = MaxScore /\ MaxScore - m \in Nat
          /\ x \in Nat
      BY <1>1, <2>1
    <3>5. Pow[MaxScore] = Pow[(MaxScore - m) + x] * Pow[m - x]
      BY <3>1, <3>4, PowSum
    <3>6. Pow[(MaxScore - m) + x] = Pow[MaxScore - m] * Pow[x]
      BY <3>4, PowSum
    <3>7. PICK a \in Nat, b \in Nat \ {0} : a = Pow[(MaxScore - m) + x] /\ b = Pow[m - x]
      BY <3>1, <3>4, PowIs
    <3>8. Exp(x, m) = (a * b) \div b
      BY <3>2, <3>3, <3>5, <3>7, ScoresAre
    <3>9. Exp(x, m) = a
      BY <3>8, QuotientOf
    <3> QED
      BY <2>2, <3>6, <3>7, <3>9 DEF Scale
  <2> QED
    BY <2>3, <2>4
<1> QED
  BY <1>2, <1>3

\* A rescale moves a sum from one scale to the next.
LEMMA TimesRescales ==
    ASSUME NEW a \in 0..MaxScore, NEW b \in 0..MaxScore, a <= b, NEW y \in Nat
    PROVE  Times(Scale(a) * y, Exp(a, b)) = Scale(b) * y
<1>1. a \in Scores /\ a # NegInf /\ NaN = -2
  BY ScoresAre
<1>2. Exp(a, b) = Scale(b) * Weight(a)
  BY <1>1, ExpWeighs
<1>3. PICK p \in Nat \ {0}, q \in Nat \ {0}, w \in Nat, u \in Nat \ {0} :
         p = Scale(a) /\ q = Scale(b) /\ w = Weight(a) /\ u = Unit /\ p * w = u
  BY <1>1, ScoresAre
<1>4. p * y \in Nat /\ q * w \in Nat /\ q * y \in Nat
  OBVIOUS
<1>5. Times(p * y, q * w) = ((p * y) * (q * w)) \div u
  <2>1. NaN \notin {p * y, q * w}
    BY <1>1, <1>4
  <2> QED
    BY <1>3, <2>1 DEF Times
<1>6. (p * y) * (q * w) = (q * y) * u
  <2>1. (p * y) * (q * w) = (q * y) * (p * w)
    OBVIOUS
  <2> QED
    BY <1>3, <2>1
<1>7. ((q * y) * u) \div u = q * y
  BY <1>4, QuotientOf
<1> QED
  BY <1>2, <1>3, <1>5, <1>6, <1>7

\* A rescale of nothing is nothing.
LEMMA ZeroTimes ==
    ASSUME NEW e \in Nat
    PROVE  Times(0, e) = 0
<1>1. PICK u \in Nat \ {0} : u = Unit
  BY ScoresAre
<1>2. NaN \notin {0, e}
  BY ScoresAre
<1>3. 0 * e = 0 /\ 0 \div u = 0
  OBVIOUS
<1> QED
  BY <1>1, <1>2, <1>3 DEF Times

-----------------------------------------------------------------------------
(* Sums and maxima of a row. *)

\* The sum of the first k.
PartSum(f, k) == SumOf([i \in 1..k |-> f[i]])

\* The partial sums, and the sum they lead to.
LEMMA PartSums ==
    ASSUME NEW n \in Nat, NEW f \in [1..n -> Nat]
    PROVE  /\ PartSum(f, 0) = 0
           /\ \A k \in 1..n : PartSum(f, k) = PartSum(f, k - 1) + f[k]
           /\ \A k \in 0..n : PartSum(f, k) \in Nat
           /\ SumOf(f) = PartSum(f, n)
<1>1. ASSUME NEW k \in 0..n
      PROVE  \E W : /\ W[0] = 0
                    /\ \A j \in 1..k : W[j] = W[j - 1] + f[j]
                    /\ W[k] = PartSum(f, k)
  <2> DEFINE q == [i \in 1..k |-> f[i]]
  <2>1. DOMAIN q = 1..k /\ k \in Nat
    OBVIOUS
  <2>2. PICK W : Walk(W, [kind |-> "total"], 0, q, k) /\ W[k] = SumOf(q)
    <3> HIDE DEF q
    <3> QED
      BY <2>1, TotalWalk
  <2>3. \A a, x : Do([kind |-> "total"], a, x) = a + x
    BY DEF Do
  <2>4. \A j \in 1..k : q[j] = f[j]
    OBVIOUS
  <2>5. W[0] = 0 /\ \A j \in 1..k : W[j] = W[j - 1] + q[j]
    <3> HIDE DEF q
    <3> QED
      BY <2>2, <2>3 DEF Walk
  <2>6. W[k] = PartSum(f, k)
    BY <2>2 DEF PartSum
  <2> QED
    BY <2>4, <2>5, <2>6
<1>2. PICK V : /\ V[0] = 0
               /\ \A j \in 1..n : V[j] = V[j - 1] + f[j]
               /\ V[n] = PartSum(f, n)
  BY <1>1
<1>3. ASSUME NEW k \in 0..n PROVE PartSum(f, k) = V[k]
  <2>1. PICK W : /\ W[0] = 0
                 /\ \A j \in 1..k : W[j] = W[j - 1] + f[j]
                 /\ W[k] = PartSum(f, k)
    BY <1>1
  <2> DEFINE T == {j \in 0..k : W[j] = V[j]}
  <2>2. 0 \in T
    BY <1>2, <2>1
  <2>3. \A j \in 1..k : j - 1 \in T => j \in T
    BY <1>2, <2>1
  <2> HIDE DEF T
  <2>6. k \in Nat
    OBVIOUS
  <2>4. \A j \in 0..k : j \in T
    BY <2>2, <2>3, <2>6, Climb
  <2>5. k \in T
    BY <2>4
  <2> QED
    BY <2>1, <2>5 DEF T
<1>4. \A k \in 0..n : V[k] \in Nat
  <2> DEFINE T == {j \in 0..n : V[j] \in Nat}
  <2>1. 0 \in T
    BY <1>2
  <2>2. \A j \in 1..n : j - 1 \in T => j \in T
    <3> SUFFICES ASSUME NEW j \in 1..n, V[j - 1] \in Nat PROVE V[j] \in Nat
      OBVIOUS
    <3>1. f[j] \in Nat /\ V[j] = V[j - 1] + f[j]
      BY <1>2
    <3> QED
      BY <3>1
  <2> HIDE DEF T
  <2>3. \A j \in 0..n : j \in T
    BY <2>1, <2>2, Climb
  <2> QED
    BY <2>3 DEF T
<1>5. SumOf(f) = PartSum(f, n)
  <2>1. f = [i \in 1..n |-> f[i]]
    OBVIOUS
  <2> QED
    BY <2>1, Zenon DEF PartSum
<1>6. \A k \in 1..n : k \in 0..n /\ k - 1 \in 0..n
  OBVIOUS
<1> QED
  BY <1>2, <1>3, <1>4, <1>5, <1>6

\* What starts at 0 and grows by f is its partial sums.
LEMMA SumsBy ==
    ASSUME NEW n \in Nat, NEW f \in [1..n -> Nat], NEW g,
           g[0] = 0, \A k \in 1..n : g[k] = g[k - 1] + f[k]
    PROVE  \A k \in 0..n : g[k] = PartSum(f, k)
<1> DEFINE T == {k \in 0..n : g[k] = PartSum(f, k)}
<1>0. PartSum(f, 0) = 0 /\ \A k \in 1..n : PartSum(f, k) = PartSum(f, k - 1) + f[k]
  BY PartSums
<1>1. 0 \in T
  BY <1>0
<1>2. \A k \in 1..n : k - 1 \in T => k \in T
  BY <1>0
<1> HIDE DEF T
<1>3. \A k \in 0..n : k \in T
  BY <1>1, <1>2, Climb
<1> QED
  BY <1>3 DEF T

\* A factor, and a second sum, go through.
LEMMA TotalScaled ==
    ASSUME NEW n \in Nat, NEW f \in [1..n -> Nat], NEW c \in Nat
    PROVE  SumOf([k \in 1..n |-> c * f[k]]) = c * SumOf(f)
<1> DEFINE h == [k \in 1..n |-> c * f[k]]
           g == [k \in 0..n |-> c * PartSum(f, k)]
<1>1. h \in [1..n -> Nat]
  OBVIOUS
<1>0. /\ PartSum(f, 0) = 0
      /\ \A k \in 1..n : PartSum(f, k) = PartSum(f, k - 1) + f[k]
      /\ \A k \in 0..n : PartSum(f, k) \in Nat
      /\ SumOf(f) = PartSum(f, n)
  BY PartSums
<1>2. g[0] = 0
  BY <1>0
<1>3. ASSUME NEW k \in 1..n PROVE g[k] = g[k - 1] + h[k]
  <2>1. k \in 0..n /\ k - 1 \in 0..n
    OBVIOUS
  <2>2. PICK x \in Nat, y \in Nat : x = PartSum(f, k - 1) /\ y = f[k] /\ PartSum(f, k) = x + y
    BY <1>0, <2>1
  <2>3. c * (x + y) = c * x + c * y
    OBVIOUS
  <2> QED
    BY <2>1, <2>2, <2>3
<1>4. g[n] = c * PartSum(f, n) /\ n \in 0..n
  OBVIOUS
<1> HIDE DEF g, h
<1>5. g[n] = PartSum(h, n)
  BY <1>1, <1>2, <1>3, <1>4, SumsBy
<1>6. SumOf(h) = PartSum(h, n) /\ SumOf(f) = PartSum(f, n)
  BY <1>1, PartSums
<1> QED
  BY <1>4, <1>5, <1>6 DEF h

\* The sum of two rows is the sum of their sums.
LEMMA TotalOfTwo ==
    ASSUME NEW n \in Nat, NEW e \in [1..n -> Nat], NEW f \in [1..n -> Nat]
    PROVE  SumOf([k \in 1..n |-> e[k] + f[k]]) = SumOf(e) + SumOf(f)
<1> DEFINE h == [k \in 1..n |-> e[k] + f[k]]
           g == [k \in 0..n |-> PartSum(e, k) + PartSum(f, k)]
<1>1. h \in [1..n -> Nat]
  OBVIOUS
<1>0. /\ PartSum(e, 0) = 0
      /\ \A k \in 1..n : PartSum(e, k) = PartSum(e, k - 1) + e[k]
      /\ \A k \in 0..n : PartSum(e, k) \in Nat
      /\ SumOf(e) = PartSum(e, n)
  BY PartSums
<1>9. /\ PartSum(f, 0) = 0
      /\ \A k \in 1..n : PartSum(f, k) = PartSum(f, k - 1) + f[k]
      /\ \A k \in 0..n : PartSum(f, k) \in Nat
      /\ SumOf(f) = PartSum(f, n)
  BY PartSums
<1>2. g[0] = 0
  BY <1>0, <1>9
<1>3. ASSUME NEW k \in 1..n PROVE g[k] = g[k - 1] + h[k]
  <2>1. k \in 0..n /\ k - 1 \in 0..n
    OBVIOUS
  <2>2. /\ PartSum(e, k) = PartSum(e, k - 1) + e[k] /\ PartSum(f, k) = PartSum(f, k - 1) + f[k]
        /\ PartSum(e, k - 1) \in Nat /\ PartSum(f, k - 1) \in Nat /\ e[k] \in Nat /\ f[k] \in Nat
    BY <1>0, <1>9, <2>1
  <2> QED
    BY <2>1, <2>2
<1>4. g[n] = PartSum(e, n) + PartSum(f, n) /\ n \in 0..n
  OBVIOUS
<1> HIDE DEF g, h
<1>5. g[n] = PartSum(h, n)
  BY <1>1, <1>2, <1>3, <1>4, SumsBy
<1>6. SumOf(h) = PartSum(h, n) /\ SumOf(e) = PartSum(e, n) /\ SumOf(f) = PartSum(f, n)
  BY <1>1, PartSums
<1> QED
  BY <1>4, <1>5, <1>6 DEF h

\* The sum of natural numbers is one.
LEMMA TotalIsNat ==
    ASSUME NEW n \in Nat, NEW f \in [1..n -> Nat]
    PROVE  SumOf(f) \in Nat
<1>1. n \in 0..n
  OBVIOUS
<1> QED
  BY <1>1, PartSums

\* One summand is no more than the sum; nothing adds up to nothing.
LEMMA TotalHolds ==
    ASSUME NEW n \in Nat, NEW f \in [1..n -> Nat]
    PROVE  /\ \A k \in 1..n : f[k] <= SumOf(f)
           /\ (\A k \in 1..n : f[k] = 0) => SumOf(f) = 0
<1>1. ASSUME NEW k \in 1..n PROVE f[k] <= SumOf(f)
  <2>5. /\ PartSum(f, 0) = 0
        /\ \A i \in 1..n : PartSum(f, i) = PartSum(f, i - 1) + f[i]
        /\ \A i \in 0..n : PartSum(f, i) \in Nat
        /\ SumOf(f) = PartSum(f, n)
    BY PartSums
  <2> DEFINE T == {j \in 0..n : j >= k => f[k] <= PartSum(f, j)}
  <2>1. 0 \in T
    OBVIOUS
  <2>2. ASSUME NEW j \in 1..n, j - 1 \in T PROVE j \in T
    <3>1. /\ j \in 0..n /\ j - 1 \in 0..n /\ f[j] \in Nat /\ PartSum(f, j - 1) \in Nat
          /\ PartSum(f, j) = PartSum(f, j - 1) + f[j]
      BY <2>5
    <3>2. CASE j = k
      BY <3>1, <3>2
    <3>3. CASE j # k
      BY <2>2, <3>1, <3>3
    <3> QED
      BY <3>2, <3>3
  <2> HIDE DEF T
  <2>3. \A j \in 0..n : j \in T
    BY <2>1, <2>2, Climb
  <2>4. n \in T
    BY <2>3
  <2> QED
    BY <2>4, <2>5 DEF T
<1>2. ASSUME \A k \in 1..n : f[k] = 0 PROVE SumOf(f) = 0
  <2> DEFINE g == [k \in 0..n |-> 0]
  <2>1. g[0] = 0 /\ (\A k \in 1..n : g[k] = g[k - 1] + f[k]) /\ g[n] = 0 /\ n \in 0..n
    BY <1>2
  <2> HIDE DEF g
  <2>2. g[n] = PartSum(f, n)
    BY <2>1, SumsBy
  <2> QED
    BY <2>1, <2>2, PartSums
<1> QED
  BY <1>1, <1>2

\* Where every summand is a number the sum is one, where none is it is none.
LEMMA PlusTotalIs ==
    ASSUME NEW n \in Nat, NEW f
    PROVE  /\ f \in [1..n -> Nat] => SumOrNaN(f) = SumOf(f)
           /\ n > 0 /\ DOMAIN f = 1..n /\ (\A k \in 1..n : f[k] = NaN) => SumOrNaN(f) = NaN
<1>1. ASSUME DOMAIN f = 1..n
      PROVE  \E W : /\ W[0] = 0
                    /\ \A k \in 1..n : W[k] = Plus(W[k - 1], f[k])
                    /\ W[n] = SumOrNaN(f)
  <2>1. PICK W : Walk(W, [kind |-> "plus"], 0, f, n) /\ W[n] = SumOrNaN(f)
    BY <1>1, PlusWalk
  <2>2. \A a, x : Do([kind |-> "plus"], a, x) = Plus(a, x)
    BY DEF Do
  <2> QED
    BY <2>1, <2>2 DEF Walk
<1>2. ASSUME f \in [1..n -> Nat] PROVE SumOrNaN(f) = SumOf(f)
  <2>1. PICK W : /\ W[0] = 0
                 /\ \A k \in 1..n : W[k] = Plus(W[k - 1], f[k])
                 /\ W[n] = SumOrNaN(f)
    BY <1>1, <1>2
  <2>6. /\ PartSum(f, 0) = 0
        /\ \A k \in 1..n : PartSum(f, k) = PartSum(f, k - 1) + f[k]
        /\ \A k \in 0..n : PartSum(f, k) \in Nat
        /\ SumOf(f) = PartSum(f, n)
    BY <1>2, PartSums
  <2> DEFINE T == {k \in 0..n : W[k] = PartSum(f, k)}
  <2>2. 0 \in T
    BY <2>1, <2>6
  <2>3. ASSUME NEW k \in 1..n, k - 1 \in T PROVE k \in T
    <3>1. /\ k \in 0..n /\ k - 1 \in 0..n /\ f[k] \in Nat /\ PartSum(f, k - 1) \in Nat
          /\ PartSum(f, k) = PartSum(f, k - 1) + f[k]
      BY <1>2, <2>6
    <3>2. Plus(PartSum(f, k - 1), f[k]) = PartSum(f, k - 1) + f[k]
      BY <3>1, ScoresAre DEF Plus
    <3> QED
      BY <2>1, <2>3, <3>1, <3>2
  <2> HIDE DEF T
  <2>4. \A k \in 0..n : k \in T
    BY <2>2, <2>3, Climb
  <2>5. n \in T
    BY <2>4
  <2> QED
    BY <2>1, <2>5, <2>6 DEF T
<1>3. ASSUME n > 0, DOMAIN f = 1..n, \A k \in 1..n : f[k] = NaN PROVE SumOrNaN(f) = NaN
  <2>1. PICK W : /\ W[0] = 0
                 /\ \A k \in 1..n : W[k] = Plus(W[k - 1], f[k])
                 /\ W[n] = SumOrNaN(f)
    BY <1>1, <1>3
  <2>2. n \in 1..n
    BY <1>3
  <2>3. W[n] = Plus(W[n - 1], NaN)
    BY <1>3, <2>1, <2>2
  <2> QED
    BY <2>1, <2>3 DEF Plus
<1> QED
  BY <1>2, <1>3

\* The greatest of s and the scores of a row.
LEMMA HighestIs ==
    ASSUME NEW n \in Nat, NEW xs \in [1..n -> Scores], NEW s \in Scores
    PROVE  /\ Highest(s, xs) \in Scores /\ Highest(s, xs) >= s
           /\ \A k \in 1..n : xs[k] <= Highest(s, xs)
           /\ Highest(s, xs) = s \/ \E k \in 1..n : Highest(s, xs) = xs[k]
<1>1. PICK W : Walk(W, [kind |-> "highest"], s, xs, n) /\ W[n] = Highest(s, xs)
  <2>1. DOMAIN xs = 1..n
    OBVIOUS
  <2> QED
    BY <2>1, HighestWalk
<1>2. \A a, x : Do([kind |-> "highest"], a, x) = IF x > a THEN x ELSE a
  BY DEF Do
<1>3. W[0] = s /\ \A k \in 1..n : W[k] = IF xs[k] > W[k - 1] THEN xs[k] ELSE W[k - 1]
  BY <1>1, <1>2 DEF Walk
<1>4. Scores \in SUBSET Int
  BY ScoresAre
<1> DEFINE T == {k \in 0..n : /\ W[k] \in Scores /\ W[k] >= s
                              /\ \A j \in 1..k : xs[j] <= W[k]
                              /\ W[k] = s \/ \E j \in 1..n : W[k] = xs[j]}
<1>5. 0 \in T
  BY <1>3, <1>4
<1>6. ASSUME NEW k \in 1..n, k - 1 \in T PROVE k \in T
  <2>1. W[k - 1] \in Scores /\ xs[k] \in Scores /\ W[k - 1] \in Int /\ xs[k] \in Int /\ s \in Int
    BY <1>4, <1>6
  <2>2. \A j \in 1..k : j = k \/ j \in 1..(k - 1)
    OBVIOUS
  <2>3. \A j \in 1..k : xs[j] \in Int
    <3>1. \A j \in 1..k : xs[j] \in Scores
      OBVIOUS
    <3> QED
      BY <1>4, <3>1
  <2>4. CASE xs[k] > W[k - 1]
    <3>1. W[k] = xs[k]
      BY <1>3, <2>4
    <3> QED
      BY <1>6, <2>1, <2>2, <2>3, <2>4, <3>1
  <2>5. CASE ~(xs[k] > W[k - 1])
    <3>1. W[k] = W[k - 1]
      BY <1>3, <2>5
    <3> QED
      BY <1>6, <2>1, <2>2, <2>3, <2>5, <3>1
  <2> QED
    BY <2>4, <2>5
<1> HIDE DEF T
<1>7. \A k \in 0..n : k \in T
  BY <1>5, <1>6, Climb
<1>8. n \in T
  BY <1>7
<1> QED
  BY <1>1, <1>8 DEF T

-----------------------------------------------------------------------------
(* The row that is promised. *)

\* Weights, and weighted values.
Weights(xs) == [k \in DOMAIN xs |-> Weight(xs[k])]

Weighing(xs, vs) == [k \in DOMAIN xs |-> Weight(xs[k]) * vs[k]]

Row(n, xs, vs) == n \in Nat /\ xs \in [1..n -> Scores] /\ vs \in [1..n -> Nat]

\* The weights of a row, and what is promised of them.
LEMMA RowWeighs ==
    ASSUME NEW n, NEW xs, NEW vs, Row(n, xs, vs)
    PROVE  /\ n \in Nat /\ DOMAIN xs = 1..n /\ DOMAIN vs = 1..n
           /\ Weights(xs) \in [1..n -> Nat] /\ Weighing(xs, vs) \in [1..n -> Nat]
           /\ \A k \in 1..n : /\ Weights(xs)[k] = Weight(xs[k])
                              /\ Weighing(xs, vs)[k] = Weight(xs[k]) * vs[k]
           /\ WeightedSum(xs, vs) = SumOf(Weighing(xs, vs))
           /\ WeightedSum(xs, Ones(xs)) = SumOf(Weights(xs))
           /\ SumOf(Weights(xs)) \in Nat /\ SumOf(Weighing(xs, vs)) \in Nat
           /\ (\A k \in 1..n : xs[k] = NegInf) => SumOf(Weights(xs)) = 0
           /\ \A k \in 1..n : xs[k] # NegInf => SumOf(Weights(xs)) > 0
<1>1. n \in Nat /\ DOMAIN xs = 1..n /\ DOMAIN vs = 1..n /\ xs \in [1..n -> Scores] /\ vs \in [1..n -> Nat]
  BY DEF Row
<1>2. \A k \in 1..n : xs[k] \in Scores /\ vs[k] \in Nat /\ Weight(xs[k]) \in Nat
  BY <1>1, ScoresAre
<1>3. \A k \in 1..n : Weight(xs[k]) * vs[k] \in Nat
  BY <1>2
<1>4. /\ Weights(xs) \in [1..n -> Nat] /\ Weighing(xs, vs) \in [1..n -> Nat]
      /\ \A k \in 1..n : /\ Weights(xs)[k] = Weight(xs[k])
                         /\ Weighing(xs, vs)[k] = Weight(xs[k]) * vs[k]
  BY <1>1, <1>2, <1>3 DEF Weights, Weighing
<1>5. ASSUME NEW k \in 1..n, xs[k] # NegInf PROVE Weight(xs[k]) = 2^xs[k] /\ 2^xs[k] \in Nat
  <2>1. xs[k] \in Nat
    BY <1>2, <1>5, ScoresAre
  <2>2. 2^xs[k] = Pow[xs[k]] /\ Pow[xs[k]] \in Nat
    BY <2>1, PowIs
  <2> QED
    BY <1>5, <2>2 DEF Weight
<1>6. \A k \in 1..n : (IF xs[k] = NegInf THEN 0 ELSE 2^xs[k] * vs[k]) = Weight(xs[k]) * vs[k]
  <2> SUFFICES ASSUME NEW k \in 1..n
               PROVE  (IF xs[k] = NegInf THEN 0 ELSE 2^xs[k] * vs[k]) = Weight(xs[k]) * vs[k]
    OBVIOUS
  <2>1. CASE xs[k] = NegInf
    <3>1. Weight(xs[k]) = 0 /\ 0 * vs[k] = 0
      BY <1>2, <2>1 DEF Weight
    <3> QED
      BY <2>1, <3>1
  <2>2. CASE xs[k] # NegInf
    BY <1>5, <2>2
  <2> QED
    BY <2>1, <2>2
<1>7. \A k \in 1..n : (IF xs[k] = NegInf THEN 0 ELSE 2^xs[k] * Ones(xs)[k]) = Weight(xs[k])
  <2> SUFFICES ASSUME NEW k \in 1..n
               PROVE  (IF xs[k] = NegInf THEN 0 ELSE 2^xs[k] * Ones(xs)[k]) = Weight(xs[k])
    OBVIOUS
  <2>1. Ones(xs)[k] = 1
    BY <1>1 DEF Ones
  <2>2. CASE xs[k] = NegInf
    BY <2>2 DEF Weight
  <2>3. CASE xs[k] # NegInf
    <3>1. PICK z \in Nat : z = 2^xs[k] /\ Weight(xs[k]) = z
      BY <1>5, <2>3
    <3>2. z * 1 = z
      OBVIOUS
    <3> QED
      BY <2>1, <2>3, <3>1, <3>2
  <2> QED
    BY <2>2, <2>3
<1>8. WeightedSum(xs, vs) = SumOf(Weighing(xs, vs))
  <2>1. [i \in DOMAIN xs |-> IF xs[i] = NegInf THEN 0 ELSE 2^xs[i] * vs[i]] = Weighing(xs, vs)
    BY <1>1, <1>6 DEF Weighing
  <2> QED
    BY <2>1, Zenon DEF WeightedSum
<1>9. WeightedSum(xs, Ones(xs)) = SumOf(Weights(xs))
  <2>1. [i \in DOMAIN xs |-> IF xs[i] = NegInf THEN 0 ELSE 2^xs[i] * Ones(xs)[i]] = Weights(xs)
    BY <1>1, <1>7 DEF Weights
  <2> QED
    BY <2>1, Zenon DEF WeightedSum
<1>10. SumOf(Weights(xs)) \in Nat /\ SumOf(Weighing(xs, vs)) \in Nat
  BY <1>1, <1>4, TotalIsNat
<1>11. ASSUME \A k \in 1..n : xs[k] = NegInf PROVE SumOf(Weights(xs)) = 0
  <2>1. \A k \in 1..n : Weights(xs)[k] = 0
    BY <1>4, <1>11 DEF Weight
  <2> QED
    BY <1>1, <1>4, <2>1, TotalHolds
<1>12. ASSUME NEW k \in 1..n, xs[k] # NegInf PROVE SumOf(Weights(xs)) > 0
  <2>1. Weights(xs)[k] \in Nat /\ Weights(xs)[k] > 0
    BY <1>2, <1>4, <1>12, ScoresAre
  <2>2. Weights(xs)[k] <= SumOf(Weights(xs))
    BY <1>1, <1>4, TotalHolds
  <2> QED
    BY <1>10, <2>1, <2>2
<1> QED
  BY <1>1, <1>4, <1>8, <1>9, <1>10, <1>11, <1>12

-----------------------------------------------------------------------------
(* The running sums. *)

Partials == [m : Scores, l : Nat, acc : Nat, tl : Nat, tacc : Nat]

\* st holds the weight w and the weighted value a, at the scale of its maximum.
Carries(st, w, a) ==
    /\ st \in Partials
    /\ st.m = NegInf => st.l = 0 /\ st.acc = 0 /\ w = 0 /\ a = 0
    /\ st.m # NegInf => w > 0 /\ st.l = Scale(st.m) * w /\ st.acc = Scale(st.m) * a

\* Sums that are cleared carry nothing.
LEMMA EmptyCarries == Empty \in Partials /\ Carries(Empty, 0, 0)
  BY ScoresAre DEF Empty, Partials, Carries

\* A scale goes over a sum,
LEMMA Grows ==
    ASSUME NEW c \in Nat, NEW w \in Nat, NEW x \in Nat
    PROVE  c * w + c * x = c * (w + x) /\ c * w \in Nat /\ c * x \in Nat
  OBVIOUS

\* and over a weighted value;
LEMMA Regroup ==
    ASSUME NEW c \in Nat, NEW x \in Nat, NEW v \in Nat
    PROVE  (c * x) * v = c * (x * v) /\ x * v \in Nat /\ (c * x) * v \in Nat
  OBVIOUS

\* it leaves nothing at 0, and what is positive positive.
LEMMA ZeroOr ==
    ASSUME NEW c \in Nat, NEW x \in Nat
    PROVE  c * x \in Nat /\ (x > 0 /\ c > 0 => c * x > 0) /\ c * 0 = 0
  OBVIOUS

\* One position of the streaming pool.
LEMMA UpdateCarries ==
    ASSUME NEW w \in Nat, NEW a \in Nat, NEW st, Carries(st, w, a), NEW x \in Scores, NEW v \in Nat
    PROVE  /\ Carries(Update(st, x, v), w + Weight(x), a + Weight(x) * v)
           /\ Update(st, x, v).tl = st.tl /\ Update(st, x, v).tacc = st.tacc
<1> DEFINE up   == x > st.m
           t    == Decay(st, x)
           corr == IF up THEN t ELSE Unit
           e    == IF up THEN Unit ELSE t
           m1   == IF up THEN x ELSE st.m
           l1   == Plus(Times(st.l, corr), e)
           acc1 == Plus(Times(st.acc, corr), Weighted(e, v))
<1>1. /\ st.m \in Scores /\ st.l \in Nat /\ st.acc \in Nat /\ st.tl \in Nat /\ st.tacc \in Nat
      /\ st \in Partials
  BY DEF Carries, Partials
<1>2. Update(st, x, v) = [st EXCEPT !.m = m1, !.l = l1, !.acc = acc1]
  BY Zenon DEF Update
<1>3. Scores \in SUBSET Int /\ NegInf = -1 /\ NaN = -2 /\ Unit \in Nat \ {0}
  BY ScoresAre
<1>4. m1 \in Scores
  BY <1>1
<1>5. Weight(x) \in Nat /\ Weight(x) * v \in Nat
  <2>1. Weight(x) \in Nat
    BY ScoresAre
  <2> QED
    BY <2>1, Regroup, 1 \in Nat
<1>11. ASSUME /\ l1 \in Nat /\ acc1 \in Nat
              /\ m1 = NegInf => l1 = 0 /\ acc1 = 0 /\ w + Weight(x) = 0 /\ a + Weight(x) * v = 0
              /\ m1 # NegInf => /\ w + Weight(x) > 0 /\ l1 = Scale(m1) * (w + Weight(x))
                                /\ acc1 = Scale(m1) * (a + Weight(x) * v)
       PROVE  /\ Carries(Update(st, x, v), w + Weight(x), a + Weight(x) * v)
              /\ Update(st, x, v).tl = st.tl /\ Update(st, x, v).tacc = st.tacc
  <2>1. PICK r : r = Update(st, x, v)
    OBVIOUS
  <2> HIDE DEF m1, l1, acc1
  <2>2. r = [st EXCEPT !.m = m1, !.l = l1, !.acc = acc1]
    BY <1>2, <2>1
  <2>3. r \in Partials /\ r.m = m1 /\ r.l = l1 /\ r.acc = acc1 /\ r.tl = st.tl /\ r.tacc = st.tacc
    <3>1. st \in Partials /\ m1 \in Scores /\ l1 \in Nat /\ acc1 \in Nat
      BY <1>1, <1>4, <1>11
    <3> HIDE DEF up, t, corr, e
    <3> QED
      BY <2>2, <3>1 DEF Partials
  <2>4. Carries(r, w + Weight(x), a + Weight(x) * v)
    BY <1>11, <2>3 DEF Carries
  <2> QED
    BY <2>1, <2>3, <2>4
<1> DEFINE Goal == /\ l1 \in Nat /\ acc1 \in Nat
                   /\ m1 = NegInf => l1 = 0 /\ acc1 = 0 /\ w + Weight(x) = 0 /\ a + Weight(x) * v = 0
                   /\ m1 # NegInf => /\ w + Weight(x) > 0 /\ l1 = Scale(m1) * (w + Weight(x))
                                     /\ acc1 = Scale(m1) * (a + Weight(x) * v)
<1> SUFFICES Goal
  <2> HIDE DEF up, t, corr, e, m1, l1, acc1
  <2> QED
    BY <1>11
<1>6. ASSUME NEW c \in Nat \ {0}, m1 # NegInf, c = Scale(m1),
             Times(st.l, corr) = c * w, Times(st.acc, corr) = c * a, e = c * Weight(x),
             w > 0 \/ Weight(x) > 0
      PROVE  /\ l1 \in Nat /\ acc1 \in Nat
             /\ w + Weight(x) > 0 /\ l1 = Scale(m1) * (w + Weight(x))
             /\ acc1 = Scale(m1) * (a + Weight(x) * v)
  <2>1. c * w \in Nat /\ c * a \in Nat /\ c * Weight(x) \in Nat /\ (c * Weight(x)) * v \in Nat
    BY <1>5, ZeroOr, Regroup
  <2>2. Weighted(e, v) = (c * Weight(x)) * v
    BY <1>3, <1>6, <2>1 DEF Weighted
  <2>3. l1 = c * w + c * Weight(x) /\ acc1 = c * a + (c * Weight(x)) * v
    BY <1>3, <1>6, <2>1, <2>2 DEF Plus
  <2>4. (c * Weight(x)) * v = c * (Weight(x) * v)
    BY <1>5, Regroup
  <2>5. c * w + c * Weight(x) = c * (w + Weight(x))
    BY <1>5, Grows
  <2>6. c * a + c * (Weight(x) * v) = c * (a + Weight(x) * v)
    BY <1>5, Grows
  <2>7. l1 \in Nat /\ acc1 \in Nat
    BY <2>1, <2>3
  <2>8. w + Weight(x) > 0
    BY <1>5, <1>6
  <2> HIDE DEF l1, acc1
  <2> QED
    BY <1>6, <2>3, <2>4, <2>5, <2>6, <2>7, <2>8
<1>7. CASE st.m = NegInf /\ x = NegInf
  <2>1. ~up /\ t = 0 /\ corr = Unit /\ e = 0 /\ m1 = NegInf
    BY <1>3, <1>7 DEF Decay
  <2>2. st.l = 0 /\ st.acc = 0 /\ w = 0 /\ a = 0 /\ Weight(x) = 0
    BY <1>7 DEF Carries, Weight
  <2>3. Times(0, Unit) = 0
    BY <1>3, ZeroTimes
  <2>4. Weighted(0, v) = 0
    BY <1>3 DEF Weighted
  <2>5. Plus(0, 0) = 0
    BY <1>3 DEF Plus
  <2> QED
    BY <2>1, <2>2, <2>3, <2>4, <2>5
<1>8. CASE st.m = NegInf /\ x # NegInf
  <2>1. up /\ x \in 0..MaxScore /\ Weight(x) > 0
    BY <1>3, <1>8, ScoresAre
  <2>2. t = 0
    BY <1>8, <2>1 DEF Decay
  <2>3. corr = 0 /\ e = Unit /\ m1 = x
    BY <2>1, <2>2
  <2>4. st.l = 0 /\ st.acc = 0 /\ w = 0 /\ a = 0
    BY <1>8 DEF Carries
  <2>5. Scale(x) \in Nat \ {0} /\ Scale(x) * Weight(x) = Unit
    BY <2>1, ScoresAre
  <2>6. Times(0, 0) = 0
    BY ZeroTimes
  <2>7. Scale(x) * 0 = 0
    BY <2>5
  <2> HIDE DEF up, t, corr, e, m1, l1, acc1
  <2> QED
    BY <1>6, <1>8, <2>1, <2>3, <2>4, <2>5, <2>6, <2>7, 0 \in Nat
<1>9. CASE st.m # NegInf /\ x > st.m
  <2>1. st.m \in 0..MaxScore /\ x \in 0..MaxScore /\ x # NegInf /\ st.m <= x /\ Weight(x) > 0
    BY <1>1, <1>3, <1>9, ScoresAre
  <2>2. t = Exp(st.m, x)
    BY <1>9 DEF Decay
  <2>3. corr = Exp(st.m, x) /\ e = Unit /\ m1 = x
    BY <1>9, <2>2
  <2>4. st.l = Scale(st.m) * w /\ st.acc = Scale(st.m) * a
    BY <1>9 DEF Carries
  <2>5. Times(st.l, corr) = Scale(x) * w /\ Times(st.acc, corr) = Scale(x) * a
    BY <2>1, <2>3, <2>4, TimesRescales
  <2>6. Scale(x) \in Nat \ {0} /\ Scale(x) * Weight(x) = Unit
    BY <2>1, ScoresAre
  <2> HIDE DEF up, t, corr, e, m1, l1, acc1
  <2> QED
    BY <1>6, <2>1, <2>3, <2>5, <2>6, 0 \in Nat
<1>10. CASE st.m # NegInf /\ ~(x > st.m)
  <2>1. st.m \in 0..MaxScore /\ st.m \in Int /\ x \in Int
    BY <1>1, <1>3, <1>10, ScoresAre
  <2>2. Scale(st.m) \in Nat \ {0} /\ st.m \in Scores
    BY <2>1, ScoresAre
  <2>3. t = Scale(st.m) * Weight(x)
    <3>1. CASE x = NegInf
      <4>1. t = 0 /\ Weight(x) = 0
        BY <1>10, <3>1 DEF Decay, Weight
      <4> QED
        BY <2>2, <4>1
    <3>2. CASE x # NegInf
      <4>1. t = Exp(x, st.m)
        BY <1>10, <3>2 DEF Decay
      <4> QED
        BY <2>1, <4>1, ExpWeighs
    <3> QED
      BY <3>1, <3>2
  <2>4. corr = Unit /\ e = t /\ m1 = st.m
    BY <1>10
  <2>5. st.l = Scale(st.m) * w /\ st.acc = Scale(st.m) * a /\ w > 0
    BY <1>10 DEF Carries
  <2>6. Exp(st.m, st.m) = Unit
    BY <2>1, <2>2, ExpWeighs, ScoresAre
  <2>7. Times(st.l, corr) = Scale(st.m) * w /\ Times(st.acc, corr) = Scale(st.m) * a
    <3>1. st.m <= st.m
      BY <2>1
    <3> QED
      BY <2>1, <2>4, <2>5, <2>6, <3>1, TimesRescales
  <2> HIDE DEF up, t, corr, e, m1, l1, acc1
  <2> QED
    BY <1>6, <1>10, <2>2, <2>3, <2>4, <2>5, <2>7, 0 \in Nat
<1> QED
  <2>1. st.m = NegInf \/ st.m # NegInf
    OBVIOUS
  <2> HIDE DEF up, t, corr, e, m1, l1, acc1
  <2> QED
    BY <1>7, <1>8, <1>9, <1>10

\* One position, with the clamped exp: what is tiny shows in sums of 0 alone.
LEMMA ClampedCarries ==
    ASSUME NEW w \in Nat, NEW a \in Nat, NEW st, Carries(st, w, a), NEW x \in Scores, NEW v \in Nat
    PROVE  Carries(UpdateClamped(st, x, v), w + Weight(x), a + Weight(x) * v)
<1>1. PICK s : s = Update(st, x, v)
  OBVIOUS
<1>2. Carries(s, w + Weight(x), a + Weight(x) * v)
  BY <1>1, UpdateCarries
<1>3. s \in Partials
  BY <1>2 DEF Carries
<1>4. s.tl + 1 \in Nat /\ s.tacc + v \in Nat
  BY <1>3 DEF Partials
<1>5. PICK r : r = UpdateClamped(st, x, v)
  OBVIOUS
<1>6. r = IF s.l = 0 THEN [s EXCEPT !.tl = s.tl + 1, !.tacc = s.tacc + v] ELSE [s EXCEPT !.tl = 0, !.tacc = 0]
  BY <1>1, <1>5 DEF UpdateClamped
<1>7. r \in Partials /\ r.m = s.m /\ r.l = s.l /\ r.acc = s.acc
  <2>1. CASE s.l = 0
    <3>1. PICK i \in Nat, j \in Nat : i = s.tl + 1 /\ j = s.tacc + v
      BY <1>4
    <3>2. r = [s EXCEPT !.tl = i, !.tacc = j]
      BY <1>6, <2>1, <3>1
    <3> QED
      BY <1>3, <3>2 DEF Partials
  <2>2. CASE s.l # 0
    <3>1. r = [s EXCEPT !.tl = 0, !.tacc = 0]
      BY <1>6, <2>2
    <3> QED
      BY <1>3, <3>1 DEF Partials
  <2> QED
    BY <2>1, <2>2
<1>8. Carries(r, w + Weight(x), a + Weight(x) * v)
  BY <1>2, <1>7 DEF Carries
<1> QED
  BY <1>5, <1>8

\* A key of the flash attention, which has a maximum from the sink on.
LEMMA AttendCarries ==
    ASSUME NEW w \in Nat, NEW a \in Nat, NEW st, Carries(st, w, a), st.m # NegInf,
           NEW x \in Scores, x # NegInf, NEW v \in Nat
    PROVE  /\ Carries(AttendStep(st, x, v), w + Weight(x), a + Weight(x) * v)
           /\ AttendStep(st, x, v).m # NegInf
<1> DEFINE mnew == IF x > st.m THEN x ELSE st.m
           corr == Exp(st.m, mnew)
           e    == Exp(x, mnew)
           l1   == Times(st.l, corr) + e
           acc1 == Times(st.acc, corr) + e * v
<1>1. st \in Partials /\ st.m \in Scores /\ w > 0 /\ st.l = Scale(st.m) * w /\ st.acc = Scale(st.m) * a
  BY DEF Carries, Partials
<1>2. AttendStep(st, x, v) = [st EXCEPT !.m = mnew, !.l = l1, !.acc = acc1]
  BY Zenon DEF AttendStep
<1>3. st.m \in 0..MaxScore /\ x \in 0..MaxScore /\ NegInf = -1
  BY <1>1, ScoresAre
<1>4. mnew \in 0..MaxScore /\ st.m <= mnew /\ x <= mnew /\ mnew \in Scores /\ mnew # NegInf
  BY <1>1, <1>3
<1> HIDE DEF mnew
<1>5. Times(st.l, corr) = Scale(mnew) * w /\ Times(st.acc, corr) = Scale(mnew) * a
  BY <1>1, <1>3, <1>4, TimesRescales
<1>6. e = Scale(mnew) * Weight(x)
  BY <1>4, ExpWeighs
<1>7. PICK c \in Nat, y \in Nat : c = Scale(mnew) /\ y = Weight(x)
  BY <1>4, ScoresAre
<1>8. l1 = c * (w + y)
  BY <1>5, <1>6, <1>7, Grows
<1>9. acc1 = c * (a + y * v)
  <2>1. (c * y) * v = c * (y * v) /\ y * v \in Nat
    BY Regroup
  <2>2. c * a + c * (y * v) = c * (a + y * v)
    BY <2>1, Grows
  <2> QED
    BY <1>5, <1>6, <1>7, <2>1, <2>2
<1>10. l1 \in Nat /\ acc1 \in Nat /\ w + y > 0
  <2>1. y * v \in Nat
    BY Regroup, 0 \in Nat
  <2>2. w + y \in Nat /\ a + y * v \in Nat
    BY <2>1
  <2>3. c * (w + y) \in Nat /\ c * (a + y * v) \in Nat
    BY <2>2, ZeroOr
  <2> HIDE DEF l1, acc1
  <2> QED
    BY <1>1, <1>8, <1>9, <2>3
<1> HIDE DEF l1, acc1, corr, e
<1>11. PICK r : r = AttendStep(st, x, v)
  OBVIOUS
<1>12. r = [st EXCEPT !.m = mnew, !.l = l1, !.acc = acc1]
  BY <1>2, <1>11
<1>13. r \in Partials /\ r.m = mnew /\ r.l = l1 /\ r.acc = acc1
  BY <1>1, <1>4, <1>10, <1>12 DEF Partials
<1>14. Carries(r, w + Weight(x), a + Weight(x) * v)
  BY <1>4, <1>7, <1>8, <1>9, <1>10, <1>13 DEF Carries
<1> QED
  BY <1>4, <1>11, <1>13, <1>14

\* The sums of a row's first keys.
WeightTo(xs, k) == PartSum(Weights(xs), k)

ValueTo(xs, vs, k) == PartSum(Weighing(xs, vs), k)

\* The weights of the first keys grow by those of the next.
LEMMA RowGrows ==
    ASSUME NEW n, NEW xs, NEW vs, Row(n, xs, vs)
    PROVE  /\ WeightTo(xs, 0) = 0 /\ ValueTo(xs, vs, 0) = 0
           /\ \A k \in 1..n : WeightTo(xs, k) = WeightTo(xs, k - 1) + Weight(xs[k])
           /\ \A k \in 1..n : ValueTo(xs, vs, k) = ValueTo(xs, vs, k - 1) + Weight(xs[k]) * vs[k]
           /\ \A k \in 0..n : WeightTo(xs, k) \in Nat
           /\ \A k \in 0..n : ValueTo(xs, vs, k) \in Nat
           /\ WeightTo(xs, n) = SumOf(Weights(xs)) /\ ValueTo(xs, vs, n) = SumOf(Weighing(xs, vs))
<1>1. /\ n \in Nat /\ Weights(xs) \in [1..n -> Nat] /\ Weighing(xs, vs) \in [1..n -> Nat]
      /\ \A k \in 1..n : /\ Weights(xs)[k] = Weight(xs[k])
                         /\ Weighing(xs, vs)[k] = Weight(xs[k]) * vs[k]
  BY RowWeighs
<1>2. /\ PartSum(Weights(xs), 0) = 0
      /\ \A k \in 1..n : PartSum(Weights(xs), k) = PartSum(Weights(xs), k - 1) + Weights(xs)[k]
      /\ \A k \in 0..n : PartSum(Weights(xs), k) \in Nat
      /\ SumOf(Weights(xs)) = PartSum(Weights(xs), n)
  BY <1>1, PartSums
<1>3. /\ PartSum(Weighing(xs, vs), 0) = 0
      /\ \A k \in 1..n : PartSum(Weighing(xs, vs), k) = PartSum(Weighing(xs, vs), k - 1) + Weighing(xs, vs)[k]
      /\ \A k \in 0..n : PartSum(Weighing(xs, vs), k) \in Nat
      /\ SumOf(Weighing(xs, vs)) = PartSum(Weighing(xs, vs), n)
  BY <1>1, PartSums
<1> QED
  BY <1>1, <1>2, <1>3 DEF WeightTo, ValueTo

\* A walk whose steps each add their key's weight to the sums.
LEMMA RowCarries ==
    ASSUME NEW n, NEW xs, NEW vs, Row(n, xs, vs), NEW W, NEW w \in Nat, NEW a \in Nat, NEW G,
           Carries(W[0], w, a), W[0] \in G,
           \A k \in 1..n : \A p \in Nat, q \in Nat :
              Carries(W[k - 1], p, q) /\ W[k - 1] \in G =>
                 Carries(W[k], p + Weight(xs[k]), q + Weight(xs[k]) * vs[k]) /\ W[k] \in G
    PROVE  Carries(W[n], w + SumOf(Weights(xs)), a + SumOf(Weighing(xs, vs))) /\ W[n] \in G
<1>1. /\ WeightTo(xs, 0) = 0 /\ ValueTo(xs, vs, 0) = 0
      /\ \A k \in 1..n : WeightTo(xs, k) = WeightTo(xs, k - 1) + Weight(xs[k])
      /\ \A k \in 1..n : ValueTo(xs, vs, k) = ValueTo(xs, vs, k - 1) + Weight(xs[k]) * vs[k]
      /\ \A k \in 0..n : WeightTo(xs, k) \in Nat
      /\ \A k \in 0..n : ValueTo(xs, vs, k) \in Nat
      /\ WeightTo(xs, n) = SumOf(Weights(xs)) /\ ValueTo(xs, vs, n) = SumOf(Weighing(xs, vs))
  BY RowGrows
<1>2. n \in Nat /\ \A k \in 1..n : Weight(xs[k]) \in Nat /\ Weight(xs[k]) * vs[k] \in Nat
  <2>1. /\ n \in Nat /\ Weights(xs) \in [1..n -> Nat] /\ Weighing(xs, vs) \in [1..n -> Nat]
        /\ \A k \in 1..n : /\ Weights(xs)[k] = Weight(xs[k])
                           /\ Weighing(xs, vs)[k] = Weight(xs[k]) * vs[k]
    BY RowWeighs
  <2> QED
    BY <2>1
<1> DEFINE T == {k \in 0..n : Carries(W[k], w + WeightTo(xs, k), a + ValueTo(xs, vs, k)) /\ W[k] \in G}
<1>3. 0 \in T
  <2>1. w + WeightTo(xs, 0) = w /\ a + ValueTo(xs, vs, 0) = a
    BY <1>1
  <2> QED
    BY <1>2, <2>1
<1>4. ASSUME NEW k \in 1..n, k - 1 \in T PROVE k \in T
  <2>1. k \in 0..n /\ k - 1 \in 0..n
    BY <1>2
  <2>2. PICK p \in Nat, q \in Nat : p = w + WeightTo(xs, k - 1) /\ q = a + ValueTo(xs, vs, k - 1)
    BY <1>1, <2>1
  <2>3. Carries(W[k], p + Weight(xs[k]), q + Weight(xs[k]) * vs[k]) /\ W[k] \in G
    BY <1>4, <2>2
  <2>4. p + Weight(xs[k]) = w + WeightTo(xs, k)
    BY <1>1, <1>2, <2>1, <2>2
  <2>5. q + Weight(xs[k]) * vs[k] = a + ValueTo(xs, vs, k)
    BY <1>1, <1>2, <2>1, <2>2
  <2> QED
    BY <2>1, <2>3, <2>4, <2>5
<1> HIDE DEF T
<1>5. \A k \in 0..n : k \in T
  BY <1>2, <1>3, <1>4, Climb
<1>6. n \in T
  BY <1>2, <1>5
<1> QED
  BY <1>1, <1>6 DEF T

\* The folds, and the walks they end.
LEMMA StreamingCarries ==
    ASSUME NEW n, NEW xs, NEW vs, Row(n, xs, vs)
    PROVE  /\ Carries(Streaming(Empty, xs, vs), SumOf(Weights(xs)), SumOf(Weighing(xs, vs)))
           /\ Streaming(Empty, xs, vs).tl = 0
<1> DEFINE p == [kind |-> "update", xs |-> xs, vs |-> vs]
           q == [i \in DOMAIN xs |-> i]
           G == {s \in Partials : s.tl = 0}
<1>1. n \in Nat /\ DOMAIN xs = 1..n /\ \A k \in 1..n : xs[k] \in Scores /\ vs[k] \in Nat
  BY DEF Row
<1>2. PICK W : Walk(W, p, Empty, q, n) /\ W[n] = Streaming(Empty, xs, vs)
  BY <1>1, StreamingWalk
<1>3. \A a, x : Do(p, a, x) = Update(a, xs[x], vs[x])
  BY DEF Do
<1>4. \A k \in 1..n : q[k] = k
  BY <1>1
<1>5. W[0] = Empty /\ \A k \in 1..n : W[k] = Update(W[k - 1], xs[k], vs[k])
  <2> HIDE DEF p, q
  <2> QED
    BY <1>2, <1>3, <1>4 DEF Walk
<1>6. Carries(W[0], 0, 0) /\ W[0] \in G
  <2>1. Empty.tl = 0
    BY DEF Empty
  <2> QED
    BY <1>5, <2>1, EmptyCarries
<1>7. ASSUME NEW k \in 1..n, NEW w \in Nat, NEW a \in Nat, Carries(W[k - 1], w, a), W[k - 1] \in G
      PROVE  Carries(W[k], w + Weight(xs[k]), a + Weight(xs[k]) * vs[k]) /\ W[k] \in G
  <2>2. PICK s : s = W[k - 1]
    OBVIOUS
  <2>3. /\ Carries(Update(s, xs[k], vs[k]), w + Weight(xs[k]), a + Weight(xs[k]) * vs[k])
        /\ Update(s, xs[k], vs[k]).tl = s.tl
    BY <1>1, <1>7, <2>2, UpdateCarries
  <2>1. /\ Carries(W[k], w + Weight(xs[k]), a + Weight(xs[k]) * vs[k])
        /\ W[k].tl = W[k - 1].tl
    BY <1>5, <2>2, <2>3
  <2> QED
    BY <1>7, <2>1 DEF Carries
<1> HIDE DEF G, p, q
<1>8. Carries(W[n], 0 + SumOf(Weights(xs)), 0 + SumOf(Weighing(xs, vs))) /\ W[n] \in G
  BY <1>6, <1>7, RowCarries, 0 \in Nat
<1>9. 0 + SumOf(Weights(xs)) = SumOf(Weights(xs)) /\ 0 + SumOf(Weighing(xs, vs)) = SumOf(Weighing(xs, vs))
  BY RowWeighs
<1> QED
  BY <1>2, <1>8, <1>9 DEF G

\* The pool with the clamped exp carries its window.
LEMMA StreamingClampedCarries ==
    ASSUME NEW n, NEW xs, NEW vs, Row(n, xs, vs)
    PROVE  Carries(StreamingClamped(Empty, xs, vs), SumOf(Weights(xs)), SumOf(Weighing(xs, vs)))
<1> DEFINE p == [kind |-> "clamped", xs |-> xs, vs |-> vs]
           q == [i \in DOMAIN xs |-> i]
<1>1. n \in Nat /\ DOMAIN xs = 1..n /\ \A k \in 1..n : xs[k] \in Scores /\ vs[k] \in Nat
  BY DEF Row
<1>2. PICK W : Walk(W, p, Empty, q, n) /\ W[n] = StreamingClamped(Empty, xs, vs)
  BY <1>1, ClampedWalk
<1>3. \A a, x : Do(p, a, x) = UpdateClamped(a, xs[x], vs[x])
  BY DEF Do
<1>4. \A k \in 1..n : q[k] = k
  BY <1>1
<1>5. W[0] = Empty /\ \A k \in 1..n : W[k] = UpdateClamped(W[k - 1], xs[k], vs[k])
  <2> HIDE DEF p, q
  <2> QED
    BY <1>2, <1>3, <1>4 DEF Walk
<1>6. Carries(W[0], 0, 0) /\ W[0] \in Partials
  BY <1>5, EmptyCarries
<1>7. ASSUME NEW k \in 1..n, NEW w \in Nat, NEW a \in Nat, Carries(W[k - 1], w, a), W[k - 1] \in Partials
      PROVE  Carries(W[k], w + Weight(xs[k]), a + Weight(xs[k]) * vs[k]) /\ W[k] \in Partials
  <2>1. Carries(W[k], w + Weight(xs[k]), a + Weight(xs[k]) * vs[k])
    BY <1>1, <1>5, <1>7, ClampedCarries
  <2> QED
    BY <2>1 DEF Carries
<1> HIDE DEF p, q
<1>8. Carries(W[n], 0 + SumOf(Weights(xs)), 0 + SumOf(Weighing(xs, vs)))
  BY <1>6, <1>7, RowCarries, 0 \in Nat
<1>9. 0 + SumOf(Weights(xs)) = SumOf(Weights(xs)) /\ 0 + SumOf(Weighing(xs, vs)) = SumOf(Weighing(xs, vs))
  BY RowWeighs
<1> QED
  BY <1>2, <1>8, <1>9

\* A key's part of sums against a maximum that is known beforehand.
Added(t, m, x, v) == [t EXCEPT !.l = @ + Exp(x, m), !.acc = @ + Exp(x, m) * v]

\* Sums against a maximum that is known beforehand grow by a row's weights.
LEMMA AddCarries ==
    ASSUME NEW n, NEW xs, NEW vs, Row(n, xs, vs), NEW m \in 0..MaxScore,
           NEW s, s \in Partials, s.m = m, NEW w \in Nat, NEW a \in Nat,
           s.l = Scale(m) * w, s.acc = Scale(m) * a, NEW W, W[0] = s,
           \A k \in 1..n : W[k] = Added(W[k - 1], m, xs[k], vs[k])
    PROVE  /\ W[n] \in Partials /\ W[n].m = m /\ W[n].tl = s.tl
           /\ W[n].l = Scale(m) * (w + SumOf(Weights(xs)))
           /\ W[n].acc = Scale(m) * (a + SumOf(Weighing(xs, vs)))
<1>1. /\ WeightTo(xs, 0) = 0 /\ ValueTo(xs, vs, 0) = 0
      /\ \A k \in 1..n : WeightTo(xs, k) = WeightTo(xs, k - 1) + Weight(xs[k])
      /\ \A k \in 1..n : ValueTo(xs, vs, k) = ValueTo(xs, vs, k - 1) + Weight(xs[k]) * vs[k]
      /\ \A k \in 0..n : WeightTo(xs, k) \in Nat
      /\ \A k \in 0..n : ValueTo(xs, vs, k) \in Nat
      /\ WeightTo(xs, n) = SumOf(Weights(xs)) /\ ValueTo(xs, vs, n) = SumOf(Weighing(xs, vs))
  BY RowGrows
<1>2. n \in Nat /\ \A k \in 1..n : xs[k] \in Scores /\ vs[k] \in Nat /\ Weight(xs[k]) \in Nat
  BY ScoresAre DEF Row
<1>3. PICK c \in Nat : c = Scale(m)
  BY ScoresAre
<1> DEFINE T == {k \in 0..n : /\ W[k] \in Partials /\ W[k].m = m /\ W[k].tl = s.tl
                              /\ W[k].l = c * (w + WeightTo(xs, k))
                              /\ W[k].acc = c * (a + ValueTo(xs, vs, k))}
<1>4. 0 \in T
  <2>1. w + WeightTo(xs, 0) = w /\ a + ValueTo(xs, vs, 0) = a
    BY <1>1
  <2> QED
    BY <1>2, <1>3, <2>1
<1>5. ASSUME NEW k \in 1..n, k - 1 \in T PROVE k \in T
  <2>1. k \in 0..n /\ k - 1 \in 0..n
    BY <1>2
  <2>2. PICK x \in Nat, v \in Nat, y \in Nat, z \in Nat :
           x = Weight(xs[k]) /\ v = vs[k] /\ y = w + WeightTo(xs, k - 1) /\ z = a + ValueTo(xs, vs, k - 1)
    BY <1>1, <1>2, <2>1
  <2>3. Exp(xs[k], m) = c * x
    BY <1>2, <1>3, <2>2, ExpWeighs
  <2>4. PICK t : t = W[k - 1]
    OBVIOUS
  <2>5. t \in Partials /\ t.m = m /\ t.tl = s.tl /\ t.l = c * y /\ t.acc = c * z
    BY <1>5, <2>2, <2>4
  <2>6. c * y + c * x = c * (y + x)
    BY Grows
  <2>7. (c * x) * v = c * (x * v) /\ x * v \in Nat
    BY Regroup
  <2>8. c * z + c * (x * v) = c * (z + x * v)
    BY <2>7, Grows
  <2>9. PICK i \in Nat, j \in Nat : i = c * (y + x) /\ j = c * (z + x * v)
    <3>1. y + x \in Nat /\ z + x * v \in Nat
      BY <2>7
    <3>2. c * (y + x) \in Nat /\ c * (z + x * v) \in Nat
      BY <3>1, ZeroOr
    <3> QED
      BY <3>2
  <2>10. t.l + Exp(xs[k], m) = i /\ t.acc + Exp(xs[k], m) * vs[k] = j
    BY <2>2, <2>3, <2>5, <2>6, <2>7, <2>8, <2>9
  <2>11. W[k] = [t EXCEPT !.l = i, !.acc = j]
    BY <2>4, <2>10 DEF Added
  <2>12. PICK r : r = W[k]
    OBVIOUS
  <2>13. r \in Partials /\ r.m = t.m /\ r.tl = t.tl /\ r.l = i /\ r.acc = j
    BY <2>5, <2>11, <2>12 DEF Partials
  <2>14. y + x = w + WeightTo(xs, k) /\ z + x * v = a + ValueTo(xs, vs, k)
    BY <1>1, <2>1, <2>2, <2>7
  <2> QED
    BY <2>1, <2>5, <2>9, <2>12, <2>13, <2>14
<1> HIDE DEF T
<1>6. \A k \in 0..n : k \in T
  BY <1>2, <1>4, <1>5, Climb
<1>7. n \in T
  BY <1>2, <1>6
<1> QED
  BY <1>1, <1>3, <1>7 DEF T

\* The same in two passes, where a masked key has no exponential.
AddedTwice(t, m, x, v) ==
    LET e == IF x = NegInf THEN 0 ELSE Exp(x, m)
    IN  [t EXCEPT !.l = @ + e, !.acc = @ + e * v]

\* The maximum of a row that is not masked is a score.
LEMMA TwoPassMaxIs ==
    ASSUME NEW n \in Nat, NEW xs \in [1..n -> Scores]
    PROVE  /\ TwoPassMax(xs) \in Scores
           /\ TwoPassMax(xs) = NegInf => \A k \in 1..n : xs[k] = NegInf
           /\ TwoPassMax(xs) # NegInf => /\ TwoPassMax(xs) \in 0..MaxScore
                                         /\ \E k \in 1..n : xs[k] # NegInf
<1>1. NegInf \in Scores
  BY ScoresAre
<1>2. PICK m : m = Highest(NegInf, xs)
  OBVIOUS
<1>3. m \in Scores /\ (\A k \in 1..n : xs[k] <= m) /\ (m = NegInf \/ \E k \in 1..n : m = xs[k])
  BY <1>1, <1>2, HighestIs
<1>4. \A k \in 1..n : xs[k] \in Scores
  OBVIOUS
<1>5. TwoPassMax(xs) = m
  BY <1>2 DEF TwoPassMax
<1>6. ASSUME m = NegInf, NEW k \in 1..n PROVE xs[k] = NegInf
  BY <1>3, <1>4, <1>6, ScoresAre
<1>7. m # NegInf => m \in 0..MaxScore
  BY <1>3, ScoresAre
<1> QED
  BY <1>3, <1>5, <1>6, <1>7

\* The pool in two passes carries its window.
LEMMA TwoPassCarries ==
    ASSUME NEW n, NEW xs, NEW vs, Row(n, xs, vs)
    PROVE  /\ Carries(TwoPass(Empty, xs, vs), SumOf(Weights(xs)), SumOf(Weighing(xs, vs)))
           /\ TwoPass(Empty, xs, vs).tl = 0
<1> DEFINE m == TwoPassMax(xs)
           s == [Empty EXCEPT !.m = m]
           p == [kind |-> "twopass", xs |-> xs, vs |-> vs, m |-> m]
           q == [i \in DOMAIN xs |-> i]
<1>1. n \in Nat /\ DOMAIN xs = 1..n /\ \A k \in 1..n : xs[k] \in Scores /\ vs[k] \in Nat
  BY DEF Row
<1>2. /\ m \in Scores /\ (m = NegInf => \A k \in 1..n : xs[k] = NegInf)
      /\ (m # NegInf => m \in 0..MaxScore /\ \E k \in 1..n : xs[k] # NegInf)
  BY TwoPassMaxIs DEF Row
<1>3. PICK W : Walk(W, p, s, q, n) /\ W[n] = TwoPass(Empty, xs, vs)
  <2>1. TwoPass(Empty, xs, vs) = TwoPassAdds(s, m, xs, vs)
    BY Zenon DEF TwoPass, TwoPassAdds
  <2>2. \E W : Walk(W, p, s, q, n) /\ W[n] = TwoPassAdds(s, m, xs, vs)
    <3> HIDE DEF m, s
    <3> QED
      BY <1>1, TwoPassWalk
  <2> HIDE DEF p, q, s, m
  <2> QED
    BY <2>1, <2>2
<1>4. \A a, x : Do(p, a, x) = AddedTwice(a, m, xs[x], vs[x])
  BY DEF Do, AddedTwice
<1>5. \A k \in 1..n : q[k] = k
  BY <1>1
<1>6. W[0] = s /\ \A k \in 1..n : W[k] = AddedTwice(W[k - 1], m, xs[k], vs[k])
  <2> HIDE DEF p, q, s, m
  <2> QED
    BY <1>3, <1>4, <1>5 DEF Walk
<1>7. s \in Partials /\ s.m = m /\ s.l = 0 /\ s.acc = 0 /\ s.tl = 0
  BY <1>2, EmptyCarries DEF Empty, Partials
<1> HIDE DEF m, s, p, q
<1>8. SumOf(Weights(xs)) \in Nat /\ SumOf(Weighing(xs, vs)) \in Nat
  BY RowWeighs
<1>9. CASE m = NegInf
  <2> DEFINE T == {k \in 0..n : /\ W[k] \in Partials /\ W[k].m = m /\ W[k].l = 0 /\ W[k].acc = 0
                                /\ W[k].tl = 0}
  <2>2. 0 \in T
    BY <1>1, <1>6, <1>7
  <2>3. ASSUME NEW k \in 1..n, k - 1 \in T PROVE k \in T
    <3>1. PICK t : t = W[k - 1]
      OBVIOUS
    <3>2. t \in Partials /\ t.m = m /\ t.l = 0 /\ t.acc = 0 /\ t.tl = 0
      BY <2>3, <3>1
    <3>3. 0 * vs[k] = 0 /\ k \in 0..n
      BY <1>1
    <3>4. t.l + 0 = 0 /\ t.acc + 0 * vs[k] = 0
      BY <3>2, <3>3
    <3>5. PICK r : r = W[k]
      OBVIOUS
    <3>6. r = [t EXCEPT !.l = 0, !.acc = 0]
      BY <1>2, <1>6, <1>9, <3>1, <3>4, <3>5 DEF AddedTwice
    <3>7. r \in Partials /\ r.m = t.m /\ r.l = 0 /\ r.acc = 0 /\ r.tl = t.tl
      BY <3>2, <3>6 DEF Partials
    <3> QED
      BY <3>2, <3>3, <3>5, <3>7
  <2> HIDE DEF T
  <2>4. \A k \in 0..n : k \in T
    BY <1>1, <2>2, <2>3, Climb
  <2>5. n \in T
    BY <1>1, <2>4
  <2>6. W[n] \in Partials /\ W[n].m = NegInf /\ W[n].l = 0 /\ W[n].acc = 0 /\ W[n].tl = 0
    BY <1>9, <2>5 DEF T
  <2>7. SumOf(Weights(xs)) = 0
    BY <1>2, <1>9, RowWeighs
  <2>8. SumOf(Weighing(xs, vs)) = 0
    <3>1. /\ Weighing(xs, vs) \in [1..n -> Nat]
          /\ \A k \in 1..n : Weighing(xs, vs)[k] = Weight(xs[k]) * vs[k]
      BY RowWeighs
    <3>2. \A k \in 1..n : Weighing(xs, vs)[k] = 0
      <4>1. \A k \in 1..n : Weight(xs[k]) = 0 /\ 0 * vs[k] = 0
        BY <1>1, <1>2, <1>9 DEF Weight
      <4> QED
        BY <3>1, <4>1
    <3> QED
      BY <1>1, <3>1, <3>2, TotalHolds
  <2> QED
    BY <1>3, <2>6, <2>7, <2>8 DEF Carries
<1>10. CASE m # NegInf
  <2>1. m \in 0..MaxScore
    BY <1>2, <1>10
  <2>2. \A k \in 1..n : W[k] = Added(W[k - 1], m, xs[k], vs[k])
    <3>1. ASSUME NEW k \in 1..n, xs[k] = NegInf PROVE Exp(xs[k], m) = 0
      BY <2>1, <3>1, ScoresAre DEF Exp
    <3> QED
      BY <1>6, <3>1 DEF Added, AddedTwice
  <2>3. s.l = Scale(m) * 0 /\ s.acc = Scale(m) * 0
    <3>1. Scale(m) \in Nat
      BY <2>1, ScoresAre
    <3> QED
      BY <1>7, <3>1
  <2>4. /\ W[n] \in Partials /\ W[n].m = m /\ W[n].tl = s.tl
        /\ W[n].l = Scale(m) * (0 + SumOf(Weights(xs)))
        /\ W[n].acc = Scale(m) * (0 + SumOf(Weighing(xs, vs)))
    BY <1>6, <1>7, <2>1, <2>2, <2>3, AddCarries, 0 \in Nat
  <2>5. 0 + SumOf(Weights(xs)) = SumOf(Weights(xs)) /\ 0 + SumOf(Weighing(xs, vs)) = SumOf(Weighing(xs, vs))
    BY <1>8
  <2>6. SumOf(Weights(xs)) > 0
    BY <1>2, <1>10, RowWeighs
  <2> QED
    BY <1>3, <1>7, <1>10, <2>4, <2>5, <2>6 DEF Carries
<1> QED
  BY <1>9, <1>10

-----------------------------------------------------------------------------
(* Sparse attention, form by form. *)

\* p is a fraction of the values' and the sink's weights, at any scale.
LEMMA AttentionIs ==
    ASSUME NEW n, NEW xs, NEW vs, Row(n, xs, vs), NEW s0 \in Scores, NEW c \in Nat \ {0}
    PROVE  /\ SumOf(Weights(xs)) + Weight(s0) > 0 =>
                IsAttention(<<c * SumOf(Weighing(xs, vs)), c * (SumOf(Weights(xs)) + Weight(s0))>>, s0, xs, vs)
           /\ SumOf(Weights(xs)) + Weight(s0) = 0 => IsAttention(<<0, 1>>, s0, xs, vs)
<1>1. /\ WeightedSum(xs, vs) = SumOf(Weighing(xs, vs))
      /\ WeightedSum(xs, Ones(xs)) = SumOf(Weights(xs))
      /\ SumOf(Weights(xs)) \in Nat /\ SumOf(Weighing(xs, vs)) \in Nat
  BY RowWeighs
<1>2. (IF s0 = NegInf THEN 0 ELSE 2^s0) = Weight(s0) /\ Weight(s0) \in Nat
  <2>1. Weight(s0) \in Nat
    BY ScoresAre
  <2>2. ASSUME s0 # NegInf PROVE 2^s0 = Pow[s0]
    <3>1. s0 \in Nat
      BY <2>2, ScoresAre
    <3> QED
      BY <3>1, PowIs
  <2> QED
    BY <2>1, <2>2 DEF Weight
<1>3. PICK w \in Nat, a \in Nat, l \in Nat :
         w = SumOf(Weights(xs)) /\ a = SumOf(Weighing(xs, vs)) /\ l = w + Weight(s0)
  BY <1>1, <1>2
<1>4. WeightedSum(xs, Ones(xs)) + (IF s0 = NegInf THEN 0 ELSE 2^s0) = l
  BY <1>1, <1>2, <1>3
<1>5. ASSUME NEW p
      PROVE  IsAttention(p, s0, xs, vs) <=> SameValue(p, IF l = 0 THEN <<0, 1>> ELSE <<a, l>>)
  BY <1>1, <1>3, <1>4 DEF IsAttention
<1>6. ASSUME l > 0 PROVE SameValue(<<c * a, c * l>>, <<a, l>>)
  <2>1. (c * a) * l = a * (c * l) /\ c * l > 0
    BY <1>6, ZeroOr
  <2>2. (c * a) * l = (c * l) * a
    BY <2>1
  <2> QED
    BY <1>6, <2>1, <2>2 DEF SameValue
<1>7. SameValue(<<0, 1>>, <<0, 1>>)
  BY DEF SameValue
<1> QED
  BY <1>3, <1>5, <1>6, <1>7

\* Sums that carry a row and the sink are its attention.
LEMMA CarriedAttention ==
    ASSUME NEW n, NEW xs, NEW vs, Row(n, xs, vs), NEW s0 \in Scores, NEW st, st.m # NegInf,
           Carries(st, Weight(s0) + SumOf(Weights(xs)), 0 + SumOf(Weighing(xs, vs)))
    PROVE  IsAttention(<<st.acc, st.l>>, s0, xs, vs)
<1>1. SumOf(Weights(xs)) \in Nat /\ SumOf(Weighing(xs, vs)) \in Nat /\ Weight(s0) \in Nat
  BY RowWeighs, ScoresAre
<1>2. st.m \in 0..MaxScore
  BY ScoresAre DEF Carries, Partials
<1>3. Weight(s0) + SumOf(Weights(xs)) = SumOf(Weights(xs)) + Weight(s0)
      /\ 0 + SumOf(Weighing(xs, vs)) = SumOf(Weighing(xs, vs))
  BY <1>1
<1>4. /\ SumOf(Weights(xs)) + Weight(s0) > 0
      /\ st.l = Scale(st.m) * (SumOf(Weights(xs)) + Weight(s0)) /\ st.acc = Scale(st.m) * SumOf(Weighing(xs, vs))
  BY <1>3 DEF Carries
<1>5. Scale(st.m) \in Nat \ {0}
  BY <1>2, ScoresAre
<1> QED
  BY <1>4, <1>5, AttentionIs

\* The sums of the flash attention begin with the sink.
LEMMA SinkCarries ==
    ASSUME NEW s0 \in 0..MaxScore
    PROVE  Carries(FromSink(s0), Weight(s0), 0) /\ FromSink(s0).m # NegInf
<1>1. /\ s0 \in Scores /\ s0 # NegInf /\ Weight(s0) \in Nat /\ Weight(s0) > 0
      /\ Scale(s0) \in Nat \ {0} /\ Scale(s0) * Weight(s0) = Unit /\ Unit \in Nat
  BY ScoresAre
<1>2. PICK u \in Nat : u = Unit
  BY <1>1
<1>3. PICK e : e = Empty
  OBVIOUS
<1>4. e \in Partials /\ e.acc = 0
  BY <1>3, EmptyCarries DEF Empty
<1>5. PICK r : r = [e EXCEPT !.m = s0, !.l = u]
  OBVIOUS
<1>6. FromSink(s0) = r
  BY <1>2, <1>3, <1>5 DEF FromSink
<1>7. r \in Partials /\ r.m = s0 /\ r.l = u /\ r.acc = e.acc
  BY <1>1, <1>4, <1>5 DEF Partials
<1>8. Scale(s0) * 0 = 0
  BY <1>1
<1> QED
  BY <1>1, <1>2, <1>4, <1>6, <1>7, <1>8 DEF Carries

\* Flash attention over keys of which none is masked.
LEMMA AttendIs ==
    ASSUME NEW n, NEW xs, NEW vs, Row(n, xs, vs), NEW s0 \in 0..MaxScore,
           \A k \in 1..n : xs[k] # NegInf
    PROVE  IsAttention(Attend(s0, xs, vs), s0, xs, vs)
<1> DEFINE p == [kind |-> "attend", xs |-> xs, vs |-> vs]
           q == [i \in DOMAIN xs |-> i]
           s == FromSink(s0)
           G == {t \in Partials : t.m # NegInf}
<1>1. n \in Nat /\ DOMAIN xs = 1..n /\ \A k \in 1..n : xs[k] \in Scores /\ vs[k] \in Nat
  BY DEF Row
<1>2. PICK W : Walk(W, p, s, q, n) /\ W[n] = AttendSteps(s, xs, vs)
  BY <1>1, AttendWalk
<1>3. \A a, x : Do(p, a, x) = AttendStep(a, xs[x], vs[x])
  BY DEF Do
<1>4. \A k \in 1..n : q[k] = k
  BY <1>1
<1>5. W[0] = s /\ \A k \in 1..n : W[k] = AttendStep(W[k - 1], xs[k], vs[k])
  <2> HIDE DEF p, q, s
  <2> QED
    BY <1>2, <1>3, <1>4 DEF Walk
<1>6. Carries(W[0], Weight(s0), 0) /\ W[0] \in G /\ Weight(s0) \in Nat /\ s0 \in Scores
  BY <1>5, SinkCarries, ScoresAre DEF Carries
<1>7. ASSUME NEW k \in 1..n, NEW w \in Nat, NEW a \in Nat, Carries(W[k - 1], w, a), W[k - 1] \in G
      PROVE  Carries(W[k], w + Weight(xs[k]), a + Weight(xs[k]) * vs[k]) /\ W[k] \in G
  <2>1. PICK t : t = W[k - 1]
    OBVIOUS
  <2>2. /\ Carries(AttendStep(t, xs[k], vs[k]), w + Weight(xs[k]), a + Weight(xs[k]) * vs[k])
        /\ AttendStep(t, xs[k], vs[k]).m # NegInf
    BY <1>1, <1>7, <2>1, AttendCarries
  <2> QED
    BY <1>5, <2>1, <2>2 DEF Carries
<1> HIDE DEF G, p, q, s
<1>8. /\ Carries(W[n], Weight(s0) + SumOf(Weights(xs)), 0 + SumOf(Weighing(xs, vs)))
      /\ W[n] \in G
  BY <1>6, <1>7, RowCarries, 0 \in Nat
<1>9. Attend(s0, xs, vs) = <<W[n].acc, W[n].l>>
  <2>1. Attend(s0, xs, vs) = <<AttendSteps(s, xs, vs).acc, AttendSteps(s, xs, vs).l>>
    BY Zenon DEF Attend, AttendSteps, s
  <2> QED
    BY <1>2, <2>1
<1>10. W[n].m # NegInf
  BY <1>8 DEF G
<1> QED
  BY <1>6, <1>8, <1>9, <1>10, CarriedAttention

\* Flash attention that skips the masked keys.
LEMMA AttendMaskedIs ==
    ASSUME NEW n, NEW xs, NEW vs, Row(n, xs, vs), NEW s0 \in 0..MaxScore, NEW keep,
           \A k \in 1..n : k \in keep <=> xs[k] # NegInf
    PROVE  IsAttention(AttendMasked(s0, xs, vs, keep), s0, xs, vs)
<1> DEFINE p == [kind |-> "masked", xs |-> xs, vs |-> vs, keep |-> keep]
           q == [i \in DOMAIN xs |-> i]
           s == FromSink(s0)
           G == {t \in Partials : t.m # NegInf}
<1>1. n \in Nat /\ DOMAIN xs = 1..n /\ \A k \in 1..n : xs[k] \in Scores /\ vs[k] \in Nat
  BY DEF Row
<1>2. PICK W : Walk(W, p, s, q, n) /\ W[n] = MaskedSteps(s, xs, vs, keep)
  BY <1>1, MaskedWalk
<1>3. \A a, x : Do(p, a, x) = IF x \in keep THEN AttendStep(a, xs[x], vs[x]) ELSE a
  BY DEF Do
<1>4. \A k \in 1..n : q[k] = k
  BY <1>1
<1>5. /\ W[0] = s
      /\ \A k \in 1..n : W[k] = IF k \in keep THEN AttendStep(W[k - 1], xs[k], vs[k]) ELSE W[k - 1]
  <2> HIDE DEF p, q, s
  <2> QED
    BY <1>2, <1>3, <1>4 DEF Walk
<1>6. Carries(W[0], Weight(s0), 0) /\ W[0] \in G /\ Weight(s0) \in Nat /\ s0 \in Scores
  BY <1>5, SinkCarries, ScoresAre DEF Carries
<1>7. ASSUME NEW k \in 1..n, NEW w \in Nat, NEW a \in Nat, Carries(W[k - 1], w, a), W[k - 1] \in G
      PROVE  Carries(W[k], w + Weight(xs[k]), a + Weight(xs[k]) * vs[k]) /\ W[k] \in G
  <2>1. PICK t : t = W[k - 1]
    OBVIOUS
  <2>2. CASE xs[k] # NegInf
    <3>1. /\ Carries(AttendStep(t, xs[k], vs[k]), w + Weight(xs[k]), a + Weight(xs[k]) * vs[k])
          /\ AttendStep(t, xs[k], vs[k]).m # NegInf
      BY <1>1, <1>7, <2>1, <2>2, AttendCarries
    <3> QED
      BY <1>5, <2>1, <2>2, <3>1 DEF Carries
  <2>3. CASE xs[k] = NegInf
    <3>1. Weight(xs[k]) = 0 /\ 0 * vs[k] = 0 /\ w + 0 = w /\ a + 0 = a
      BY <1>1, <2>3 DEF Weight
    <3>2. W[k] = W[k - 1]
      BY <1>5, <2>3
    <3> QED
      BY <1>7, <3>1, <3>2
  <2> QED
    BY <2>2, <2>3
<1> HIDE DEF G, p, q, s
<1>8. /\ Carries(W[n], Weight(s0) + SumOf(Weights(xs)), 0 + SumOf(Weighing(xs, vs)))
      /\ W[n] \in G
  BY <1>6, <1>7, RowCarries, 0 \in Nat
<1>9. AttendMasked(s0, xs, vs, keep) = <<W[n].acc, W[n].l>>
  <2>1. AttendMasked(s0, xs, vs, keep) = <<MaskedSteps(s, xs, vs, keep).acc, MaskedSteps(s, xs, vs, keep).l>>
    BY Zenon DEF AttendMasked, MaskedSteps, s
  <2> QED
    BY <1>2, <2>1
<1>10. W[n].m # NegInf
  BY <1>8 DEF G
<1> QED
  BY <1>6, <1>8, <1>9, <1>10, CarriedAttention

\* A walk against a maximum that is known beforehand, as a fold.
AddsThrough(W, s, m, xs, vs, n) ==
    W[0] = s /\ \A k \in 1..n : W[k] = Added(W[k - 1], m, xs[k], vs[k])

\* The walk of the fold.
LEMMA AddsWalk ==
    ASSUME NEW s, NEW xs, NEW vs, NEW m, NEW n \in Nat, DOMAIN xs = 1..n
    PROVE  \E W : AddsThrough(W, s, m, xs, vs, n) /\ W[n] = Adds(s, m, xs, vs)
<1> DEFINE p == [kind |-> "add", xs |-> xs, vs |-> vs, m |-> m]
           q == [i \in DOMAIN xs |-> i]
<1>1. \E W : Walk(W, p, s, q, n) /\ W[n] = Adds(s, m, xs, vs)
  BY AddWalk
<1>2. \A t, x : Do(p, t, x) = Added(t, m, xs[x], vs[x])
  BY DEF Do, Added
<1>3. \A k \in 1..n : q[k] = k
  OBVIOUS
<1> HIDE DEF p, q
<1> QED
  BY <1>1, <1>2, <1>3 DEF Walk, AddsThrough

\* The fold adds a row's weights to the sums.
LEMMA AddsCarry ==
    ASSUME NEW n, NEW xs, NEW vs, Row(n, xs, vs), NEW m \in 0..MaxScore,
           NEW s, s \in Partials, s.m = m, NEW w \in Nat, NEW a \in Nat,
           s.l = Scale(m) * w, s.acc = Scale(m) * a, w + SumOf(Weights(xs)) > 0
    PROVE  /\ Carries(Adds(s, m, xs, vs), w + SumOf(Weights(xs)), a + SumOf(Weighing(xs, vs)))
           /\ Adds(s, m, xs, vs).m = m
<1>1. n \in Nat /\ DOMAIN xs = 1..n /\ m # NegInf
  BY ScoresAre DEF Row
<1>2. PICK W : AddsThrough(W, s, m, xs, vs, n) /\ W[n] = Adds(s, m, xs, vs)
  BY <1>1, AddsWalk
<1>6. /\ W[n] \in Partials /\ W[n].m = m
      /\ W[n].l = Scale(m) * (w + SumOf(Weights(xs)))
      /\ W[n].acc = Scale(m) * (a + SumOf(Weighing(xs, vs)))
  BY <1>2, AddCarries DEF AddsThrough
<1> QED
  BY <1>1, <1>2, <1>6 DEF Carries

\* The fused softmax between two matrix products.
LEMMA SoftmaxRowIs ==
    ASSUME NEW n, NEW xs, NEW vs, Row(n, xs, vs), NEW s0 \in 0..MaxScore
    PROVE  IsAttention(SoftmaxRow(s0, xs, vs), s0, xs, vs)
<1>1. s0 \in Scores /\ s0 # NegInf /\ n \in Nat /\ xs \in [1..n -> Scores]
  BY ScoresAre DEF Row
<1>2. PICK m : m = Highest(s0, xs)
  OBVIOUS
<1>3. m \in 0..MaxScore
  <2>1. m \in Scores /\ m >= s0
    BY <1>1, <1>2, HighestIs
  <2> QED
    BY <1>1, <2>1, ScoresAre
<1>4. PICK y \in Nat : y = Exp(s0, m) /\ y = Scale(m) * Weight(s0)
  BY <1>1, <1>3, ExpWeighs
<1>5. PICK e : e = Empty
  OBVIOUS
<1>6. PICK s : s = [e EXCEPT !.m = m, !.l = y]
  OBVIOUS
<1>7. SoftmaxRow(s0, xs, vs) = <<Adds(s, m, xs, vs).acc, Adds(s, m, xs, vs).l>>
  <2>1. SoftmaxRow(s0, xs, vs) = <<Adds([Empty EXCEPT !.m = Highest(s0, xs), !.l = Exp(s0, Highest(s0, xs))],
                                         Highest(s0, xs), xs, vs).acc,
                                    Adds([Empty EXCEPT !.m = Highest(s0, xs), !.l = Exp(s0, Highest(s0, xs))],
                                         Highest(s0, xs), xs, vs).l>>
    BY Zenon DEF SoftmaxRow, Adds
  <2>2. [Empty EXCEPT !.m = Highest(s0, xs), !.l = Exp(s0, Highest(s0, xs))] = s
    BY <1>2, <1>4, <1>5, <1>6
  <2> QED
    BY <1>2, <2>1, <2>2
<1>8. e \in Partials /\ e.acc = 0 /\ m \in Scores
  BY <1>3, <1>5, EmptyCarries, ScoresAre DEF Empty
<1>9. s \in Partials /\ s.m = m /\ s.l = y /\ s.acc = e.acc
  BY <1>6, <1>8 DEF Partials
<1>10. /\ SumOf(Weights(xs)) \in Nat /\ Weight(s0) \in Nat /\ Weight(s0) > 0
       /\ Scale(m) \in Nat
  BY <1>1, <1>3, RowWeighs, ScoresAre
<1>11. Scale(m) * 0 = 0 /\ Weight(s0) + SumOf(Weights(xs)) > 0
  BY <1>10
<1>12. /\ Carries(Adds(s, m, xs, vs), Weight(s0) + SumOf(Weights(xs)), 0 + SumOf(Weighing(xs, vs)))
       /\ Adds(s, m, xs, vs).m = m
  BY <1>3, <1>4, <1>8, <1>9, <1>10, <1>11, AddsCarry, 0 \in Nat
<1>13. m # NegInf
  BY <1>3, ScoresAre
<1> QED
  BY <1>1, <1>7, <1>12, <1>13, CarriedAttention

-----------------------------------------------------------------------------
(* Attention by matrix products. *)

\* The exponentials of a row against m, and their weighted values.
Exps(xs, m) == [k \in DOMAIN xs |-> Exp(xs[k], m)]

ExpValues(xs, vs, m) == [k \in DOMAIN xs |-> Exps(xs, m)[k] * vs[k]]

\* They add up to the row's weights at the scale of m.
LEMMA ExpSums ==
    ASSUME NEW n, NEW xs, NEW vs, Row(n, xs, vs), NEW m \in 0..MaxScore
    PROVE  /\ Exps(xs, m) \in [1..n -> Nat] /\ ExpValues(xs, vs, m) \in [1..n -> Nat]
           /\ SumOf(Exps(xs, m)) = Scale(m) * SumOf(Weights(xs))
           /\ SumOf(ExpValues(xs, vs, m)) = Scale(m) * SumOf(Weighing(xs, vs))
<1>1. /\ n \in Nat /\ DOMAIN xs = 1..n
      /\ Weights(xs) \in [1..n -> Nat] /\ Weighing(xs, vs) \in [1..n -> Nat]
      /\ \A k \in 1..n : /\ Weights(xs)[k] = Weight(xs[k])
                         /\ Weighing(xs, vs)[k] = Weight(xs[k]) * vs[k]
  BY RowWeighs
<1>2. \A k \in 1..n : xs[k] \in Scores /\ vs[k] \in Nat /\ Weight(xs[k]) \in Nat
  BY ScoresAre DEF Row
<1>3. PICK c \in Nat : c = Scale(m)
  BY ScoresAre
<1>4. ASSUME NEW k \in 1..n
      PROVE  /\ Exp(xs[k], m) = c * Weights(xs)[k] /\ Exp(xs[k], m) \in Nat
             /\ Exp(xs[k], m) * vs[k] = c * Weighing(xs, vs)[k] /\ Exp(xs[k], m) * vs[k] \in Nat
  <2>1. PICK x \in Nat, v \in Nat : x = Weight(xs[k]) /\ v = vs[k]
    BY <1>2
  <2>2. Exp(xs[k], m) = c * x
    BY <1>2, <1>3, <2>1, ExpWeighs
  <2>3. (c * x) * v = c * (x * v) /\ (c * x) * v \in Nat /\ c * x \in Nat
    BY Regroup, ZeroOr
  <2> QED
    BY <1>1, <2>1, <2>2, <2>3
<1>5. Exps(xs, m) = [k \in 1..n |-> c * Weights(xs)[k]] /\ Exps(xs, m) \in [1..n -> Nat]
  BY <1>1, <1>4 DEF Exps
<1>6. /\ ExpValues(xs, vs, m) = [k \in 1..n |-> c * Weighing(xs, vs)[k]]
      /\ ExpValues(xs, vs, m) \in [1..n -> Nat]
  <2>1. \A k \in 1..n : Exps(xs, m)[k] = Exp(xs[k], m)
    BY <1>1 DEF Exps
  <2> QED
    BY <1>1, <1>4, <2>1 DEF ExpValues
<1>7. SumOf([k \in 1..n |-> c * Weights(xs)[k]]) = c * SumOf(Weights(xs))
  BY <1>1, TotalScaled
<1>8. SumOf([k \in 1..n |-> c * Weighing(xs, vs)[k]]) = c * SumOf(Weighing(xs, vs))
  BY <1>1, TotalScaled
<1> QED
  BY <1>3, <1>5, <1>6, <1>7, <1>8

\* The sums of exponentials against m, and of the sink's, are the attention.
LEMMA ExpAttention ==
    ASSUME NEW n, NEW xs, NEW vs, Row(n, xs, vs), NEW s0 \in Scores, NEW m \in 0..MaxScore,
           SumOf(Weights(xs)) + Weight(s0) > 0
    PROVE  IsAttention(<<SumOf(ExpValues(xs, vs, m)), SumOf(Exps(xs, m)) + Exp(s0, m)>>, s0, xs, vs)
<1>1. /\ SumOf(Exps(xs, m)) = Scale(m) * SumOf(Weights(xs))
      /\ SumOf(ExpValues(xs, vs, m)) = Scale(m) * SumOf(Weighing(xs, vs))
  BY ExpSums
<1>2. Exp(s0, m) = Scale(m) * Weight(s0)
  BY ExpWeighs
<1>3. PICK c \in Nat \ {0}, w \in Nat, y \in Nat : c = Scale(m) /\ w = SumOf(Weights(xs)) /\ y = Weight(s0)
  BY ScoresAre, RowWeighs
<1>4. c * w + c * y = c * (w + y)
  BY Grows
<1>5. IsAttention(<<c * SumOf(Weighing(xs, vs)), c * (SumOf(Weights(xs)) + Weight(s0))>>, s0, xs, vs)
  BY AttentionIs
<1> QED
  BY <1>1, <1>2, <1>3, <1>4, <1>5

\* The whole-tensor form.
LEMMA GlobalSoftmaxIs ==
    ASSUME NEW n, NEW xs, NEW vs, Row(n, xs, vs), NEW s0 \in 0..MaxScore
    PROVE  IsAttention(GlobalSoftmax(s0, xs, vs), s0, xs, vs)
<1>1. /\ s0 \in Scores /\ s0 # NegInf /\ NegInf \in Scores /\ n \in Nat /\ xs \in [1..n -> Scores]
      /\ Weight(s0) \in Nat /\ Weight(s0) > 0 /\ SumOf(Weights(xs)) \in Nat
  <2>1. n \in Nat /\ xs \in [1..n -> Scores]
    BY DEF Row
  <2>2. SumOf(Weights(xs)) \in Nat
    BY RowWeighs
  <2> QED
    BY <2>1, <2>2, ScoresAre
<1>2. PICK top : top = Highest(NegInf, xs)
  OBVIOUS
<1>3. PICK m : m = IF top > s0 THEN top ELSE s0
  OBVIOUS
<1>4. m \in 0..MaxScore
  <2>1. top \in Scores
    BY <1>1, <1>2, HighestIs
  <2> QED
    BY <1>3, <2>1, ScoresAre
<1>5. GlobalSoftmax(s0, xs, vs) = <<SumOf(ExpValues(xs, vs, m)), SumOf(Exps(xs, m)) + Exp(s0, m)>>
  BY <1>2, <1>3 DEF GlobalSoftmax, Exps, ExpValues
<1>6. SumOf(Weights(xs)) + Weight(s0) > 0
  BY <1>1
<1> QED
  BY <1>1, <1>4, <1>5, <1>6, ExpAttention

\* Lanes number the keys modulo the width of a register.
LEMMA LaneOf ==
    ASSUME NEW i \in 1..VW
    PROVE  i % VW = IF i = VW THEN 0 ELSE i
<1>1. VW \in Nat \ {0}
  BY OnlineSoftmaxAssumption
<1>2. CASE i = VW
  <2>1. VW % VW = 0
    BY <1>1
  <2> QED
    BY <1>2, <2>1
<1>3. CASE i # VW
  <2>1. i \in 0..(VW - 1)
    BY <1>1, <1>3
  <2>2. i % VW = i
    BY <1>1, <2>1
  <2> QED
    BY <1>3, <2>2
<1> QED
  BY <1>2, <1>3

\* The sums lane by lane and the tail are the sum.
LEMMA LaneSums ==
    ASSUME NEW n \in Nat, NEW e \in [1..n -> Nat], NEW main \in Nat
    PROVE  SumOf([i \in 1..VW |->
                     SumOf([k \in 1..n |-> IF k <= main /\ k % VW = i % VW THEN e[k] ELSE 0])])
             + SumOf([k \in 1..n |-> IF k > main THEN e[k] ELSE 0]) = SumOf(e)
<1> DEFINE Lane(i) == [k \in 1..n |-> IF k <= main /\ k % VW = i % VW THEN e[k] ELSE 0]
           lanes == [i \in 1..VW |-> SumOf(Lane(i))]
           In(k, i) == k <= main /\ \E j \in 1..i : k % VW = j % VW
           Upto(i) == [k \in 1..n |-> IF In(k, i) THEN e[k] ELSE 0]
           main1 == [k \in 1..n |-> IF k <= main THEN e[k] ELSE 0]
           tail == [k \in 1..n |-> IF k > main THEN e[k] ELSE 0]
           g == [i \in 0..VW |-> SumOf(Upto(i))]
<1>1. VW \in Nat \ {0}
  BY OnlineSoftmaxAssumption
<1>2. /\ \A i : Lane(i) \in [1..n -> Nat] /\ Upto(i) \in [1..n -> Nat]
      /\ main1 \in [1..n -> Nat] /\ tail \in [1..n -> Nat]
  OBVIOUS
<1>3. \A i : SumOf(Lane(i)) \in Nat
  <2> HIDE DEF Lane
  <2> QED
    BY <1>2, TotalIsNat
<1>4. lanes \in [1..VW -> Nat]
  <2> HIDE DEF Lane
  <2> QED
    BY <1>3
<1>5. SumOf(Upto(0)) = 0
  <2>1. \A k \in 1..n : Upto(0)[k] = 0
    OBVIOUS
  <2> HIDE DEF Upto
  <2> QED
    BY <1>2, <2>1, TotalHolds
<1>6. ASSUME NEW i \in 1..VW PROVE SumOf(Upto(i)) = SumOf(Upto(i - 1)) + SumOf(Lane(i))
  <2>1. ASSUME NEW k \in 1..n PROVE Upto(i)[k] = Upto(i - 1)[k] + Lane(i)[k]
    <3>1. i \in Nat /\ \A j \in 1..i : j = i \/ j \in 1..(i - 1)
      BY <1>1
    <3>2. ASSUME NEW j \in 1..(i - 1) PROVE j % VW # i % VW
      <4>1. j \in 1..VW /\ j # i /\ j # VW /\ j # 0
        BY <1>1
      <4> QED
        BY <4>1, LaneOf
    <3>3. i \in 1..i /\ \A j \in 1..(i - 1) : j \in 1..i
      BY <1>1
    <3>4. PICK z \in Nat : z = e[k]
      OBVIOUS
    <3>5. In(k, i) <=> In(k, i - 1) \/ (k <= main /\ k % VW = i % VW)
      BY <3>1, <3>3
    <3>6. ~ (In(k, i - 1) /\ k % VW = i % VW)
      BY <3>2
    <3>7. Upto(i)[k] = IF In(k, i) THEN z ELSE 0
      BY <3>4
    <3>8. Upto(i - 1)[k] = IF In(k, i - 1) THEN z ELSE 0
      BY <3>4
    <3>9. Lane(i)[k] = IF k <= main /\ k % VW = i % VW THEN z ELSE 0
      BY <3>4
    <3> HIDE DEF In, Upto, Lane
    <3> QED
      BY <3>4, <3>5, <3>6, <3>7, <3>8, <3>9
  <2>2. Upto(i) = [k \in 1..n |-> Upto(i - 1)[k] + Lane(i)[k]]
    <3>1. Upto(i) = [k \in 1..n |-> Upto(i)[k]]
      OBVIOUS
    <3> HIDE DEF Upto, Lane
    <3> QED
      BY <2>1, <3>1
  <2> HIDE DEF Upto, Lane
  <2>3. SumOf([k \in 1..n |-> Upto(i - 1)[k] + Lane(i)[k]]) = SumOf(Upto(i - 1)) + SumOf(Lane(i))
    <3>1. PICK u \in [1..n -> Nat], l \in [1..n -> Nat] : u = Upto(i - 1) /\ l = Lane(i)
      BY <1>2
    <3>2. SumOf([k \in 1..n |-> u[k] + l[k]]) = SumOf(u) + SumOf(l)
      BY TotalOfTwo
    <3> QED
      BY <3>1, <3>2
  <2> QED
    BY <2>2, <2>3
<1>7. g[0] = 0 /\ (\A i \in 1..VW : g[i] = g[i - 1] + lanes[i]) /\ g[VW] = SumOf(Upto(VW))
  <2> HIDE DEF Upto, Lane
  <2>1. \A i \in 1..VW : i \in 0..VW /\ i - 1 \in 0..VW
    BY <1>1
  <2>2. 0 \in 0..VW /\ VW \in 0..VW
    BY <1>1
  <2> QED
    BY <1>5, <1>6, <2>1, <2>2
<1>8. SumOf(lanes) = SumOf(Upto(VW))
  <2> HIDE DEF lanes, g
  <2>1. g[VW] = PartSum(lanes, VW)
    <3>5. PICK N \in Nat : N = VW
      BY <1>1
    <3>6. PICK f, G : f = lanes /\ G = g
      OBVIOUS
    <3>1. f = lanes /\ G = g /\ N = VW
      BY <3>5, <3>6
    <3>2. f \in [1..N -> Nat] /\ G[0] = 0 /\ \A i \in 1..N : G[i] = G[i - 1] + f[i]
      BY <1>4, <1>7, <3>1
    <3>3. \A i \in 0..N : G[i] = PartSum(f, i)
      BY <3>2, SumsBy
    <3>4. N \in 0..N
      OBVIOUS
    <3> QED
      BY <3>1, <3>3, <3>4
  <2>2. SumOf(lanes) = PartSum(lanes, VW)
    BY <1>1, <1>4, PartSums
  <2> QED
    BY <1>7, <2>1, <2>2
<1>9. Upto(VW) = main1
  <2>1. ASSUME NEW k \in 1..n PROVE \E j \in 1..VW : k % VW = j % VW
    <3>1. k % VW \in 0..(VW - 1)
      BY <1>1
    <3>2. CASE k % VW = 0
      <4>1. VW \in 1..VW
        BY <1>1
      <4> QED
        BY <3>2, <4>1, LaneOf
    <3>3. CASE k % VW # 0
      <4>1. k % VW \in 1..VW /\ k % VW # VW
        BY <1>1, <3>1, <3>3
      <4> QED
        BY <4>1, LaneOf
    <3> QED
      BY <3>2, <3>3
  <2> QED
    BY <2>1
<1>10. e = [k \in 1..n |-> main1[k] + tail[k]]
  <2>1. ASSUME NEW k \in 1..n PROVE e[k] = main1[k] + tail[k]
    <3>1. e[k] \in Nat /\ (k <= main \/ k > main) /\ ~(k <= main /\ k > main)
      OBVIOUS
    <3> QED
      BY <3>1
  <2>2. e = [k \in 1..n |-> e[k]]
    OBVIOUS
  <2> HIDE DEF main1, tail
  <2> QED
    BY <2>1, <2>2
<1> HIDE DEF main1, tail, Upto
<1>11. SumOf([k \in 1..n |-> main1[k] + tail[k]]) = SumOf(main1) + SumOf(tail)
  BY <1>2, TotalOfTwo
<1>12. SumOf(lanes) + SumOf(tail) = SumOf(e)
  BY <1>8, <1>9, <1>10, <1>11
<1> QED
  BY <1>12 DEF tail

\* The fused softmax with the exponentials VW at a time.
LEMMA SoftmaxRowVectorIs ==
    ASSUME NEW n, NEW xs, NEW vs, Row(n, xs, vs), NEW s0 \in 0..MaxScore
    PROVE  IsAttention(SoftmaxRowVector(s0, xs, vs), s0, xs, vs)
<1>1. /\ s0 \in Scores /\ s0 # NegInf /\ n \in Nat /\ xs \in [1..n -> Scores] /\ DOMAIN xs = 1..n
      /\ Weight(s0) \in Nat /\ Weight(s0) > 0 /\ SumOf(Weights(xs)) \in Nat
  <2>1. n \in Nat /\ xs \in [1..n -> Scores] /\ DOMAIN xs = 1..n
    BY DEF Row
  <2>2. SumOf(Weights(xs)) \in Nat
    BY RowWeighs
  <2> QED
    BY <2>1, <2>2, ScoresAre
<1>2. PICK m : m = Highest(s0, xs)
  OBVIOUS
<1>3. m \in 0..MaxScore
  <2>1. m \in Scores /\ m >= s0
    BY <1>1, <1>2, HighestIs
  <2> QED
    BY <1>1, <2>1, ScoresAre
<1> DEFINE e == Exps(xs, m)
           main == Vectorized(Len(xs))
           lanes == SumOf([i \in 1..VW |->
                       SumOf([k \in 1..n |-> IF k <= main /\ k % VW = i % VW THEN e[k] ELSE 0])])
           tail == SumOf([k \in 1..n |-> IF k > main THEN e[k] ELSE 0])
<1>4. SoftmaxRowVector(s0, xs, vs) = <<SumOf(ExpValues(xs, vs, m)), Exp(s0, m) + lanes + tail>>
  BY <1>1, <1>2 DEF SoftmaxRowVector, Exps, ExpValues
<1>5. main \in Nat
  <2>1. Len(xs) = n /\ VW \in Nat \ {0}
    BY <1>1, OnlineSoftmaxAssumption
  <2>2. n \div VW \in Nat
    BY <1>1, <2>1
  <2>3. PICK a \in Nat, b \in Nat : a = VW /\ b = n \div VW
    BY <2>1, <2>2
  <2>4. a * b \in Nat
    OBVIOUS
  <2> QED
    BY <2>1, <2>3, <2>4 DEF Vectorized
<1>6. e \in [1..n -> Nat] /\ Exp(s0, m) \in Nat
  BY <1>1, <1>3, ExpSums, ExpWeighs
<1> HIDE DEF e, main
<1>7. lanes + tail = SumOf(e)
  BY <1>1, <1>5, <1>6, LaneSums
<1>8. lanes \in Nat /\ tail \in Nat
  <2> DEFINE Lane(i) == [k \in 1..n |-> IF k <= main /\ k % VW = i % VW THEN e[k] ELSE 0]
             t == [k \in 1..n |-> IF k > main THEN e[k] ELSE 0]
             f == [i \in 1..VW |-> SumOf(Lane(i))]
  <2>1. (\A i : Lane(i) \in [1..n -> Nat]) /\ t \in [1..n -> Nat]
    BY <1>6
  <2>2. (\A i : SumOf(Lane(i)) \in Nat) /\ SumOf(t) \in Nat
    <3> HIDE DEF Lane, t
    <3> QED
      BY <1>1, <2>1, TotalIsNat
  <2>3. f \in [1..VW -> Nat] /\ VW \in Nat
    <3> HIDE DEF Lane
    <3> QED
      BY <2>2, OnlineSoftmaxAssumption
  <2>4. SumOf(f) \in Nat
    <3> HIDE DEF f
    <3> QED
      BY <2>3, TotalIsNat
  <2> QED
    BY <2>2, <2>4
<1> HIDE DEF lanes, tail
<1>9. Exp(s0, m) + lanes + tail = SumOf(e) + Exp(s0, m)
  BY <1>6, <1>7, <1>8
<1>10. SumOf(Weights(xs)) + Weight(s0) > 0
  BY <1>1
<1> QED
  BY <1>1, <1>3, <1>4, <1>9, <1>10, ExpAttention DEF e

-----------------------------------------------------------------------------
(* Attention in torch. *)

\* A sink as one more column of a row.
Longer(ys, n, xs, s0) ==
    /\ ys \in [1..(n + 1) -> Scores] /\ ys[n + 1] = s0
    /\ \A k \in 1..n : ys[k] = xs[k]
    /\ SumOf(Weights(ys)) = SumOf(Weights(xs)) + Weight(s0)

\* A row with a column appended is longer by that column.
LEMMA Appended ==
    ASSUME NEW n, NEW xs, NEW vs, Row(n, xs, vs), NEW s0 \in Scores
    PROVE  Longer(Append(xs, s0), n, xs, s0)
<1>1. n \in Nat /\ xs \in [1..n -> Scores]
  BY DEF Row
<1>2. PICK ys : ys = Append(xs, s0)
  OBVIOUS
<1>3. ys \in [1..(n + 1) -> Scores] /\ ys[n + 1] = s0 /\ \A k \in 1..n : ys[k] = xs[k]
  <2>1. xs \in Seq(Scores) /\ Len(xs) = n
    BY <1>1
  <2>2. ys \in Seq(Scores) /\ Len(ys) = n + 1 /\ ys[n + 1] = s0 /\ \A k \in 1..n : ys[k] = xs[k]
    BY <1>2, <2>1
  <2>3. ys \in [1..Len(ys) -> Scores]
    BY <2>2
  <2> QED
    BY <2>2, <2>3
<1>4. Weights(ys) \in [1..(n + 1) -> Nat] /\ \A k \in 1..(n + 1) : Weights(ys)[k] = Weight(ys[k])
  BY <1>3, ScoresAre DEF Weights
<1>5. Weights(xs) \in [1..n -> Nat] /\ \A k \in 1..n : Weights(xs)[k] = Weight(xs[k])
  BY RowWeighs
<1>6. /\ PartSum(Weights(ys), 0) = 0
      /\ \A k \in 1..(n + 1) : PartSum(Weights(ys), k) = PartSum(Weights(ys), k - 1) + Weights(ys)[k]
      /\ SumOf(Weights(ys)) = PartSum(Weights(ys), n + 1)
  <2>1. n + 1 \in Nat
    BY <1>1
  <2> QED
    BY <1>4, <2>1, PartSums
<1>7. PartSum(Weights(ys), n) = SumOf(Weights(xs))
  <2> DEFINE g == [k \in 0..n |-> PartSum(Weights(ys), k)]
  <2>1. g[0] = 0 /\ g[n] = PartSum(Weights(ys), n)
    BY <1>1, <1>6
  <2>2. \A k \in 1..n : g[k] = g[k - 1] + Weights(xs)[k]
    <3> SUFFICES ASSUME NEW k \in 1..n PROVE g[k] = g[k - 1] + Weights(xs)[k]
      OBVIOUS
    <3>1. k \in 0..n /\ k - 1 \in 0..n /\ k \in 1..(n + 1)
      BY <1>1
    <3>2. g[k] = PartSum(Weights(ys), k) /\ g[k - 1] = PartSum(Weights(ys), k - 1)
      BY <3>1
    <3>3. Weights(ys)[k] = Weights(xs)[k]
      BY <1>3, <1>4, <1>5, <3>1
    <3> QED
      BY <1>6, <3>1, <3>2, <3>3
  <2> HIDE DEF g
  <2>3. \A k \in 0..n : g[k] = PartSum(Weights(xs), k)
    BY <1>1, <1>5, <2>1, <2>2, SumsBy
  <2>5. SumOf(Weights(xs)) = PartSum(Weights(xs), n)
    BY <1>1, <1>5, PartSums
  <2>4. n \in 0..n /\ SumOf(Weights(xs)) = PartSum(Weights(xs), n)
    BY <1>1, <2>5
  <2> QED
    BY <2>1, <2>3, <2>4
<1>8. n + 1 \in 1..(n + 1) /\ (n + 1) - 1 = n
  BY <1>1
<1>9. SumOf(Weights(ys)) = SumOf(Weights(xs)) + Weight(s0)
  <2>1. PartSum(Weights(ys), n + 1) = PartSum(Weights(ys), (n + 1) - 1) + Weights(ys)[n + 1]
    BY <1>6, <1>8
  <2> QED
    BY <1>3, <1>4, <1>6, <1>7, <1>8, <2>1
<1> QED
  BY <1>2, <1>3, <1>9 DEF Longer

\* A softmax against the maximum of the row is a number, unless every score is
\* masked.
LEMMA RowSoftmaxIs ==
    ASSUME NEW n \in Nat \ {0}, NEW ys \in [1..n -> Scores], NEW m, m = TwoPassMax(ys)
    PROVE  /\ m = NegInf => RowSoftmax(ys).l = NaN /\ SumOrNaN(Exps(ys, m)) = NaN
                            /\ SumOf(Weights(ys)) = 0
           /\ m # NegInf => /\ m \in 0..MaxScore
                            /\ RowSoftmax(ys).e = Exps(ys, m) /\ RowSoftmax(ys).l = SumOf(Exps(ys, m))
                            /\ SumOrNaN(Exps(ys, m)) = SumOf(Exps(ys, m))
                            /\ SumOf(Exps(ys, m)) = Scale(m) * SumOf(Weights(ys))
                            /\ SumOf(Exps(ys, m)) \in Nat /\ SumOf(Weights(ys)) > 0
<1>1. DOMAIN ys = 1..n /\ n \in Nat /\ n > 0
  OBVIOUS
<1> DEFINE us == [k \in 1..n |-> 0]
<1>2. Row(n, ys, us)
  BY DEF Row
<1>3. /\ (m = NegInf => \A k \in 1..n : ys[k] = NegInf)
      /\ (m # NegInf => m \in 0..MaxScore /\ \E k \in 1..n : ys[k] # NegInf)
  BY <1>1, TwoPassMaxIs
<1>4. RowSoftmax(ys).e = Exps(ys, m) /\ RowSoftmax(ys).l = SumOrNaN(Exps(ys, m))
  BY DEF RowSoftmax, Exps
<1> HIDE DEF us
<1>5. ASSUME m = NegInf PROVE SumOrNaN(Exps(ys, m)) = NaN /\ SumOf(Weights(ys)) = 0
  <2>1. DOMAIN Exps(ys, m) = 1..n /\ \A k \in 1..n : Exps(ys, m)[k] = NaN
    <3>1. Exp(NegInf, NegInf) = NaN
      BY ScoresAre DEF Exp
    <3> QED
      BY <1>1, <1>3, <1>5, <3>1 DEF Exps
  <2>2. SumOf(Weights(ys)) = 0
    BY <1>2, <1>3, <1>5, RowWeighs
  <2> QED
    BY <1>1, <2>1, <2>2, PlusTotalIs
<1>6. ASSUME m # NegInf
      PROVE  /\ m \in 0..MaxScore /\ SumOrNaN(Exps(ys, m)) = SumOf(Exps(ys, m))
             /\ SumOf(Exps(ys, m)) = Scale(m) * SumOf(Weights(ys))
             /\ SumOf(Exps(ys, m)) \in Nat /\ SumOf(Weights(ys)) > 0
  <2>1. m \in 0..MaxScore /\ SumOf(Weights(ys)) > 0
    BY <1>2, <1>3, <1>6, RowWeighs
  <2>2. Exps(ys, m) \in [1..n -> Nat] /\ SumOf(Exps(ys, m)) = Scale(m) * SumOf(Weights(ys))
    BY <1>2, <2>1, ExpSums
  <2> QED
    BY <1>1, <2>1, <2>2, PlusTotalIs, TotalIsNat
<1> QED
  BY <1>4, <1>5, <1>6

\* A row whose numbers are weighed against m, over their sum.
LEMMA NanToZeroIs ==
    ASSUME NEW n, NEW xs, NEW vs, Row(n, xs, vs), NEW s0 \in Scores, NEW m \in 0..MaxScore, NEW e,
           \A k \in 1..n : e[k] = Exp(xs[k], m), NEW l \in Nat,
           l = Scale(m) * (SumOf(Weights(xs)) + Weight(s0)), SumOf(Weights(xs)) + Weight(s0) > 0
    PROVE  IsAttention(NanToZero(e, l, vs), s0, xs, vs)
<1>1. l # NaN
  BY ScoresAre
<1>2. DOMAIN xs = 1..n /\ DOMAIN vs = 1..n
  BY RowWeighs
<1>3. [k \in DOMAIN vs |-> e[k] * vs[k]] = ExpValues(xs, vs, m)
  <2>1. \A k \in 1..n : e[k] = Exps(xs, m)[k]
    BY <1>2 DEF Exps
  <2> HIDE DEF Exps
  <2> QED
    BY <1>2, <2>1 DEF ExpValues
<1>4. NanToZero(e, l, vs) = <<SumOf(ExpValues(xs, vs, m)), l>>
  BY <1>1, <1>3, Zenon DEF NanToZero
<1>5. SumOf(ExpValues(xs, vs, m)) = Scale(m) * SumOf(Weighing(xs, vs))
  BY ExpSums
<1>6. Scale(m) \in Nat \ {0}
  BY ScoresAre
<1>7. IsAttention(<<Scale(m) * SumOf(Weighing(xs, vs)), Scale(m) * (SumOf(Weights(xs)) + Weight(s0))>>,
                  s0, xs, vs)
  BY <1>6, AttentionIs
<1> QED
  BY <1>4, <1>5, <1>7

\* Torch's softmax over the keys and, if there is one, the sink.
LEMMA CatSoftmaxIs ==
    ASSUME NEW n, NEW xs, NEW vs, Row(n, xs, vs), n > 0, NEW s0 \in Scores
    PROVE  IsAttention(CatSoftmax(s0, xs, vs), s0, xs, vs)
<1>1. /\ n \in Nat /\ n + 1 \in Nat \ {0} /\ xs \in [1..n -> Scores] /\ SumOf(Weights(xs)) \in Nat
      /\ Weight(s0) \in Nat
  <2>1. n \in Nat /\ xs \in [1..n -> Scores]
    BY DEF Row
  <2>2. SumOf(Weights(xs)) \in Nat
    BY RowWeighs
  <2> QED
    BY <2>1, <2>2, ScoresAre
<1>2. PICK ys : ys = IF s0 = NegInf THEN xs ELSE Append(xs, s0)
  OBVIOUS
<1>3. PICK N \in Nat \ {0} :
         /\ ys \in [1..N -> Scores] /\ n <= N /\ \A k \in 1..n : ys[k] = xs[k]
         /\ SumOf(Weights(ys)) = SumOf(Weights(xs)) + Weight(s0)
  <2>1. CASE s0 = NegInf
    <3>1. Weight(s0) = 0
      BY <2>1 DEF Weight
    <3>2. ys = xs
      BY <1>2, <2>1
    <3>3. SumOf(Weights(xs)) = SumOf(Weights(xs)) + Weight(s0)
      BY <1>1, <3>1
    <3> QED
      BY <1>1, <3>2, <3>3
  <2>2. CASE s0 # NegInf
    <3>1. ys = Append(xs, s0)
      BY <1>2, <2>2
    <3>2. /\ ys \in [1..(n + 1) -> Scores] /\ (\A k \in 1..n : ys[k] = xs[k])
          /\ SumOf(Weights(ys)) = SumOf(Weights(xs)) + Weight(s0)
      <4>1. Longer(Append(xs, s0), n, xs, s0)
        BY Appended
      <4>2. Longer(ys, n, xs, s0)
        BY <3>1, <4>1, Zenon
      <4> QED
        BY <4>2 DEF Longer
    <3>3. n <= n + 1
      BY <1>1
    <3> QED
      BY <1>1, <3>2, <3>3
  <2> QED
    BY <2>1, <2>2
<1>4. CatSoftmax(s0, xs, vs) = NanToZero(RowSoftmax(ys).e, RowSoftmax(ys).l, vs)
  BY <1>2, Zenon DEF CatSoftmax
<1>5. PICK m : m = TwoPassMax(ys)
  OBVIOUS
<1>6. CASE m = NegInf
  <2>1. RowSoftmax(ys).l = NaN /\ SumOf(Weights(xs)) + Weight(s0) = 0
    BY <1>3, <1>5, <1>6, RowSoftmaxIs
  <2>2. CatSoftmax(s0, xs, vs) = <<0, 1>>
    BY <1>4, <2>1 DEF NanToZero
  <2> QED
    BY <2>1, <2>2, AttentionIs, 1 \in Nat \ {0}
<1>7. CASE m # NegInf
  <2>1. /\ m \in 0..MaxScore /\ RowSoftmax(ys).e = Exps(ys, m) /\ RowSoftmax(ys).l = SumOf(Exps(ys, m))
        /\ SumOf(Exps(ys, m)) = Scale(m) * SumOf(Weights(ys))
        /\ SumOf(Exps(ys, m)) \in Nat /\ SumOf(Weights(ys)) > 0
    BY <1>3, <1>5, <1>7, RowSoftmaxIs
  <2>2. \A k \in 1..n : Exps(ys, m)[k] = Exp(xs[k], m)
    <3>1. DOMAIN ys = 1..N /\ \A k \in 1..n : k \in 1..N
      BY <1>1, <1>3
    <3> QED
      BY <1>3, <3>1 DEF Exps
  <2>4. PICK L \in Nat : L = SumOf(Exps(ys, m))
    BY <2>1
  <2>5. L = Scale(m) * (SumOf(Weights(xs)) + Weight(s0)) /\ SumOf(Weights(xs)) + Weight(s0) > 0
    BY <1>3, <2>1, <2>4
  <2>6. IsAttention(NanToZero(Exps(ys, m), L, vs), s0, xs, vs)
    BY <2>1, <2>2, <2>5, NanToZeroIs
  <2> QED
    BY <1>4, <2>1, <2>4, <2>6
<1> QED
  BY <1>6, <1>7

\* The form with the sink in the maximum and the sum.
LEMMA FusedSoftmaxIs ==
    ASSUME NEW n, NEW xs, NEW vs, Row(n, xs, vs), n > 0, NEW s0 \in Scores
    PROVE  IsAttention(FusedSoftmax(s0, xs, vs), s0, xs, vs)
<1>1. /\ n \in Nat /\ n + 1 \in Nat \ {0} /\ xs \in [1..n -> Scores] /\ SumOf(Weights(xs)) \in Nat
      /\ Weight(s0) \in Nat /\ DOMAIN xs = 1..n /\ vs \in [1..n -> Nat]
  <2>1. n \in Nat /\ xs \in [1..n -> Scores] /\ vs \in [1..n -> Nat]
    BY DEF Row
  <2>2. SumOf(Weights(xs)) \in Nat
    BY RowWeighs
  <2> QED
    BY <2>1, <2>2, ScoresAre
<1>2. PICK ys : ys = Append(xs, s0)
  OBVIOUS
<1>3. /\ ys \in [1..(n + 1) -> Scores] /\ ys[n + 1] = s0 /\ (\A k \in 1..n : ys[k] = xs[k])
      /\ SumOf(Weights(ys)) = SumOf(Weights(xs)) + Weight(s0)
  <2>1. Longer(Append(xs, s0), n, xs, s0)
    BY Appended
  <2>2. Longer(ys, n, xs, s0)
    BY <1>2, <2>1, Zenon
  <2> QED
    BY <2>2 DEF Longer
<1>4. PICK m : m = TwoPassMax(ys)
  OBVIOUS
<1> DEFINE e == Exps(xs, m)
<1>5. FusedSoftmax(s0, xs, vs) =
        IF s0 = NegInf THEN NanToZero(e, SumOrNaN(e), vs)
        ELSE <<SumOrNaN([k \in DOMAIN xs |-> Weighted(e[k], vs[k])]), Plus(SumOrNaN(e), Exp(s0, m))>>
  BY <1>2, <1>4 DEF FusedSoftmax, Exps
<1>6. CASE m = NegInf
  <2>1. \A k \in 1..(n + 1) : ys[k] = NegInf
    BY <1>1, <1>3, <1>4, <1>6, TwoPassMaxIs
  <2>2. s0 = NegInf /\ \A k \in 1..n : xs[k] = NegInf
    <3>1. n + 1 \in 1..(n + 1) /\ \A k \in 1..n : k \in 1..(n + 1)
      BY <1>1
    <3> QED
      BY <1>3, <2>1, <3>1
  <2>3. DOMAIN e = 1..n /\ \A k \in 1..n : e[k] = NaN
    <3>1. Exp(NegInf, NegInf) = NaN
      BY ScoresAre DEF Exp
    <3> QED
      BY <1>1, <1>6, <2>2, <3>1 DEF Exps
  <2> HIDE DEF e
  <2>4. SumOrNaN(e) = NaN
    BY <1>1, <2>3, PlusTotalIs
  <2>5. FusedSoftmax(s0, xs, vs) = <<0, 1>>
    BY <1>5, <2>2, <2>4 DEF NanToZero
  <2>6. SumOf(Weights(xs)) + Weight(s0) = 0
    <3>1. SumOf(Weights(ys)) = 0
      BY <1>1, <1>3, <1>4, <1>6, RowSoftmaxIs
    <3> QED
      BY <1>3, <3>1
  <2> QED
    BY <2>5, <2>6, AttentionIs, 1 \in Nat \ {0}
<1>7. CASE m # NegInf
  <2>1. m \in 0..MaxScore /\ SumOf(Weights(xs)) + Weight(s0) > 0
    <3>1. m \in 0..MaxScore /\ SumOf(Weights(ys)) > 0
      BY <1>1, <1>3, <1>4, <1>7, RowSoftmaxIs
    <3> QED
      BY <1>3, <3>1
  <2>2. /\ e \in [1..n -> Nat] /\ ExpValues(xs, vs, m) \in [1..n -> Nat]
        /\ SumOf(e) = Scale(m) * SumOf(Weights(xs))
    BY <2>1, ExpSums
  <2>3. \A k \in 1..n : e[k] = Exp(xs[k], m)
    BY <1>1 DEF Exps
  <2>4. [k \in DOMAIN xs |-> Weighted(e[k], vs[k])] = ExpValues(xs, vs, m)
    <3>3. NaN = -2
      BY ScoresAre
    <3>1. \A k \in 1..n : e[k] \in Nat /\ e[k] # NaN
      <4> HIDE DEF e
      <4> QED
        BY <2>2, <3>3
    <3>2. \A k \in 1..n : Weighted(e[k], vs[k]) = e[k] * vs[k]
      BY <3>1 DEF Weighted
    <3> QED
      BY <1>1, <3>2 DEF ExpValues
  <2>5. /\ SumOrNaN(e) = SumOf(e) /\ SumOf(e) \in Nat
        /\ SumOrNaN(ExpValues(xs, vs, m)) = SumOf(ExpValues(xs, vs, m))
    <3> HIDE DEF e
    <3> QED
      BY <1>1, <2>2, PlusTotalIs, TotalIsNat
  <2>6. CASE s0 = NegInf
    <3>1. Weight(s0) = 0
      BY <2>6 DEF Weight
    <3>2. PICK L \in Nat : L = SumOf(e)
      BY <2>5
    <3>3. L = Scale(m) * (SumOf(Weights(xs)) + Weight(s0))
      BY <1>1, <2>2, <3>1, <3>2
    <3>4. IsAttention(NanToZero(e, L, vs), s0, xs, vs)
      <4> HIDE DEF e
      <4> QED
        BY <2>1, <2>3, <3>3, NanToZeroIs
    <3>5. FusedSoftmax(s0, xs, vs) = NanToZero(e, L, vs)
      BY <1>5, <2>5, <2>6, <3>2
    <3> QED
      BY <3>4, <3>5
  <2>7. CASE s0 # NegInf
    <3>1. Exp(s0, m) \in Nat /\ NaN = -2
      BY <2>1, ExpWeighs, ScoresAre
    <3>2. Plus(SumOrNaN(e), Exp(s0, m)) = SumOf(e) + Exp(s0, m)
      BY <2>5, <3>1 DEF Plus
    <3>3. FusedSoftmax(s0, xs, vs) = <<SumOf(ExpValues(xs, vs, m)), SumOf(e) + Exp(s0, m)>>
      BY <1>5, <2>4, <2>5, <2>7, <3>2
    <3> QED
      BY <2>1, <3>3, ExpAttention
  <2> QED
    BY <2>6, <2>7
<1> QED
  BY <1>6, <1>7

\* A sum with one more summand.
LEMMA SumLonger ==
    ASSUME NEW n \in Nat, NEW f \in [1..n -> Nat], NEW g \in [1..(n + 1) -> Nat],
           \A k \in 1..n : g[k] = f[k]
    PROVE  SumOf(g) = SumOf(f) + g[n + 1]
<1>1. /\ PartSum(g, 0) = 0
      /\ \A k \in 1..(n + 1) : PartSum(g, k) = PartSum(g, k - 1) + g[k]
      /\ SumOf(g) = PartSum(g, n + 1)
  <2>1. n + 1 \in Nat
    OBVIOUS
  <2> QED
    BY <2>1, PartSums
<1> DEFINE h == [k \in 0..n |-> PartSum(g, k)]
<1>2. h[0] = 0 /\ h[n] = PartSum(g, n)
  BY <1>1
<1>3. ASSUME NEW k \in 1..n PROVE h[k] = h[k - 1] + f[k]
  <2>1. k \in 0..n /\ k - 1 \in 0..n /\ k \in 1..(n + 1)
    OBVIOUS
  <2>2. h[k] = PartSum(g, k) /\ h[k - 1] = PartSum(g, k - 1)
    BY <2>1
  <2> QED
    BY <1>1, <2>1, <2>2
<1> HIDE DEF h
<1>4. \A k \in 0..n : h[k] = PartSum(f, k)
  BY <1>2, <1>3, SumsBy
<1>5. SumOf(f) = PartSum(f, n)
  BY PartSums
<1>6. PartSum(g, n) = SumOf(f)
  BY <1>2, <1>4, <1>5
<1>7. PartSum(g, n + 1) = PartSum(g, (n + 1) - 1) + g[n + 1] /\ (n + 1) - 1 = n
  <2>1. n + 1 \in 1..(n + 1) /\ (n + 1) - 1 = n
    OBVIOUS
  <2> QED
    BY <1>1, <2>1
<1> QED
  BY <1>1, <1>6, <1>7

\* The values of f at the places ks names.
Picked(f, ks) == [j \in 1..Len(ks) |-> f[ks[j]]]

PickedMore(f, ks, k) == SumOf(Picked(f, Append(ks, k))) = SumOf(Picked(f, ks)) + f[k]

\* A place more to pick is a summand more.
LEMMA PicksOneMore ==
    ASSUME NEW n \in Nat, NEW f \in [1..n -> Nat], NEW ks \in Seq(1..n), NEW k \in 1..n
    PROVE  PickedMore(f, ks, k)
<1>1. PICK L \in Nat : L = Len(ks) /\ ks \in [1..L -> 1..n]
  OBVIOUS
<1>2. PICK qs : qs = Append(ks, k)
  OBVIOUS
<1>3. Len(qs) = L + 1 /\ qs[L + 1] = k /\ (\A j \in 1..L : qs[j] = ks[j])
  BY <1>1, <1>2
<1>4. PICK u, g : u = Picked(f, ks) /\ g = Picked(f, qs)
  OBVIOUS
<1>5. u \in [1..L -> Nat] /\ \A j \in 1..L : u[j] = f[ks[j]]
  BY <1>1, <1>4 DEF Picked
<1>6. \A j \in 1..(L + 1) : j = L + 1 \/ j \in 1..L
  BY <1>1
<1>7. /\ g \in [1..(L + 1) -> Nat] /\ g[L + 1] = f[k] /\ \A j \in 1..L : g[j] = f[ks[j]]
  <2>1. g = [j \in 1..(L + 1) |-> f[qs[j]]]
    BY <1>3, <1>4 DEF Picked
  <2>2. \A j \in 1..(L + 1) : qs[j] \in 1..n
    BY <1>1, <1>3, <1>6
  <2>3. L + 1 \in 1..(L + 1) /\ \A j \in 1..L : j \in 1..(L + 1)
    BY <1>1
  <2> QED
    BY <1>3, <2>1, <2>2, <2>3
<1>8. SumOf(g) = SumOf(u) + g[L + 1]
  BY <1>1, <1>5, <1>7, SumLonger
<1> QED
  BY <1>2, <1>4, <1>7, <1>8 DEF PickedMore

\* The keys kept of the first k weigh what those do.
Keeps(ks, k, xs, vs) ==
    /\ ks \in Seq(DOMAIN xs)
    /\ SumOf(Picked(Weights(xs), ks)) = WeightTo(xs, k)
    /\ SumOf(Picked(Weighing(xs, vs), ks)) = ValueTo(xs, vs, k)

AppendKeeps(ks, k, xs, vs) == Keeps(Append(ks, k), k, xs, vs)

\* A key that is not masked is kept, a masked one is not.
LEMMA KeepsOneMore ==
    ASSUME NEW n, NEW xs, NEW vs, Row(n, xs, vs), NEW k \in 1..n, NEW ks, Keeps(ks, k - 1, xs, vs)
    PROVE  /\ AppendKeeps(ks, k, xs, vs)
           /\ xs[k] = NegInf => Keeps(ks, k, xs, vs)
<1>1. /\ n \in Nat /\ DOMAIN xs = 1..n
      /\ Weights(xs) \in [1..n -> Nat] /\ Weighing(xs, vs) \in [1..n -> Nat]
      /\ Weights(xs)[k] = Weight(xs[k]) /\ Weighing(xs, vs)[k] = Weight(xs[k]) * vs[k]
  BY RowWeighs
<1>2. /\ WeightTo(xs, k) = WeightTo(xs, k - 1) + Weight(xs[k])
      /\ ValueTo(xs, vs, k) = ValueTo(xs, vs, k - 1) + Weight(xs[k]) * vs[k]
  BY RowGrows
<1>3. ks \in Seq(1..n)
  BY <1>1 DEF Keeps
<1>4. PICK f \in [1..n -> Nat], g \in [1..n -> Nat] : f = Weights(xs) /\ g = Weighing(xs, vs)
  BY <1>1
<1>5. PickedMore(f, ks, k) /\ PickedMore(g, ks, k)
  BY <1>1, <1>3, PicksOneMore
<1>6. PICK qs : qs = Append(ks, k)
  OBVIOUS
<1>7. SumOf(Picked(f, qs)) = SumOf(Picked(f, ks)) + f[k] /\ SumOf(Picked(g, qs)) = SumOf(Picked(g, ks)) + g[k]
  BY <1>5, <1>6, Zenon DEF PickedMore
<1>8. qs \in Seq(1..n)
  BY <1>3, <1>6
<1>9. Keeps(qs, k, xs, vs)
  BY <1>1, <1>2, <1>4, <1>7, <1>8 DEF Keeps
<1>10. AppendKeeps(ks, k, xs, vs)
  BY <1>6, <1>9, Zenon DEF AppendKeeps
<1>11. ASSUME xs[k] = NegInf PROVE Keeps(ks, k, xs, vs)
  <2>1. Weight(xs[k]) = 0 /\ vs[k] \in Nat
    BY <1>11 DEF Weight, Row
  <2>2. Weight(xs[k]) * vs[k] = 0
    BY <2>1
  <2>3. k - 1 \in 0..n
    BY <1>1
  <2>4. WeightTo(xs, k - 1) \in Nat /\ ValueTo(xs, vs, k - 1) \in Nat
    BY <2>3, RowGrows
  <2>5. WeightTo(xs, k) = WeightTo(xs, k - 1) /\ ValueTo(xs, vs, k) = ValueTo(xs, vs, k - 1)
    BY <1>2, <2>1, <2>2, <2>4
  <2> QED
    BY <2>5 DEF Keeps
<1> QED
  BY <1>10, <1>11

\* The keys that are kept of a whole row.
KeptThrough(W, xs, n) ==
    /\ W[0] = <<>>
    /\ \A k \in 1..n : W[k] = IF xs[k] = NegInf THEN W[k - 1] ELSE Append(W[k - 1], k)

\* The keys kept, key after key.
LEMMA KeptThroughIt ==
    ASSUME NEW xs, NEW n \in Nat, DOMAIN xs = 1..n
    PROVE  \E W : KeptThrough(W, xs, n) /\ W[n] = KeptOf(xs)
<1> DEFINE p == [kind |-> "kept", xs |-> xs]
           q == [i \in DOMAIN xs |-> i]
<1>1. \E W : Walk(W, p, <<>>, q, n) /\ W[n] = KeptOf(xs)
  BY KeptWalk
<1>2. \A t, x : Do(p, t, x) = IF xs[x] = NegInf THEN t ELSE Append(t, x)
  BY DEF Do
<1>3. \A k \in 1..n : q[k] = k
  OBVIOUS
<1> HIDE DEF p, q
<1> QED
  BY <1>1, <1>2, <1>3 DEF Walk, KeptThrough

\* What is kept of a row weighs what the row does.
LEMMA KeptIs ==
    ASSUME NEW n, NEW xs, NEW vs, Row(n, xs, vs)
    PROVE  Keeps(KeptOf(xs), n, xs, vs)
<1>1. n \in Nat /\ DOMAIN xs = 1..n
  BY DEF Row
<1>2. PICK W : KeptThrough(W, xs, n) /\ W[n] = KeptOf(xs)
  BY <1>1, KeptThroughIt
<1> DEFINE T == {k \in 0..n : Keeps(W[k], k, xs, vs)}
<1>3. 0 \in T
  <2>1. PICK e : e = <<>>
    OBVIOUS
  <2>2. e \in Seq(1..n) /\ Len(e) = 0
    BY <2>1
  <2>3. \A f : \A k \in 1..0 : Picked(f, e)[k] = 0
    OBVIOUS
  <2>4. \A f : Picked(f, e) \in [1..0 -> Nat]
    BY <2>2 DEF Picked
  <2>5. \A f : SumOf(Picked(f, e)) = 0
    BY <2>3, <2>4, TotalHolds, 0 \in Nat
  <2>6. Keeps(e, 0, xs, vs)
    BY <1>1, <2>2, <2>5, RowGrows DEF Keeps
  <2>7. W[0] = e
    BY <1>2, <2>1, Zenon DEF KeptThrough
  <2> QED
    BY <1>1, <2>6, <2>7
<1>4. ASSUME NEW k \in 1..n, k - 1 \in T PROVE k \in T
  <2>1. PICK ks : ks = W[k - 1]
    OBVIOUS
  <2>2. Keeps(ks, k - 1, xs, vs)
    BY <1>4, <2>1
  <2>3. AppendKeeps(ks, k, xs, vs) /\ (xs[k] = NegInf => Keeps(ks, k, xs, vs))
    BY <2>2, KeepsOneMore
  <2>4. W[k] = IF xs[k] = NegInf THEN ks ELSE Append(ks, k)
    BY <1>2, <2>1, Zenon DEF KeptThrough
  <2>5. Keeps(W[k], k, xs, vs)
    BY <2>3, <2>4, Zenon DEF AppendKeeps
  <2> QED
    BY <1>1, <2>5
<1> HIDE DEF T
<1>5. \A k \in 0..n : k \in T
  BY <1>1, <1>3, <1>4, Climb
<1>6. n \in T
  BY <1>1, <1>5
<1> QED
  BY <1>2, <1>6 DEF T

\* One query at a time, over the keys it has.
LEMMA LoopSoftmaxIs ==
    ASSUME NEW n, NEW xs, NEW vs, Row(n, xs, vs), NEW s0 \in Scores
    PROVE  IsAttention(LoopSoftmax(s0, xs, vs), s0, xs, vs)
<1>1. /\ n \in Nat /\ DOMAIN xs = 1..n
      /\ Weights(xs) \in [1..n -> Nat] /\ Weighing(xs, vs) \in [1..n -> Nat]
      /\ WeightedSum(xs, vs) = SumOf(Weighing(xs, vs)) /\ WeightedSum(xs, Ones(xs)) = SumOf(Weights(xs))
      /\ \A k \in 1..n : /\ Weights(xs)[k] = Weight(xs[k])
                         /\ Weighing(xs, vs)[k] = Weight(xs[k]) * vs[k]
  BY RowWeighs
<1>2. \A k \in 1..n : xs[k] \in Scores /\ vs[k] \in Nat
  BY DEF Row
<1>3. PICK kept : kept = KeptOf(xs)
  OBVIOUS
<1>4. /\ kept \in Seq(1..n)
      /\ SumOf(Picked(Weights(xs), kept)) = SumOf(Weights(xs))
      /\ SumOf(Picked(Weighing(xs, vs), kept)) = SumOf(Weighing(xs, vs))
  BY <1>1, <1>3, KeptIs, RowGrows DEF Keeps
<1>5. PICK L \in Nat : L = Len(kept) /\ kept \in [1..L -> 1..n] /\ (kept = <<>> <=> L = 0)
  <2>1. PICK L \in Nat : L = Len(kept) /\ kept \in [1..L -> 1..n]
    <3>1. PICK ks \in Seq(1..n) : ks = kept
      BY <1>4, Zenon
    <3>2. Len(ks) \in Nat /\ ks \in [1..Len(ks) -> 1..n]
      <4>1. n \in Nat
        BY <1>1
      <4> QED
        BY <4>1
    <3> QED
      BY <3>1, <3>2, Zenon
  <2>2. PICK e : e = <<>>
    OBVIOUS
  <2>3. Len(e) = 0 /\ e \in [1..0 -> 1..n]
    BY <2>2
  <2>4. ASSUME L = 0 PROVE kept = e
    <3>1. kept = [j \in 1..0 |-> kept[j]] /\ e = [j \in 1..0 |-> e[j]]
      BY <2>1, <2>3, <2>4
    <3>2. \A j \in 1..0 : FALSE
      OBVIOUS
    <3> QED
      BY <3>1, <3>2
  <2>5. kept = e => L = 0
    BY <2>1, <2>3
  <2> QED
    BY <2>1, <2>2, <2>4, <2>5, Zenon
<1> DEFINE ys == [j \in DOMAIN kept |-> xs[kept[j]]]
           us == [j \in DOMAIN kept |-> vs[kept[j]]]
<1>6. LoopSoftmax(s0, xs, vs) = IF kept = <<>> THEN <<0, 1>> ELSE CatSoftmax(s0, ys, us)
  BY <1>3, Zenon DEF LoopSoftmax, KeptOf
<1>7. Row(L, ys, us)
  BY <1>2, <1>5 DEF Row
<1>8. Weights(ys) = Picked(Weights(xs), kept) /\ Weighing(ys, us) = Picked(Weighing(xs, vs), kept)
  BY <1>1, <1>5 DEF Weights, Weighing, Picked
<1> HIDE DEF ys, us
<1>9. /\ WeightedSum(ys, us) = WeightedSum(xs, vs)
      /\ WeightedSum(ys, Ones(ys)) = WeightedSum(xs, Ones(xs))
  BY <1>1, <1>4, <1>7, <1>8, RowWeighs
<1>10. CASE kept = <<>>
  <2>1. LoopSoftmax(s0, xs, vs) = <<0, 1>> /\ L = 0
    BY <1>5, <1>6, <1>10
  <2>2. Weights(ys) \in [1..0 -> Nat] /\ Weighing(ys, us) \in [1..0 -> Nat]
    BY <1>7, <2>1, RowWeighs
  <2>3. SumOf(Weights(ys)) = 0 /\ SumOf(Weighing(ys, us)) = 0
    <3>1. PICK f \in [1..0 -> Nat], g \in [1..0 -> Nat] : f = Weights(ys) /\ g = Weighing(ys, us)
      BY <2>2
    <3>2. (\A k \in 1..0 : f[k] = 0) /\ (\A k \in 1..0 : g[k] = 0) /\ 0 \in Nat
      OBVIOUS
    <3> QED
      BY <3>1, <3>2, TotalHolds
  <2>4. WeightedSum(xs, vs) = 0 /\ WeightedSum(xs, Ones(xs)) = 0
    BY <1>7, <1>9, <2>3, RowWeighs
  <2>5. PICK y \in Nat : y = IF s0 = NegInf THEN 0 ELSE 2^s0
    <3>1. ASSUME s0 # NegInf PROVE 2^s0 \in Nat
      <4>1. s0 \in Nat
        BY <3>1, ScoresAre
      <4> QED
        BY <4>1, PowIs
    <3> QED
      BY <3>1
  <2>6. SameValue(<<0, 1>>, IF y = 0 THEN <<0, 1>> ELSE <<0, y>>)
    BY DEF SameValue
  <2> QED
    BY <2>1, <2>4, <2>5, <2>6 DEF IsAttention
<1>11. CASE kept # <<>>
  <2>1. LoopSoftmax(s0, xs, vs) = CatSoftmax(s0, ys, us) /\ L > 0
    BY <1>5, <1>6, <1>11
  <2>2. IsAttention(CatSoftmax(s0, ys, us), s0, ys, us)
    BY <1>7, <2>1, CatSoftmaxIs
  <2> QED
    BY <1>9, <2>1, <2>2 DEF IsAttention
<1> QED
  BY <1>10, <1>11

-----------------------------------------------------------------------------
(* The blockwise form. *)

\* t is what s holds from lo + 1 to hi.
IsCut(t, s, lo, hi, S) == t \in [1..(hi - lo) -> S] /\ \A k \in 1..(hi - lo) : t[k] = s[lo + k]

SubSeqCuts(s, lo, hi, S) == IsCut(SubSeq(s, lo + 1, hi), s, lo, hi, S)

\* A subsequence is a cut.
LEMMA CutIs ==
    ASSUME NEW S, NEW n \in Nat, NEW s \in [1..n -> S], NEW lo \in 0..n, NEW hi \in 0..n, lo <= hi
    PROVE  SubSeqCuts(s, lo, hi, S)
<1>1. s \in Seq(S) /\ Len(s) = n
  OBVIOUS
<1>2. PICK t : t = SubSeq(s, lo + 1, hi)
  OBVIOUS
<1>3. t = [i \in 1..(hi - lo) |-> s[lo + i]]
  <2>1. 1 + hi - (lo + 1) = hi - lo /\ \A i \in 1..(hi - lo) : i + (lo + 1) - 1 = lo + i
    OBVIOUS
  <2> QED
    BY <1>1, <1>2, <2>1
<1>4. \A i \in 1..(hi - lo) : lo + i \in 1..n
  OBVIOUS
<1>5. IsCut(t, s, lo, hi, S)
  BY <1>3, <1>4 DEF IsCut
<1> QED
  BY <1>2, <1>5, Zenon DEF SubSeqCuts

\* The sum of a cut is what it adds to the sum so far.
LEMMA CutSum ==
    ASSUME NEW n \in Nat, NEW f \in [1..n -> Nat], NEW lo \in 0..n, NEW hi \in 0..n, lo <= hi,
           NEW t, IsCut(t, f, lo, hi, Nat)
    PROVE  PartSum(f, hi) = PartSum(f, lo) + SumOf(t)
<1>1. PICK N \in Nat : N = hi - lo
  OBVIOUS
<1>2. t \in [1..N -> Nat] /\ \A k \in 1..N : t[k] = f[lo + k]
  BY <1>1 DEF IsCut
<1>3. /\ \A k \in 1..n : PartSum(f, k) = PartSum(f, k - 1) + f[k]
      /\ \A k \in 0..n : PartSum(f, k) \in Nat
  BY PartSums
<1> DEFINE g == [k \in 0..N |-> PartSum(f, lo + k) - PartSum(f, lo)]
<1>4. g[0] = 0 /\ g[N] = PartSum(f, hi) - PartSum(f, lo)
  <2>1. lo + 0 = lo /\ lo + N = hi /\ 0 \in 0..N /\ N \in 0..N
    BY <1>1
  <2>2. g[0] = PartSum(f, lo + 0) - PartSum(f, lo) /\ g[N] = PartSum(f, lo + N) - PartSum(f, lo)
    BY <2>1
  <2>3. PICK a \in Nat : a = PartSum(f, lo)
    BY <1>3
  <2> HIDE DEF g
  <2>4. PartSum(f, lo + 0) = a /\ PartSum(f, lo + N) = PartSum(f, hi)
    BY <2>1, <2>3, Zenon
  <2>5. a - a = 0
    OBVIOUS
  <2> QED
    BY <2>2, <2>3, <2>4, <2>5
<1>5. ASSUME NEW k \in 1..N PROVE g[k] = g[k - 1] + t[k]
  <2>1. /\ k \in 0..N /\ k - 1 \in 0..N /\ lo + k \in 1..n /\ lo + (k - 1) = (lo + k) - 1
        /\ lo + k \in 0..n /\ lo + (k - 1) \in 0..n
    BY <1>1
  <2>2. g[k] = PartSum(f, lo + k) - PartSum(f, lo) /\ g[k - 1] = PartSum(f, lo + (k - 1)) - PartSum(f, lo)
    BY <2>1
  <2>3. PartSum(f, lo + k) = PartSum(f, lo + (k - 1)) + f[lo + k]
    BY <1>3, <2>1
  <2>4. PICK a \in Nat, b \in Nat, y \in Nat :
           a = PartSum(f, lo + (k - 1)) /\ b = PartSum(f, lo) /\ y = f[lo + k]
    BY <1>3, <2>1
  <2> HIDE DEF g
  <2>5. t[k] = y
    BY <1>2, <2>4
  <2>6. g[k - 1] = a - b
    BY <2>2, <2>4
  <2>7. PartSum(f, lo + k) = a + y
    BY <2>3, <2>4
  <2>8. g[k] = (a + y) - b
    BY <2>2, <2>4, <2>7, Zenon
  <2>9. (a + y) - b = (a - b) + y
    OBVIOUS
  <2> QED
    BY <2>5, <2>6, <2>8, <2>9
<1>6. N \in 0..N
  OBVIOUS
<1> HIDE DEF g
<1>7. \A k \in 0..N : g[k] = PartSum(t, k)
  BY <1>2, <1>4, <1>5, SumsBy
<1>8. SumOf(t) = PartSum(t, N) /\ SumOf(t) \in Nat
  BY <1>2, PartSums, TotalIsNat
<1> QED
  BY <1>3, <1>4, <1>6, <1>7, <1>8

\* A block of keys, none of which is masked.
LEMMA BlockCarries ==
    ASSUME NEW n, NEW xs, NEW vs, Row(n, xs, vs), n > 0, \A k \in 1..n : xs[k] # NegInf,
           NEW w \in Nat, NEW a \in Nat, NEW st, Carries(st, w, a)
    PROVE  Carries(BlockStep(st, xs, vs), w + SumOf(Weights(xs)), a + SumOf(Weighing(xs, vs)))
<1>1. n \in Nat /\ xs \in [1..n -> Scores] /\ 1 \in 1..n
  <2>1. n \in Nat /\ xs \in [1..n -> Scores]
    BY DEF Row
  <2> QED
    BY <2>1
<1>2. st \in Partials /\ st.m \in Scores
  BY DEF Carries, Partials
<1>3. PICK m : m = Highest(st.m, xs)
  OBVIOUS
<1>4. m \in 0..MaxScore /\ m >= st.m /\ m \in Scores /\ m # NegInf
  <2>1. m \in Scores /\ m >= st.m /\ xs[1] <= m
    BY <1>1, <1>2, <1>3, HighestIs
  <2>2. xs[1] \in 0..MaxScore
    BY <1>1, ScoresAre
  <2> QED
    BY <2>1, <2>2, ScoresAre
<1>5. PICK rc : rc = IF st.m = NegInf THEN 0 ELSE Exp(st.m, m)
  OBVIOUS
<1>6. Times(st.l, rc) = Scale(m) * w /\ Times(st.acc, rc) = Scale(m) * a
  <2>1. CASE st.m = NegInf
    <3>1. rc = 0 /\ st.l = 0 /\ st.acc = 0 /\ w = 0 /\ a = 0
      BY <1>5, <2>1 DEF Carries
    <3>2. Times(0, 0) = 0 /\ Scale(m) * 0 = 0
      <4>1. Scale(m) \in Nat
        BY <1>4, ScoresAre
      <4> QED
        BY <4>1, ZeroTimes
    <3> QED
      BY <3>1, <3>2
  <2>2. CASE st.m # NegInf
    <3>1. st.m \in 0..MaxScore /\ st.m <= m /\ rc = Exp(st.m, m)
      BY <1>2, <1>4, <1>5, <2>2, ScoresAre
    <3>2. st.l = Scale(st.m) * w /\ st.acc = Scale(st.m) * a
      BY <2>2 DEF Carries
    <3> QED
      BY <1>4, <3>1, <3>2, TimesRescales
  <2> QED
    BY <2>1, <2>2
<1>7. PICK i \in Nat, j \in Nat : i = Scale(m) * w /\ j = Scale(m) * a
  <2>1. Scale(m) \in Nat
    BY <1>4, ScoresAre
  <2> QED
    BY <2>1, ZeroOr
<1>8. PICK s : s = [st EXCEPT !.m = m, !.l = i, !.acc = j]
  OBVIOUS
<1>9. BlockStep(st, xs, vs) = Adds(s, m, xs, vs)
  <2>1. BlockStep(st, xs, vs) =
           Adds([st EXCEPT !.m = Highest(st.m, xs),
                           !.l = Times(@, IF st.m = NegInf THEN 0 ELSE Exp(st.m, Highest(st.m, xs))),
                           !.acc = Times(@, IF st.m = NegInf THEN 0 ELSE Exp(st.m, Highest(st.m, xs)))],
                Highest(st.m, xs), xs, vs)
    BY Zenon DEF BlockStep, Adds
  <2>2. [st EXCEPT !.m = Highest(st.m, xs),
                   !.l = Times(@, IF st.m = NegInf THEN 0 ELSE Exp(st.m, Highest(st.m, xs))),
                   !.acc = Times(@, IF st.m = NegInf THEN 0 ELSE Exp(st.m, Highest(st.m, xs)))] = s
    BY <1>3, <1>5, <1>6, <1>7, <1>8
  <2> QED
    BY <1>3, <2>1, <2>2
<1>10. s \in Partials /\ s.m = m /\ s.l = i /\ s.acc = j
  BY <1>2, <1>4, <1>8 DEF Partials
<1>11. w + SumOf(Weights(xs)) > 0
  BY <1>1, RowWeighs
<1> QED
  BY <1>4, <1>7, <1>9, <1>10, <1>11, AddsCarry

\* How far the first b tiles of width w reach into n places.
TilesTo(n, w, b) == IF b * w < n THEN b * w ELSE n

\* A tile reaches from the last to its own end.
LEMMA TilesReach ==
    ASSUME NEW n \in Nat, NEW w \in Nat \ {0}, NEW b \in 1..CeilDiv(n, w)
    PROVE  /\ TilesTo(n, w, b - 1) \in 0..n /\ TilesTo(n, w, b) \in 0..n
           /\ TilesTo(n, w, b - 1) < TilesTo(n, w, b) /\ TilesTo(n, w, b - 1) = (b - 1) * w
           /\ TilesTo(n, w, b) - TilesTo(n, w, b - 1) = Least(w, n - (b - 1) * w)
<1>1. CeilDiv(n, w) \in Nat
  BY CeilDivBounds
<1>2. b - 1 \in 0..(CeilDiv(n, w) - 1) /\ b - 1 \in Nat /\ b \in Nat
  BY <1>1
<1>3. (b - 1) * w < n
  BY <1>2, TileBegins
<1>4. b * w = (b - 1) * w + w /\ (b - 1) * w \in Nat /\ b * w \in Nat
  BY <1>2
<1>5. PICK u \in Nat, v \in Nat : u = (b - 1) * w /\ v = b * w
  BY <1>4
<1>6. TilesTo(n, w, b - 1) = u /\ TilesTo(n, w, b) = (IF v < n THEN v ELSE n)
  BY <1>3, <1>5, Zenon DEF TilesTo
<1> QED
  BY <1>3, <1>4, <1>5, <1>6 DEF Least

\* The last tile ends at n.
LEMMA TilesEnd ==
    ASSUME NEW n \in Nat, NEW w \in Nat \ {0}
    PROVE  CeilDiv(n, w) \in Nat /\ TilesTo(n, w, CeilDiv(n, w)) = n /\ TilesTo(n, w, 0) = 0
<1>1. CeilDiv(n, w) \in Nat /\ n <= CeilDiv(n, w) * w
  BY CeilDivBounds
<1>2. PICK v \in Nat : v = CeilDiv(n, w) * w
  BY <1>1
<1>3. 0 * w = 0
  OBVIOUS
<1> QED
  BY <1>1, <1>2, <1>3 DEF TilesTo

\* The blocks, one after another.
BlocksThrough(W, n, xs, vs) ==
    /\ W[0] = Empty
    /\ \A b \in 1..n : W[b] = BlockStep(W[b - 1], CutOf(xs, b), CutOf(vs, b))

\* The sums, block after block.
LEMMA BlocksThroughThem ==
    ASSUME NEW xs, NEW vs, NEW n \in Nat
    PROVE  \E W : BlocksThrough(W, n, xs, vs) /\ W[n] = Blocks(Empty, n, xs, vs)
<1> DEFINE p == [kind |-> "blocks", xs |-> xs, vs |-> vs]
           q == [b \in 1..n |-> b]
<1>1. \E W : Walk(W, p, Empty, q, n) /\ W[n] = Blocks(Empty, n, xs, vs)
  BY BlocksWalk
<1>2. \A t, x : Do(p, t, x) = BlockStep(t, CutOf(xs, x), CutOf(vs, x))
  BY DEF Do
<1>3. \A k \in 1..n : q[k] = k
  OBVIOUS
<1> HIDE DEF p, q
<1> QED
  BY <1>1, <1>2, <1>3 DEF Walk, BlocksThrough

\* A cut of a row is a row, whose sums are what it adds.
PartOf(n, xs, vs, lo, hi, ys, us) ==
    /\ Row(hi - lo, ys, us) /\ hi - lo > 0
    /\ \A k \in 1..(hi - lo) : lo + k \in 1..n /\ ys[k] = xs[lo + k]
    /\ WeightTo(xs, hi) = WeightTo(xs, lo) + SumOf(Weights(ys))
    /\ ValueTo(xs, vs, hi) = ValueTo(xs, vs, lo) + SumOf(Weighing(ys, us))

\* The sums of a cut.
LEMMA CutOfRow ==
    ASSUME NEW n, NEW xs, NEW vs, Row(n, xs, vs), NEW lo \in 0..n, NEW hi \in 0..n, lo < hi,
           NEW ys, NEW us, IsCut(ys, xs, lo, hi, Scores), IsCut(us, vs, lo, hi, Nat)
    PROVE  PartOf(n, xs, vs, lo, hi, ys, us)
<1>1. /\ n \in Nat
      /\ Weights(xs) \in [1..n -> Nat] /\ Weighing(xs, vs) \in [1..n -> Nat]
      /\ \A k \in 1..n : /\ Weights(xs)[k] = Weight(xs[k])
                         /\ Weighing(xs, vs)[k] = Weight(xs[k]) * vs[k]
  BY RowWeighs
<1>2. PICK c \in Nat : c = hi - lo /\ c > 0
  BY <1>1
<1>3. \A k \in 1..c : lo + k \in 1..n
  BY <1>1, <1>2
<1>4. /\ ys \in [1..c -> Scores] /\ us \in [1..c -> Nat]
      /\ \A k \in 1..c : ys[k] = xs[lo + k] /\ us[k] = vs[lo + k]
  BY <1>2 DEF IsCut
<1>5. Row(c, ys, us)
  BY <1>4 DEF Row
<1>6. /\ Weights(ys) \in [1..c -> Nat] /\ Weighing(ys, us) \in [1..c -> Nat]
      /\ \A k \in 1..c : /\ Weights(ys)[k] = Weight(ys[k])
                         /\ Weighing(ys, us)[k] = Weight(ys[k]) * us[k]
  <2>1. DOMAIN ys = 1..c
    BY <1>4
  <2>2. \A k \in 1..c : Weights(ys)[k] = Weight(ys[k]) /\ Weighing(ys, us)[k] = Weight(ys[k]) * us[k]
    BY <2>1 DEF Weights, Weighing
  <2>3. \A k \in 1..c : ys[k] \in Scores /\ us[k] \in Nat /\ Weight(ys[k]) \in Nat
    BY <1>4, ScoresAre
  <2>4. \A k \in 1..c : Weight(ys[k]) * us[k] \in Nat
    BY <2>3, Regroup, 1 \in Nat
  <2>5. Weights(ys) \in [1..c -> Nat]
    BY <2>1, <2>3 DEF Weights
  <2>6. Weighing(ys, us) \in [1..c -> Nat]
    BY <2>1, <2>4 DEF Weighing
  <2> QED
    BY <2>2, <2>5, <2>6
<1>7. \A k \in 1..c : Weights(ys)[k] = Weights(xs)[lo + k] /\ Weighing(ys, us)[k] = Weighing(xs, vs)[lo + k]
  BY <1>1, <1>3, <1>4, <1>6
<1>8. IsCut(Weights(ys), Weights(xs), lo, hi, Nat) /\ IsCut(Weighing(ys, us), Weighing(xs, vs), lo, hi, Nat)
  BY <1>2, <1>6, <1>7 DEF IsCut
<1>9. lo <= hi
  BY <1>1
<1>10. PICK f, g, u, w :
          /\ f \in [1..n -> Nat] /\ g \in [1..n -> Nat]
          /\ f = Weights(xs) /\ g = Weighing(xs, vs) /\ u = Weights(ys) /\ w = Weighing(ys, us)
  BY <1>1
<1>11. PartSum(f, hi) = PartSum(f, lo) + SumOf(u)
  BY <1>1, <1>8, <1>9, <1>10, CutSum
<1>12. PartSum(g, hi) = PartSum(g, lo) + SumOf(w)
  BY <1>1, <1>8, <1>9, <1>10, CutSum
<1>13. WeightTo(xs, hi) = WeightTo(xs, lo) + SumOf(Weights(ys))
  BY <1>10, <1>11 DEF WeightTo
<1>14. ValueTo(xs, vs, hi) = ValueTo(xs, vs, lo) + SumOf(Weighing(ys, us))
  BY <1>10, <1>12 DEF ValueTo
<1> QED
  BY <1>2, <1>3, <1>4, <1>5, <1>13, <1>14 DEF PartOf

\* A block is a cut between two tiles' ends.
LEMMA BlockOfRow ==
    ASSUME NEW n, NEW xs, NEW vs, Row(n, xs, vs), NEW b \in 1..CeilDiv(n, Block)
    PROVE  /\ IsCut(CutOf(xs, b), xs, TilesTo(n, Block, b - 1), TilesTo(n, Block, b), Scores)
           /\ IsCut(CutOf(vs, b), vs, TilesTo(n, Block, b - 1), TilesTo(n, Block, b), Nat)
<1>1. n \in Nat /\ xs \in [1..n -> Scores] /\ vs \in [1..n -> Nat]
  BY DEF Row
<1>2. PICK lo, hi : lo = TilesTo(n, Block, b - 1) /\ hi = TilesTo(n, Block, b)
  OBVIOUS
<1>3. lo \in 0..n /\ hi \in 0..n /\ lo < hi /\ lo = (b - 1) * Block
  BY <1>1, <1>2, TilesReach, OnlineSoftmaxAssumption
<1>4. Len(xs) = n /\ Len(vs) = n
  BY <1>1
<1>5. CutOf(xs, b) = SubSeq(xs, lo + 1, hi) /\ CutOf(vs, b) = SubSeq(vs, lo + 1, hi)
  BY <1>2, <1>3, <1>4 DEF CutOf, TilesTo
<1>6. SubSeqCuts(xs, lo, hi, Scores) /\ SubSeqCuts(vs, lo, hi, Nat)
  <2>1. lo <= hi
    BY <1>1, <1>3
  <2> QED
    BY <1>1, <1>3, <2>1, CutIs
<1> QED
  BY <1>2, <1>5, <1>6, Zenon DEF SubSeqCuts

\* The blockwise form; the sink comes last.
LEMMA BlockwiseIs ==
    ASSUME NEW n, NEW xs, NEW vs, Row(n, xs, vs), n > 0, \A k \in 1..n : xs[k] # NegInf,
           NEW s0 \in 0..MaxScore
    PROVE  IsAttention(Blockwise(s0, xs, vs), s0, xs, vs)
<1>1. n \in Nat /\ Len(xs) = n /\ 1 \in 1..n
  <2>1. n \in Nat /\ xs \in [1..n -> Scores]
    BY DEF Row
  <2> QED
    BY <2>1
<1>2. PICK N \in Nat : N = CeilDiv(n, Block)
  BY <1>1, TilesEnd, OnlineSoftmaxAssumption
<1>3. PICK W : BlocksThrough(W, N, xs, vs) /\ W[N] = Blocks(Empty, N, xs, vs)
  BY BlocksThroughThem
<1> DEFINE T == {b \in 0..N : Carries(W[b], WeightTo(xs, TilesTo(n, Block, b)), ValueTo(xs, vs, TilesTo(n, Block, b)))}
<1>4. 0 \in T
  <2>1. TilesTo(n, Block, 0) = 0 /\ W[0] = Empty
    BY <1>1, <1>3, TilesEnd, OnlineSoftmaxAssumption DEF BlocksThrough
  <2>2. WeightTo(xs, 0) = 0 /\ ValueTo(xs, vs, 0) = 0
    BY RowGrows
  <2> QED
    BY <2>1, <2>2, EmptyCarries
<1>5. ASSUME NEW b \in 1..N, b - 1 \in T PROVE b \in T
  <2>1. PICK ys, us, st : ys = CutOf(xs, b) /\ us = CutOf(vs, b) /\ st = W[b - 1]
    OBVIOUS
  <2>2. PICK c \in Nat :
             /\ Row(c, ys, us) /\ c > 0 /\ \A k \in 1..c : ys[k] # NegInf
             /\ WeightTo(xs, TilesTo(n, Block, b)) = WeightTo(xs, TilesTo(n, Block, b - 1)) + SumOf(Weights(ys))
             /\ ValueTo(xs, vs, TilesTo(n, Block, b)) =
                   ValueTo(xs, vs, TilesTo(n, Block, b - 1)) + SumOf(Weighing(ys, us))
    <3>1. PICK lo, hi : lo = TilesTo(n, Block, b - 1) /\ hi = TilesTo(n, Block, b)
      OBVIOUS
    <3>2. lo \in 0..n /\ hi \in 0..n /\ lo < hi
      BY <1>1, <1>2, <3>1, TilesReach, OnlineSoftmaxAssumption
    <3>3. IsCut(ys, xs, lo, hi, Scores) /\ IsCut(us, vs, lo, hi, Nat)
      BY <1>2, <2>1, <3>1, BlockOfRow
    <3>4. PartOf(n, xs, vs, lo, hi, ys, us)
      BY <3>2, <3>3, CutOfRow
    <3>5. PICK c \in Nat : c = hi - lo
      BY <1>1, <3>2
    <3>6. \A k \in 1..c : ys[k] # NegInf
      BY <3>4, <3>5 DEF PartOf
    <3> QED
      BY <3>1, <3>4, <3>5, <3>6 DEF PartOf
  <2>3. TilesTo(n, Block, b - 1) \in 0..n
    BY <1>1, <1>2, TilesReach, OnlineSoftmaxAssumption
  <2>4. PICK w \in Nat, a \in Nat :
           w = WeightTo(xs, TilesTo(n, Block, b - 1)) /\ a = ValueTo(xs, vs, TilesTo(n, Block, b - 1))
    BY <2>3, RowGrows
  <2>5. Carries(st, w, a)
    BY <1>5, <2>1, <2>4
  <2>6. Carries(BlockStep(st, ys, us), w + SumOf(Weights(ys)), a + SumOf(Weighing(ys, us)))
    BY <2>2, <2>5, BlockCarries
  <2>7. W[b] = BlockStep(st, ys, us)
    BY <1>3, <2>1 DEF BlocksThrough
  <2> QED
    BY <2>2, <2>4, <2>6, <2>7
<1> HIDE DEF T
<1>6. \A b \in 0..N : b \in T
  BY <1>4, <1>5, Climb
<1>7. N \in T
  BY <1>6
<1>8. PICK st : st = W[N]
  OBVIOUS
<1>9. Carries(st, SumOf(Weights(xs)), SumOf(Weighing(xs, vs)))
  BY <1>1, <1>2, <1>7, <1>8, TilesEnd, OnlineSoftmaxAssumption, RowGrows DEF T
<1>10. SumOf(Weights(xs)) \in Nat /\ SumOf(Weights(xs)) > 0
  BY <1>1, RowWeighs
<1>11. /\ st.m # NegInf /\ st.m \in 0..MaxScore
       /\ st.l = Scale(st.m) * SumOf(Weights(xs)) /\ st.acc = Scale(st.m) * SumOf(Weighing(xs, vs))
  BY <1>9, <1>10, ScoresAre DEF Carries, Partials
<1>12. s0 \in Scores /\ Weight(s0) \in Nat
  BY ScoresAre
<1>13. Exp(s0, st.m) = Scale(st.m) * Weight(s0)
  BY <1>11, <1>12, ExpWeighs
<1>14. st.l + Exp(s0, st.m) = Scale(st.m) * (SumOf(Weights(xs)) + Weight(s0))
  <2>1. PICK c \in Nat, u \in Nat, y \in Nat : c = Scale(st.m) /\ u = SumOf(Weights(xs)) /\ y = Weight(s0)
    BY <1>10, <1>11, <1>12, ScoresAre
  <2> QED
    BY <1>11, <1>13, <2>1, Grows
<1>15. Blockwise(s0, xs, vs) = <<st.acc, st.l + Exp(s0, st.m)>>
  <2>1. Blockwise(s0, xs, vs) =
          <<Blocks(Empty, (Len(xs) + Block - 1) \div Block, xs, vs).acc,
            Blocks(Empty, (Len(xs) + Block - 1) \div Block, xs, vs).l
              + Exp(s0, Blocks(Empty, (Len(xs) + Block - 1) \div Block, xs, vs).m)>>
    BY Zenon DEF Blockwise, Blocks, CutOf
  <2>2. (Len(xs) + Block - 1) \div Block = N
    BY <1>1, <1>2 DEF CeilDiv
  <2> QED
    BY <1>3, <1>8, <2>1, <2>2
<1>16. Scale(st.m) \in Nat \ {0} /\ SumOf(Weights(xs)) + Weight(s0) > 0
  BY <1>10, <1>11, <1>12, ScoresAre
<1> QED
  BY <1>11, <1>12, <1>14, <1>15, <1>16, AttentionIs

-----------------------------------------------------------------------------
(* The pool of a window. *)

\* Sums that carry a window are its softmax.
LEMMA CarriedPool ==
    ASSUME NEW n, NEW xs, NEW vs, Row(n, xs, vs), NEW st,
           Carries(st, SumOf(Weights(xs)), SumOf(Weighing(xs, vs)))
    PROVE  /\ st.tl = 0 => IsPool(Finish(st), xs, vs)
           /\ IsPool(FinishClamped(st), xs, vs)
<1>1. /\ WeightedSum(xs, vs) = SumOf(Weighing(xs, vs)) /\ WeightedSum(xs, Ones(xs)) = SumOf(Weights(xs))
      /\ SumOf(Weights(xs)) \in Nat /\ SumOf(Weighing(xs, vs)) \in Nat
  BY RowWeighs
<1>2. PICK w \in Nat, a \in Nat : w = SumOf(Weights(xs)) /\ a = SumOf(Weighing(xs, vs))
  BY <1>1
<1>3. ASSUME NEW p
      PROVE  IsPool(p, xs, vs) <=> SameValue(p, IF w = 0 THEN <<0, 1>> ELSE <<a, w>>)
  BY <1>1, <1>2 DEF IsPool
<1>4. CASE st.m = NegInf
  <2>1. w = 0 /\ st.l = 0
    BY <1>2, <1>4 DEF Carries
  <2>2. st.tl = 0 => Finish(st) = <<0, 1>>
    BY <2>1 DEF Finish, HasWeight
  <2>3. FinishClamped(st) = <<0, 1>>
    BY <1>4 DEF FinishClamped
  <2>4. SameValue(<<0, 1>>, <<0, 1>>)
    BY DEF SameValue
  <2> QED
    BY <1>3, <2>1, <2>2, <2>3, <2>4
<1>5. CASE st.m # NegInf
  <2>1. w > 0 /\ st.l = Scale(st.m) * w /\ st.acc = Scale(st.m) * a /\ st.m \in Scores
    BY <1>2, <1>5 DEF Carries, Partials
  <2>2. PICK c \in Nat \ {0} : c = Scale(st.m)
    BY <1>5, <2>1, ScoresAre
  <2>3. st.l = c * w /\ st.acc = c * a /\ c * w > 0 /\ c * w \in Nat
    BY <2>1, <2>2, ZeroOr
  <2>4. Finish(st) = <<c * a, c * w>> /\ FinishClamped(st) = <<c * a, c * w>>
    BY <1>5, <2>3 DEF Finish, FinishClamped, HasWeight, Quotient
  <2>5. (c * a) * w = a * (c * w)
    OBVIOUS
  <2>6. SameValue(<<c * a, c * w>>, <<a, w>>)
    BY <2>1, <2>3, <2>5 DEF SameValue
  <2> QED
    BY <1>3, <2>1, <2>4, <2>6
<1> QED
  BY <1>4, <1>5

\* What a lane of a pooling kernel leaves, finished.
PoolResult(c, st) == IF c.kernel = "pool_fp32intrin" THEN FinishClamped(st) ELSE Finish(st)

\* Every form of the pool leaves the softmax of its window.
LEMMA PoolResultIs ==
    ASSUME NEW n, NEW xs, NEW vs, Row(n, xs, vs), NEW c, c.kernel \in PoolKernels, NEW vector
    PROVE  IsPool(PoolResult(c, PoolLane(c, Empty, xs, vs, vector)), xs, vs)
<1>1. PICK st : st = PoolLane(c, Empty, xs, vs, vector)
  OBVIOUS
<1>2. /\ Carries(st, SumOf(Weights(xs)), SumOf(Weighing(xs, vs)))
      /\ c.kernel # "pool_fp32intrin" => st.tl = 0
  <2>1. CASE c.kernel = "pool_multipass"
    BY <1>1, <2>1, TwoPassCarries DEF PoolLane
  <2>2. CASE c.kernel = "pool_fp32intrin"
    <3>1. st = StreamingClamped(Empty, xs, vs) \/ st = Streaming(Empty, xs, vs)
      BY <1>1, <2>2 DEF PoolLane
    <3> QED
      BY <2>2, <3>1, StreamingClampedCarries, StreamingCarries
  <2>3. CASE c.kernel \in {"pool", "pool_vexp"}
    <3>1. st = Streaming(Empty, xs, vs)
      BY <1>1, <2>3 DEF PoolLane, StreamingVector
    <3> QED
      BY <3>1, StreamingCarries
  <2> QED
    BY <2>1, <2>2, <2>3 DEF PoolKernels
<1> QED
  BY <1>1, <1>2, CarriedPool DEF PoolResult

-----------------------------------------------------------------------------
(* The combine kernel. *)

\* What the combine kernel adds for a cluster, and for both; a tile begins at h0.
Share(c, m, k, h) == Pre(c, m, k) * Xflat(c, m, k * c.d + h)

Combined(c, m, h) ==
    MapThenSumSet(LAMBDA k : Pre(c, m, k) * Xflat(c, m, k * c.d + h), 0..(Clusters - 1))

CombinedFrom(c, m, h0, j) ==
    MapThenSumSet(LAMBDA k : Pre(c, m, k) * Xflat(c, m, k * c.d + h0 + j), 0..(Clusters - 1))

\* Two clusters are added up.
LEMMA CombinedIs ==
    ASSUME NEW c, NEW m, NEW h,
           \A k \in 0..1 : Share(c, m, k, h) \in Nat
    PROVE  Combined(c, m, h) = Share(c, m, 0, h) + Share(c, m, 1, h)
<1> DEFINE op(k) == Pre(c, m, k) * Xflat(c, m, k * c.d + h)
           S == 0..(Clusters - 1)
           v == [i \in 0..2 |-> IF i <= 1 THEN Share(c, m, i, h) ELSE 0]
           Rec(g) == g = [T \in SUBSET S |->
                             IF T = {} THEN 0
                             ELSE LET x == CHOOSE x \in T : TRUE IN op(x) + g[T \ {x}]]
           f == CHOOSE g : Rec(g)
<1>1. S = 0..1
  BY DEF Clusters
<1>2. v \in [0..2 -> Nat] /\ S \in SUBSET (0..2) /\ v[0] = Share(c, m, 0, h) /\ v[1] = Share(c, m, 1, h)
  BY <1>1
<1>3. \A x \in S : v[x] = op(x)
  BY <1>1 DEF Share
<1> HIDE DEF v, S, op
<1>4. ASSUME NEW g PROVE Rec(g) <=> TailSums(g, v, S)
  <2> DEFINE some(T) == CHOOSE x \in T : TRUE
             byOp == [T \in SUBSET S |-> IF T = {} THEN 0 ELSE op(some(T)) + g[T \ {some(T)}]]
             byValue == [T \in SUBSET S |-> IF T = {} THEN 0 ELSE v[some(T)] + g[T \ {some(T)}]]
  <2>1. ASSUME NEW T \in SUBSET S, T # {} PROVE op(some(T)) = v[some(T)]
    <3>1. some(T) \in T
      BY <2>1
    <3>2. some(T) \in S
      BY <3>1
    <3> HIDE DEF some
    <3> QED
      BY <1>3, <3>2
  <2>2. byOp = byValue
    <3> HIDE DEF some
    <3> QED
      BY <2>1
  <2>3. Rec(g) <=> g = byOp
    OBVIOUS
  <2>4. TailSums(g, v, S) <=> g = byValue
    BY DEF TailSums
  <2> QED
    BY <2>2, <2>3, <2>4, Zenon
<1>5. TailSums(f, v, S)
  <2>1. \E g : Rec(g)
    <3>1. \E g : TailSums(g, v, S)
      BY <1>2, TailSumIs
    <3> HIDE DEF Rec
    <3> QED
      BY <1>4, <3>1
  <2>2. Rec(f)
    BY <2>1
  <2> QED
    BY <1>4, <2>2
<1>6. Combined(c, m, h) = f[S]
  BY Zenon DEF Combined, MapThenSumSet, MapThenFoldSet, S, op
<1>7. f[S] = Parts(v, S)
  BY <1>2, <1>5, TailSumIs
<1>8. Parts(v, S) = v[0] + v[1] + 0
  BY <1>1 DEF Parts, Part
<1>9. v[0] \in Nat /\ v[1] \in Nat
  BY <1>2
<1> QED
  BY <1>2, <1>6, <1>7, <1>8, <1>9

\* The same of a place in a tile.
LEMMA CombinedFromIs ==
    ASSUME NEW c, NEW m, NEW h0, NEW j,
           \A k \in 0..1 : Share(c, m, k, h0 + j) \in Nat,
           \A k \in 0..1 : k * c.d + h0 + j = k * c.d + (h0 + j)
    PROVE  CombinedFrom(c, m, h0, j) = Share(c, m, 0, h0 + j) + Share(c, m, 1, h0 + j)
<1> DEFINE op(k) == Pre(c, m, k) * Xflat(c, m, k * c.d + h0 + j)
           S == 0..(Clusters - 1)
           v == [i \in 0..2 |-> IF i <= 1 THEN Share(c, m, i, h0 + j) ELSE 0]
           Rec(g) == g = [T \in SUBSET S |->
                             IF T = {} THEN 0
                             ELSE LET x == CHOOSE x \in T : TRUE IN op(x) + g[T \ {x}]]
           f == CHOOSE g : Rec(g)
<1>1. S = 0..1
  BY DEF Clusters
<1>2. v \in [0..2 -> Nat] /\ S \in SUBSET (0..2) /\ v[0] = Share(c, m, 0, h0 + j) /\ v[1] = Share(c, m, 1, h0 + j)
  BY <1>1
<1>3. \A x \in S : v[x] = op(x)
  BY <1>1 DEF Share
<1> HIDE DEF v, S, op
<1>4. ASSUME NEW g PROVE Rec(g) <=> TailSums(g, v, S)
  <2> DEFINE some(T) == CHOOSE x \in T : TRUE
             byOp == [T \in SUBSET S |-> IF T = {} THEN 0 ELSE op(some(T)) + g[T \ {some(T)}]]
             byValue == [T \in SUBSET S |-> IF T = {} THEN 0 ELSE v[some(T)] + g[T \ {some(T)}]]
  <2>1. ASSUME NEW T \in SUBSET S, T # {} PROVE op(some(T)) = v[some(T)]
    <3>1. some(T) \in T
      BY <2>1
    <3>2. some(T) \in S
      BY <3>1
    <3> HIDE DEF some
    <3> QED
      BY <1>3, <3>2
  <2>2. byOp = byValue
    <3> HIDE DEF some
    <3> QED
      BY <2>1
  <2>3. Rec(g) <=> g = byOp
    OBVIOUS
  <2>4. TailSums(g, v, S) <=> g = byValue
    BY DEF TailSums
  <2> QED
    BY <2>2, <2>3, <2>4, Zenon
<1>5. TailSums(f, v, S)
  <2>1. \E g : Rec(g)
    <3>1. \E g : TailSums(g, v, S)
      BY <1>2, TailSumIs
    <3> HIDE DEF Rec
    <3> QED
      BY <1>4, <3>1
  <2>2. Rec(f)
    BY <2>1
  <2> QED
    BY <1>4, <2>2
<1>6. CombinedFrom(c, m, h0, j) = f[S]
  BY Zenon DEF CombinedFrom, MapThenSumSet, MapThenFoldSet, S, op
<1>7. f[S] = Parts(v, S)
  BY <1>2, <1>5, TailSumIs
<1>8. Parts(v, S) = v[0] + v[1] + 0
  BY <1>1 DEF Parts, Part
<1>9. v[0] \in Nat /\ v[1] \in Nat
  BY <1>2
<1> QED
  BY <1>2, <1>6, <1>7, <1>8, <1>9

\* An element of the seed.
LEMMA SeedIn ==
    ASSUME NEW c, NEW S, c.seed \in Windows(S), NEW i \in Nat
    PROVE  Seed(c, i) \in S
<1>1. WindowLen \in Nat \ {0}
  BY ParallelKernelsAssumption
<1>2. i % WindowLen \in 0..(WindowLen - 1)
  BY <1>1, DivMod
<1>3. (i % WindowLen) + 1 \in 1..WindowLen
  BY <1>1, <1>2
<1> QED
  BY <1>3 DEF Windows, Seed

\* A place summed by a tile is the place summed.
LEMMA TileSums ==
    ASSUME NEW c, c.seed \in Windows(0..1), c.d \in Nat, NEW m \in Nat, NEW h0 \in Nat, NEW j \in Nat
    PROVE  CombinedFrom(c, m, h0, j) = Combined(c, m, h0 + j) /\ Combined(c, m, h0 + j) \in Nat
<1>1. PICK d \in Nat : d = c.d
  OBVIOUS
<1>2. ASSUME NEW k \in 0..1 PROVE Share(c, m, k, h0 + j) \in Nat
  <2>1. Seed(c, m + k) \in 0..1
    <3>1. m + k \in Nat
      OBVIOUS
    <3> QED
      BY <3>1, SeedIn
  <2>2. Pre(c, m, k) \in Nat
    BY <2>1 DEF Pre
  <2>3. k * d + (h0 + j) \in Nat /\ m * Clusters * d \in Nat
    BY DEF Clusters
  <2>4. Xflat(c, m, k * d + (h0 + j)) \in Nat
    <3>1. PICK u \in Nat, v \in Nat : u = k * d + (h0 + j) /\ v = m * Clusters * d
      BY <2>3
    <3>2. Xflat(c, m, u) = 1 + v + u
      BY <1>1, <3>1 DEF Xflat
    <3>3. 1 + v + u \in Nat
      OBVIOUS
    <3> QED
      BY <3>1, <3>2, <3>3
  <2>5. PICK a \in Nat, b \in Nat : a = Pre(c, m, k) /\ b = Xflat(c, m, k * d + (h0 + j))
    BY <2>2, <2>4
  <2>6. a * b \in Nat
    OBVIOUS
  <2> QED
    BY <1>1, <2>5, <2>6 DEF Share
<1>3. \A k \in 0..1 : k * c.d + h0 + j = k * c.d + (h0 + j)
  <2>1. \A k \in 0..1 : k * d \in Nat
    OBVIOUS
  <2> QED
    BY <1>1, <2>1
<1>4. CombinedFrom(c, m, h0, j) = Share(c, m, 0, h0 + j) + Share(c, m, 1, h0 + j)
  BY <1>2, <1>3, CombinedFromIs
<1>5. Combined(c, m, h0 + j) = Share(c, m, 0, h0 + j) + Share(c, m, 1, h0 + j)
  BY <1>2, CombinedIs
<1>6. Share(c, m, 0, h0 + j) + Share(c, m, 1, h0 + j) \in Nat
  BY <1>2
<1> QED
  BY <1>4, <1>5, <1>6

\* The row so far: its first elements, each the sum over the clusters.
RowSummed(y, c, m, n) == DOMAIN y = 0..(n - 1) /\ \A h \in 0..(n - 1) : y[h] = Combined(c, m, h)

\* A tile adds its places to the row.
LEMMA TileOfRow ==
    ASSUME NEW c, c.seed \in Windows(0..1), c.d \in Nat \ {0}, NEW m \in Nat,
           NEW b \in 1..CeilDiv(c.d, Tile), NEW st, RowSummed(st.y, c, m, TilesTo(c.d, Tile, b - 1))
    PROVE  RowSummed(CombineNext(c, m, st, b).y, c, m, TilesTo(c.d, Tile, b))
<1>1. PICK d \in Nat \ {0} : d = c.d
  OBVIOUS
<1>2. Tile \in Nat \ {0}
  BY ParallelKernelsAssumption
<1>3. PICK h0, h1 : h0 = TilesTo(d, Tile, b - 1) /\ h1 = TilesTo(d, Tile, b)
  OBVIOUS
<1>4. h0 \in Nat /\ h1 \in Nat /\ h0 < h1 /\ h0 = (b - 1) * Tile /\ Least(Tile, d - h0) = h1 - h0
  <2>1. /\ h0 \in 0..d /\ h1 \in 0..d /\ h0 < h1 /\ h0 = (b - 1) * Tile
        /\ h1 - h0 = Least(Tile, d - (b - 1) * Tile)
    BY <1>1, <1>2, <1>3, TilesReach
  <2>2. h0 \in Nat /\ h1 \in Nat
    BY <2>1
  <2> QED
    BY <2>1, <2>2
<1> DEFINE Acc(u, w) == [i \in 0..(w - 1) |-> CombineStart(st.acc, i, u) + CombinedFrom(c, m, u, i)]
           Y(u, w) == [h \in DOMAIN st.y \cup {u + i : i \in DOMAIN Acc(u, w)} |->
                         IF h >= u THEN Acc(u, w)[h - u] ELSE st.y[h]]
           acc == Acc(h0, h1 - h0)
           y1 == Y(h0, h1 - h0)
<1>5. CombineNext(c, m, st, b).y = y1
  <2>1. (b - 1) * Tile = h0 /\ Least(Tile, c.d - h0) = h1 - h0
    BY <1>1, <1>4
  <2>2. CombineNext(c, m, st, b).y = Y((b - 1) * Tile, Least(Tile, c.d - (b - 1) * Tile))
    BY DEF CombineNext, CombinedFrom
  <2> HIDE DEF Y
  <2> QED
    BY <2>1, <2>2, Zenon
<1>6. \A i \in 0..(h1 - h0 - 1) : acc[i] = Combined(c, m, h0 + i)
  <2> SUFFICES ASSUME NEW i \in 0..(h1 - h0 - 1) PROVE acc[i] = Combined(c, m, h0 + i)
    OBVIOUS
  <2>1. i \in Nat /\ c.d \in Nat
    BY <1>4
  <2>2. CombinedFrom(c, m, h0, i) = Combined(c, m, h0 + i) /\ Combined(c, m, h0 + i) \in Nat
    <3> HIDE DEF acc
    <3>1. h0 \in Nat /\ c.d \in Nat /\ i \in Nat
      BY <1>4, <2>1
    <3> QED
      BY <3>1, TileSums, Zenon
  <2>3. acc[i] = 0 + CombinedFrom(c, m, h0, i)
    BY DEF CombineStart
  <2> HIDE DEF acc
  <2> QED
    BY <2>2, <2>3
<1>7. DOMAIN acc = 0..(h1 - h0 - 1)
  OBVIOUS
<1>13. y1 = [h \in DOMAIN st.y \cup {h0 + i : i \in DOMAIN acc} |->
                IF h >= h0 THEN acc[h - h0] ELSE st.y[h]]
  BY Zenon
<1> HIDE DEF acc, y1, Acc, Y
<1>8. DOMAIN st.y = 0..(h0 - 1) /\ \A h \in 0..(h0 - 1) : st.y[h] = Combined(c, m, h)
  BY <1>1, <1>3 DEF RowSummed
<1>9. DOMAIN st.y \cup {h0 + i : i \in DOMAIN acc} = 0..(h1 - 1)
  <2>1. \A h \in 0..(h1 - 1) : h < h0 \/ (h - h0 \in 0..(h1 - h0 - 1) /\ h = h0 + (h - h0))
    BY <1>4
  <2>2. \A i \in 0..(h1 - h0 - 1) : h0 + i \in 0..(h1 - 1)
    BY <1>4
  <2>3. \A h \in 0..(h0 - 1) : h \in 0..(h1 - 1)
    BY <1>4
  <2>4. \A h \in 0..(h1 - 1) : h < h0 => h \in 0..(h0 - 1)
    BY <1>4
  <2> QED
    BY <1>7, <1>8, <2>1, <2>2, <2>3, <2>4
<1>10. DOMAIN y1 = 0..(h1 - 1)
  BY <1>9, <1>13
<1>11. ASSUME NEW h \in 0..(h1 - 1) PROVE y1[h] = Combined(c, m, h)
  <2>1. y1[h] = IF h >= h0 THEN acc[h - h0] ELSE st.y[h]
    BY <1>9, <1>13
  <2>2. CASE h >= h0
    <3>1. h - h0 \in 0..(h1 - h0 - 1) /\ h0 + (h - h0) = h
      BY <1>4, <2>2
    <3> QED
      BY <1>6, <2>1, <2>2, <3>1
  <2>3. CASE ~(h >= h0)
    <3>1. h \in 0..(h0 - 1)
      BY <1>4, <2>3
    <3> QED
      BY <1>8, <2>1, <2>3, <3>1
  <2> QED
    BY <2>2, <2>3
<1>12. RowSummed(y1, c, m, h1)
  BY <1>10, <1>11 DEF RowSummed
<1> QED
  BY <1>1, <1>3, <1>5, <1>12

\* A row, tile after tile.
TilesThrough(W, n, c, m, s) == W[0] = s /\ \A b \in 1..n : W[b] = CombineNext(c, m, W[b - 1], b)

\* The tiles, one after another.
LEMMA TilesThroughThem ==
    ASSUME NEW c, NEW m, NEW s, NEW n \in Nat
    PROVE  \E W : TilesThrough(W, n, c, m, s) /\ W[n] = CombineTiles(s, n, c, m)
<1> DEFINE p == [kind |-> "combine", c |-> c, row |-> m]
           q == [b \in 1..n |-> b]
<1>1. \E W : Walk(W, p, s, q, n) /\ W[n] = CombineTiles(s, n, c, m)
  BY CombineWalk
<1>2. \A t, x : Do(p, t, x) = CombineNext(c, m, t, x)
  BY DEF Do
<1>3. \A k \in 1..n : q[k] = k
  OBVIOUS
<1> HIDE DEF p, q
<1> QED
  BY <1>1, <1>2, <1>3 DEF Walk, TilesThrough

\* A row is complete after its last tile, whatever acc held before.
LEMMA CombineRowIs ==
    ASSUME NEW c, c.seed \in Windows(0..1), c.d \in Nat \ {0}, NEW m \in Nat, NEW s
    PROVE  RowSummed(CombineRow(c, m, s).y, c, m, c.d)
<1>1. Tile \in Nat \ {0}
  BY ParallelKernelsAssumption
<1>2. PICK N \in Nat : N = CeilDiv(c.d, Tile)
  BY <1>1, CeilDivBounds
<1>3. /\ TilesTo(c.d, Tile, N) = c.d /\ TilesTo(c.d, Tile, 0) = 0
  <2>1. c.d \in Nat
    OBVIOUS
  <2> QED
    BY <1>1, <1>2, <2>1, TilesEnd
<1>4. PICK start : start = [acc |-> s, y |-> <<>>]
  OBVIOUS
<1>5. PICK W : TilesThrough(W, N, c, m, start) /\ W[N] = CombineTiles(start, N, c, m)
  BY TilesThroughThem
<1> DEFINE T == {b \in 0..N : RowSummed(W[b].y, c, m, TilesTo(c.d, Tile, b))}
<1>6. 0 \in T
  <2>1. PICK e : e = <<>>
    OBVIOUS
  <2>2. DOMAIN e = 0..(0 - 1)
    BY <2>1
  <2>3. W[0].y = e
    BY <1>4, <1>5, <2>1 DEF TilesThrough
  <2>4. RowSummed(e, c, m, 0)
    BY <2>2 DEF RowSummed
  <2> QED
    BY <1>3, <2>3, <2>4
<1>7. ASSUME NEW b \in 1..N, b - 1 \in T PROVE b \in T
  <2>1. PICK st : st = W[b - 1]
    OBVIOUS
  <2>2. RowSummed(st.y, c, m, TilesTo(c.d, Tile, b - 1))
    BY <1>7, <2>1
  <2>3. RowSummed(CombineNext(c, m, st, b).y, c, m, TilesTo(c.d, Tile, b))
    BY <1>2, <2>2, TileOfRow
  <2>4. W[b] = CombineNext(c, m, st, b)
    BY <1>5, <2>1 DEF TilesThrough
  <2> QED
    BY <2>3, <2>4
<1> HIDE DEF T
<1>8. \A b \in 0..N : b \in T
  BY <1>6, <1>7, Climb
<1>9. N \in T
  BY <1>8
<1>10. RowSummed(W[N].y, c, m, c.d)
  BY <1>3, <1>9 DEF T
<1>11. CombineRow(c, m, s) = CombineTiles([acc |-> s, y |-> <<>>], CeilDiv(c.d, Tile), c, m)
  BY Zenon DEF CombineRow, CombineTiles, CombineNext
<1> QED
  BY <1>2, <1>4, <1>5, <1>10, <1>11

-----------------------------------------------------------------------------
(* The cells of the pools, of attention and of combine. *)

\* The inputs of a call.
LEMMA InputsAre ==
    ASSUME NEW c \in Calls
    PROVE  /\ c.kernel \in PoolKernels => c.seed \in Windows(Scores)
           /\ c.kernel = "combine" => c.seed \in Windows(0..1)
           /\ c.kernel \in AttendKernels => c.seed \in Windows(0..MaxScore) /\ c.sink \in 0..MaxScore
           /\ c.kernel = "attend_masked" => c.seed \in Windows(Scores) /\ c.sink \in 0..MaxScore
           /\ c.kernel \in MlaForms => c.seed \in Windows(Scores) /\ c.sink \in Scores
<1>1. "pool" \in PoolKernels
  BY DEF PoolKernels
<1>2. \/ c.kernel \in PoolKernels /\ c.seed \in Windows(Scores)
      \/ c.kernel = "combine" /\ c.seed \in Windows(0..1)
      \/ c.kernel \in AttendKernels /\ c.seed \in Windows(0..MaxScore) /\ c.sink \in 0..MaxScore
      \/ c.kernel = "attend_masked" /\ c.seed \in Windows(Scores) /\ c.sink \in 0..MaxScore
      \/ c.kernel \in MlaForms /\ c.seed \in Windows(Scores) /\ c.sink \in Scores
      \/ c.kernel \in LogitsKernels \cup RowKernels \cup TokenForms \cup {"key_write"}
  BY <1>1 DEF Calls, Call, TorchCall, RowKernels
<1>3. /\ "combine" \notin PoolKernels \cup AttendKernels \cup {"attend_masked"} \cup MlaForms
      /\ "attend_masked" \notin PoolKernels \cup AttendKernels \cup MlaForms
      /\ \A k \in AttendKernels : k \notin MlaForms /\ k \notin PoolKernels
      /\ \A k \in MlaForms : k \notin PoolKernels
  BY DEF PoolKernels, AttendKernels, MlaForms
<1>4. \A k \in LogitsKernels \cup RowKernels \cup TokenForms \cup {"key_write"} :
        k \notin PoolKernels \cup AttendKernels \cup {"combine", "attend_masked"} \cup MlaForms
  BY DEF PoolKernels, AttendKernels, MlaForms, LogitsKernels, RowKernels, TokenForms
<1> QED
  BY <1>2, <1>3, <1>4

\* Where the cells of a task lie, if a row of the output has c.d of them.
LEMMA CellOfTask ==
    ASSUME NEW c \in Calls, c.kernel \notin RowKernels,
           NEW t \in 0..(Tasks(c, LastLoop(c)) - 1), NEW i \in TaskCells(c, t)
    PROVE  /\ i \in Nat /\ c.n \in Nat \ {0} /\ c.d \in Nat \ {0}
           /\ i \div c.d \in Nat /\ i % c.d \in 0..(c.d - 1) /\ i = (i \div c.d) * c.d + (i % c.d)
<1>1. c.n \in Nat \ {0} /\ RowCells(c) = c.d /\ c.d \in Nat \ {0}
  <2>1. c.n \in Nat \ {0} /\ RowCells(c) \in Nat \ {0}
    BY CallShape
  <2>2. RowCells(c) = c.d
    BY DEF RowCells
  <2> QED BY <2>1, <2>2
<1>2. i \in Cells(c)
  BY CellsOfTasks
<1>3. Cells(c) = 0..(c.n * c.d - 1)
  BY <1>1, TasksAreTiles
<1>4. i \in Nat
  BY <1>2, <1>3
<1> QED
  BY <1>1, <1>4, DivMod, Zenon

\* A window of the seed, and its values.
LEMMA WindowIsRow ==
    ASSUME NEW c, c.seed \in Windows(Scores), NEW at \in Nat, NEW base \in Nat, NEW xs, NEW vs,
           xs = [r \in 1..WindowLen |-> Seed(c, at + r)],
           vs = [r \in 1..WindowLen |-> 1 + base + r]
    PROVE  Row(WindowLen, xs, vs)
<1>1. WindowLen \in Nat \ {0}
  BY ParallelKernelsAssumption
<1>2. \A r \in 1..WindowLen : at + r \in Nat /\ 1 + base + r \in Nat
  BY <1>1
<1>3. \A r \in 1..WindowLen : Seed(c, at + r) \in Scores
  BY <1>2, SeedIn
<1> QED
  BY <1>1, <1>2, <1>3 DEF Row

\* A product of natural numbers is one.
LEMMA ProductIsNat ==
    ASSUME NEW a \in Nat, NEW b \in Nat
    PROVE  a * b \in Nat
  OBVIOUS

\* What a task of a pooling kernel writes to a cell.
LEMMA PoolOfTask ==
    ASSUME NEW c \in Calls, c.kernel \in PoolKernels, NEW t \in 0..(Tasks(c, LastLoop(c)) - 1), NEW s,
           NEW r \in Results(c, LastLoop(c), t, s), NEW i \in TaskCells(c, t)
    PROVE  IsPool(r.cells[i], PoolScores(c, i \div c.d, i % c.d), PoolValues(c, i \div c.d, i % c.d))
<1>1. /\ c.kernel \notin AttendKernels \cup {"attend_masked"} \cup MlaForms /\ c.kernel \notin RowKernels
      /\ c.kernel # "topk" /\ c.kernel # "combine" /\ c.kernel \notin TokenForms \cup {"key_write"}
      /\ c.kernel # "sinkhorn" /\ c.kernel \notin LogitsKernels
  BY KindsApart
<1>2. r = PoolTask(c, t, s)
  BY <1>1 DEF Results
<1>3. PICK n \in Nat, h \in Nat, d \in Nat \ {0}, w \in Nat \ {0} :
        /\ n = i \div c.d /\ h = i % c.d /\ d = c.d /\ w = PoolTile(c)
        /\ i \in Nat /\ h \in 0..(d - 1) /\ i = n * d + h
  <2>1. /\ i \in Nat /\ c.d \in Nat \ {0} /\ i \div c.d \in Nat /\ i % c.d \in 0..(c.d - 1)
        /\ i = (i \div c.d) * c.d + (i % c.d)
    BY <1>1, CellOfTask
  <2>2. PoolTile(c) \in Nat \ {0}
    BY WidthIsPositive DEF TaskWidth
  <2>3. i % c.d \in Nat
    BY <2>1
  <2> QED BY <2>1, <2>2, <2>3
<1>4. t \in Nat
  OBVIOUS
<1>5. t \div PoolTiles(c) = n /\ t % PoolTiles(c) = h \div w
  <2>1. RowCells(c) = d /\ TaskWidth(c) = w
    BY <1>1, <1>3 DEF RowCells, TaskWidth
  <2>2. i \in TileCells(d, w, t)
    BY <2>1 DEF TaskCells
  <2>3. i \div d = t \div CeilDiv(d, w) /\ (i % d) \div w = t % CeilDiv(d, w)
    <3>1. d \in Nat \ {0} /\ w \in Nat \ {0}
      BY <1>3
    <3>2. i \div d = t \div CeilDiv(d, w)
      BY <1>4, <2>2, <3>1, TileCell
    <3>3. (i % d) \div w = t % CeilDiv(d, w)
      BY <1>4, <2>2, <3>1, TileCell
    <3> QED BY <3>2, <3>3
  <2> QED BY <1>3, <2>3 DEF PoolTiles
<1>6. PICK d0 \in Nat, j \in Nat : d0 = (h \div w) * w /\ j = h % w /\ h = d0 + j /\ j \in 0..(w - 1)
  <2>1. h = (h \div w) * w + (h % w) /\ h % w \in 0..(w - 1) /\ h \div w \in Nat
    BY <1>3, DivMod, Zenon
  <2>2. PICK q \in Nat, e \in Nat : q = h \div w /\ e = h % w
    BY <2>1
  <2>3. q * w \in Nat
    <3>1. q \in Nat /\ w \in Nat
      BY <1>3
    <3> QED BY <3>1, ProductIsNat
  <2> QED BY <2>1, <2>2, <2>3
<1>7. PICK dd : dd = PoolWidth(c, d0)
  OBVIOUS
<1>8. j \in 0..(dd - 1)
  BY <1>3, <1>6, <1>7 DEF PoolWidth, Least
<1> DEFINE Lane(a) == PoolLane(c, PoolStart(s, a), PoolScores(c, n, d0 + a),
                                PoolValues(c, n, d0 + a), a < Vectorized(dd))
           lanes == [a \in 0..(dd - 1) |-> Lane(a)]
<1>9. (t % PoolTiles(c)) * PoolTile(c) = d0
  BY <1>3, <1>5, <1>6
<1>10. i - n * d - d0 = j
  <2>1. PICK m \in Nat : m = n * d
    BY <1>3
  <2> QED BY <1>3, <1>6, <2>1
<1>11. i \in DOMAIN r.cells
  <2>1. DOMAIN r.cells = TaskCells(c, t)
    BY <1>4, PoolTiling
  <2> QED BY <2>1
<1>12. r.cells[i] = PoolResult(c, lanes[i - n * d - d0])
  <2> DEFINE E(N, D0, DD) ==
               LET L == [a \in 0..(DD - 1) |-> PoolLane(c, PoolStart(s, a), PoolScores(c, N, D0 + a),
                                PoolValues(c, N, D0 + a), a < Vectorized(DD))]
               IN  [x \in {N * c.d + D0 + a : a \in 0..(DD - 1)} |->
                      PoolResult(c, L[x - N * c.d - D0])]
  <2>1. r.cells = E(t \div PoolTiles(c), (t % PoolTiles(c)) * PoolTile(c),
                    PoolWidth(c, (t % PoolTiles(c)) * PoolTile(c)))
    BY <1>2 DEF PoolTask, PoolResult
  <2>2. r.cells = E(n, d0, dd)
    <3> HIDE DEF E
    <3> QED BY <1>5, <1>7, <1>9, <2>1, Zenon
  <2>3. i \in DOMAIN E(n, d0, dd)
    BY <1>11, <2>2
  <2>4. E(n, d0, dd)[i] = PoolResult(c, lanes[i - n * c.d - d0])
    BY <2>3
  <2> QED BY <1>3, <2>2, <2>4
<1>13. lanes[j] = PoolLane(c, Empty, PoolScores(c, n, h), PoolValues(c, n, h), j < Vectorized(dd))
  <2>1. lanes[j] = Lane(j)
    BY <1>8
  <2>2. d0 + j = h
    BY <1>6
  <2>3. PoolStart(s, j) = Empty
    BY DEF PoolStart
  <2> HIDE DEF lanes
  <2> QED BY <2>1, <2>2, <2>3
<1>14. PICK xs, vs : xs = PoolScores(c, n, h) /\ vs = PoolValues(c, n, h)
  OBVIOUS
<1>15. Row(WindowLen, xs, vs)
  <2>1. c.seed \in Windows(Scores)
    BY InputsAre
  <2>2. WindowLen \in Nat
    BY ParallelKernelsAssumption
  <2>5. i * WindowLen \in Nat /\ n + h \in Nat
    <3>1. i \in Nat /\ n \in Nat /\ h \in Nat
      BY <1>3
    <3> QED BY <2>2, <3>1, ProductIsNat
  <2>3. PICK base \in Nat, at \in Nat : base = (n * d + h) * WindowLen /\ at = n + h
    BY <1>3, <2>5
  <2>4. xs = [a \in 1..WindowLen |-> Seed(c, at + a)] /\ vs = [a \in 1..WindowLen |-> 1 + base + a]
    BY <1>3, <1>14, <2>3 DEF PoolScores, PoolValues
  <2> QED BY <2>1, <2>4, WindowIsRow
<1>16. PICK st, vector : st = PoolLane(c, Empty, xs, vs, vector) /\ st = lanes[j]
  BY <1>13, <1>14
<1>17. IsPool(PoolResult(c, st), xs, vs)
  BY <1>15, <1>16, PoolResultIs
<1> HIDE DEF lanes
<1> QED
  BY <1>3, <1>10, <1>12, <1>14, <1>16, <1>17

\* What a task of combine writes to a cell.
LEMMA CombineOfTask ==
    ASSUME NEW c \in Calls, c.kernel = "combine", NEW t \in 0..(Tasks(c, LastLoop(c)) - 1), NEW s,
           NEW r \in Results(c, LastLoop(c), t, s), NEW i \in TaskCells(c, t)
    PROVE  r.cells[i] = Combined(c, i \div c.d, i % c.d)
<1>1. /\ c.kernel \notin PoolKernels /\ c.kernel \notin Attending /\ c.kernel \notin LogitsKernels
      /\ c.kernel \notin RowKernels /\ c.kernel \in WholeRows /\ c.kernel # "topk"
      /\ c.kernel \notin AttendKernels \cup {"attend_masked"} \cup MlaForms
  BY KindsApart
<1>2. r = CombineTask(c, t, s)
  <2>1. c.kernel \notin TokenForms \cup {"key_write"} /\ c.kernel \notin LogitsKernels
    BY DEF TokenForms, LogitsKernels
  <2> QED BY <1>1, <2>1 DEF Results
<1>3. PICK d \in Nat \ {0}, h \in Nat, m \in Nat :
        /\ d = c.d /\ m = i \div c.d /\ h = i % c.d /\ i = m * d + h /\ h \in 0..(d - 1) /\ i \in Nat
  <2>1. /\ i \in Nat /\ c.d \in Nat \ {0} /\ i \div c.d \in Nat /\ i % c.d \in 0..(c.d - 1)
        /\ i = (i \div c.d) * c.d + (i % c.d)
    BY <1>1, CellOfTask
  <2>2. i % c.d \in Nat
    BY <2>1
  <2> QED BY <2>1, <2>2
<1>4. t \in Nat
  OBVIOUS
<1>5. m = t
  <2>1. RowCells(c) = d /\ TaskWidth(c) = d
    BY <1>1, <1>3 DEF RowCells, TaskWidth
  <2>2. i \in TileCells(d, d, t)
    BY <2>1 DEF TaskCells
  <2>3. i \div d = t \div CeilDiv(d, d)
    BY <1>3, <1>4, <2>2, TileCell
  <2>4. CeilDiv(d, d) = 1 /\ t \div 1 = t
    BY <1>4, TilesOfRow
  <2> QED BY <1>3, <2>3, <2>4
<1>6. i \in DOMAIN r.cells
  <2>1. DOMAIN r.cells = TaskCells(c, t)
    BY <1>1, <1>4, WholeRowTiling
  <2> QED BY <2>1
<1>7. r.cells[i] = CombineRow(c, t, s).y[i - t * c.d]
  BY <1>2, <1>6 DEF CombineTask
<1>8. i - t * c.d = h
  <2>1. PICK a \in Nat : a = m * d
    BY <1>3
  <2> QED BY <1>3, <1>5, <2>1
<1>9. RowSummed(CombineRow(c, t, s).y, c, t, c.d)
  BY <1>3, <1>4, InputsAre, CombineRowIs
<1>10. CombineRow(c, t, s).y[h] = Combined(c, t, h)
  BY <1>3, <1>9 DEF RowSummed
<1> QED
  BY <1>3, <1>5, <1>7, <1>8, <1>10

\* The form a call takes, and whether its keys may be masked.
LEMMA AttendForms ==
    ASSUME NEW c \in Calls, c.kernel \in Attending
    PROVE  /\ c.kernel \in AttendKernels =>
                AttendPath(c) \in {"attend", "attend_fp32bmm", "attend_fp32bmm_hx", "attend_blockbf16",
                                   "attend_amx", "attend_bf16bmm_hx", "attend_scorehybrid"}
           /\ c.kernel = "attend_masked" => AttendPath(c) = "attend_masked"
           /\ c.kernel \in MlaForms => AttendPath(c) \in MlaForms
           /\ c.kernel \in AttendKernels \/ c.kernel = "attend_masked" \/ c.kernel \in MlaForms
<1>1. c.kernel \in AttendKernels \/ c.kernel = "attend_masked" \/ c.kernel \in MlaForms
  BY DEF Attending
<1>2. c.kernel \in AttendKernels =>
        AttendPath(c) \in {"attend", "attend_fp32bmm", "attend_fp32bmm_hx", "attend_blockbf16",
                           "attend_amx", "attend_bf16bmm_hx", "attend_scorehybrid"}
  BY DEF AttendPath, AttendKernels
<1>3. c.kernel = "attend_masked" \/ c.kernel \in MlaForms => AttendPath(c) = c.kernel
  BY DEF AttendPath, MlaForms
<1> QED
  BY <1>1, <1>2, <1>3

\* What a query's head attends to, in every form.
LEMMA AttendHeadIs ==
    ASSUME NEW c \in Calls, c.kernel \in Attending, NEW n \in Nat, NEW h \in Nat
    PROVE  IsAttention(AttendHead(c, n, h), c.sink, AttendScores(c, n, h), AttendValues(c, n))
<1>1. PICK xs, vs, s0, p : /\ xs = AttendScores(c, n, h) /\ vs = AttendValues(c, n)
                           /\ s0 = c.sink /\ p = AttendPath(c)
  OBVIOUS
<1>2. WindowLen \in Nat \ {0}
  BY ParallelKernelsAssumption
<1>3. 0..MaxScore \subseteq Scores
  BY DEF Scores
<1>4. c.seed \in Windows(Scores)
  BY <1>3, InputsAre, AttendForms DEF Windows
<1>5. Row(WindowLen, xs, vs)
  <2>1. n * WindowLen \in Nat /\ n + h \in Nat
    BY <1>2, ProductIsNat
  <2>2. PICK base \in Nat, at \in Nat : base = n * WindowLen /\ at = n + h
    BY <2>1
  <2>3. xs = [k \in 1..WindowLen |-> Seed(c, at + k)] /\ vs = [k \in 1..WindowLen |-> 1 + base + k]
    BY <1>1, <2>2 DEF AttendScores, AttendValues
  <2> QED BY <1>4, <2>3, WindowIsRow
<1>6. PICK y : y = AttendHead(c, n, h)
  OBVIOUS
<1>7. y = CASE p = "attend"        -> Attend(s0, xs, vs)
          [] p = "attend_masked" -> AttendMasked(s0, xs, vs, {k \in 1..WindowLen : xs[k] # NegInf})
          [] p = "attend_fp32bmm"   -> SoftmaxRow(s0, xs, vs)
          [] p = "attend_fp32bmm_hx"  -> SoftmaxRowVector(s0, xs, vs)
          [] p = "attend_blockbf16"   -> Blockwise(s0, xs, vs)
          [] p = "attend_bf16bmm_hx"  -> AttendBf16Bmm(s0, xs, vs)
          [] p = "attend_scorehybrid" -> AttendScoreHybrid(s0, xs, vs)
          [] p = "attend_amx"         -> GlobalSoftmax(s0, xs, vs)
          [] p = "mla_cat"            -> CatSoftmax(s0, xs, vs)
          [] p = "mla_fused"          -> FusedSoftmax(s0, xs, vs)
          [] p = "mla_loop"           -> LoopSoftmax(s0, xs, vs)
  BY <1>1, <1>6 DEF AttendHead
<1>8. CASE c.kernel \in AttendKernels
  <2>1. s0 \in 0..MaxScore /\ c.seed \in Windows(0..MaxScore)
    BY <1>1, <1>8, InputsAre
  <2>2. \A k \in 1..WindowLen : xs[k] # NegInf
    <3>1. ASSUME NEW k \in 1..WindowLen PROVE xs[k] # NegInf
      <4>1. n + h + k \in Nat
        BY <1>2
      <4>2. Seed(c, n + h + k) \in 0..MaxScore
        BY <2>1, <4>1, SeedIn
      <4>3. xs[k] = Seed(c, n + h + k)
        BY <1>1 DEF AttendScores
      <4>4. NegInf \notin 0..MaxScore
        BY DEF NegInf
      <4> QED BY <4>2, <4>3, <4>4
    <3> QED BY <3>1
  <2>3. p \in {"attend", "attend_fp32bmm", "attend_fp32bmm_hx", "attend_blockbf16",
               "attend_amx", "attend_bf16bmm_hx", "attend_scorehybrid"}
    BY <1>1, <1>8, AttendForms
  <2>4. y \in {Attend(s0, xs, vs), SoftmaxRow(s0, xs, vs), SoftmaxRowVector(s0, xs, vs),
               Blockwise(s0, xs, vs), GlobalSoftmax(s0, xs, vs)}
    <3>1. /\ AttendBf16Bmm(s0, xs, vs) = SoftmaxRowVector(s0, xs, vs)
          /\ AttendScoreHybrid(s0, xs, vs) = SoftmaxRowVector(s0, xs, vs)
      BY Zenon DEF AttendBf16Bmm, AttendScoreHybrid
    <3> QED BY <1>7, <2>3, <3>1
  <2>5. IsAttention(Attend(s0, xs, vs), s0, xs, vs)
    BY <1>5, <2>1, <2>2, AttendIs
  <2>6. IsAttention(SoftmaxRow(s0, xs, vs), s0, xs, vs)
    BY <1>5, <2>1, SoftmaxRowIs
  <2>7. IsAttention(SoftmaxRowVector(s0, xs, vs), s0, xs, vs)
    BY <1>5, <2>1, SoftmaxRowVectorIs
  <2>8. IsAttention(Blockwise(s0, xs, vs), s0, xs, vs)
    BY <1>2, <1>5, <2>1, <2>2, BlockwiseIs
  <2>9. IsAttention(GlobalSoftmax(s0, xs, vs), s0, xs, vs)
    BY <1>5, <2>1, GlobalSoftmaxIs
  <2> QED BY <1>1, <1>6, <2>4, <2>5, <2>6, <2>7, <2>8, <2>9
<1>9. CASE c.kernel = "attend_masked"
  <2>1. s0 \in 0..MaxScore /\ p = "attend_masked"
    BY <1>1, <1>9, InputsAre, AttendForms
  <2>2. PICK keep : keep = {k \in 1..WindowLen : xs[k] # NegInf}
    OBVIOUS
  <2>3. y = AttendMasked(s0, xs, vs, keep)
    BY <1>7, <2>1, <2>2
  <2>4. \A k \in 1..WindowLen : k \in keep <=> xs[k] # NegInf
    BY <2>2
  <2>5. IsAttention(AttendMasked(s0, xs, vs, keep), s0, xs, vs)
    BY <1>5, <2>1, <2>4, AttendMaskedIs
  <2> QED BY <1>1, <1>6, <2>3, <2>5
<1>10. CASE c.kernel \in MlaForms
  <2>1. s0 \in Scores /\ p \in {"mla_cat", "mla_fused", "mla_loop"}
    BY <1>1, <1>10, InputsAre, AttendForms DEF MlaForms
  <2>2. y \in {CatSoftmax(s0, xs, vs), FusedSoftmax(s0, xs, vs), LoopSoftmax(s0, xs, vs)}
    BY <1>7, <2>1
  <2>3. IsAttention(CatSoftmax(s0, xs, vs), s0, xs, vs)
    BY <1>2, <1>5, <2>1, CatSoftmaxIs
  <2>4. IsAttention(FusedSoftmax(s0, xs, vs), s0, xs, vs)
    BY <1>2, <1>5, <2>1, FusedSoftmaxIs
  <2>5. IsAttention(LoopSoftmax(s0, xs, vs), s0, xs, vs)
    BY <1>5, <2>1, LoopSoftmaxIs
  <2> QED BY <1>1, <1>6, <2>2, <2>3, <2>4, <2>5
<1> QED
  BY <1>8, <1>9, <1>10, AttendForms

\* What a task of attention writes to a cell.
LEMMA AttendOfTask ==
    ASSUME NEW c \in Calls, c.kernel \in Attending, NEW t \in 0..(Tasks(c, LastLoop(c)) - 1), NEW s,
           NEW r \in Results(c, LastLoop(c), t, s), NEW i \in TaskCells(c, t)
    PROVE  IsAttention(r.cells[i], c.sink, AttendScores(c, i \div c.d, i % c.d), AttendValues(c, i \div c.d))
<1>1. /\ c.kernel \notin PoolKernels /\ c.kernel \notin LogitsKernels /\ c.kernel \notin RowKernels
      /\ c.kernel \in AttendKernels \cup {"attend_masked"} \cup MlaForms
      /\ c.kernel \notin WholeRows
  BY KindsApart
<1>2. r = AttendTask(c, t, s)
  <2>1. /\ c.kernel # "combine" /\ c.kernel \notin TokenForms \cup {"key_write"}
        /\ c.kernel # "topk" /\ c.kernel # "sinkhorn"
    BY <1>1, KindsApart
  <2> QED BY <1>1, <2>1 DEF Results
<1>3. i \div c.d \in Nat /\ i % c.d \in Nat
  <2>1. i \div c.d \in Nat /\ i % c.d \in 0..(c.d - 1)
    BY <1>1, CellOfTask
  <2> QED BY <2>1
<1>4. i \in DOMAIN r.cells
  <2>1. t \in Nat
    OBVIOUS
  <2>2. DOMAIN r.cells = TaskCells(c, t)
    BY <2>1, AttendTiling
  <2> QED BY <2>2
<1>5. r.cells[i] = AttendHead(c, i \div c.d, i % c.d)
  BY <1>2, <1>4 DEF AttendTask
<1>6. PICK n \in Nat, h \in Nat : n = i \div c.d /\ h = i % c.d
  BY <1>3
<1>7. IsAttention(AttendHead(c, n, h), c.sink, AttendScores(c, n, h), AttendValues(c, n))
  BY AttendHeadIs
<1> QED
  BY <1>5, <1>6, <1>7

\* What a filled cell of a pool, of attention and of combine holds.
CellsHeld ==
    \A i \in DOMAIN out :
        LET n == i \div call.d
            h == i % call.d
        IN  /\ call.kernel \in PoolKernels =>
                   IsPool(out[i], PoolScores(call, n, h), PoolValues(call, n, h))
            /\ call.kernel \in Attending =>
                   IsAttention(out[i], call.sink, AttendScores(call, n, h), AttendValues(call, n))
            /\ call.kernel = "combine" => out[i] = Combined(call, n, h)

\* Nothing is filled at first.
LEMMA CellsInit == KernelInit => CellsHeld
<1> SUFFICES ASSUME KernelInit PROVE CellsHeld
  OBVIOUS
<1>1. DOMAIN out = {}
  BY DEF KernelInit
<1> QED
  BY <1>1 DEF CellsHeld

\* A task fills its cells with what they stand for.
LEMMA CellsRun ==
    ASSUME Progress, CellsHeld, NEW t \in Pool, RunTask(t)
    PROVE  CellsHeld'
<1>1. /\ UNCHANGED <<call, running>> /\ running # "done" /\ call \in Calls
      /\ pos[t] \in 0..(Tasks(call, running) - 1)
  BY TaskIsNew DEF RunTask, Progress
<1>2. CASE running = "first" /\ TwoLoops(call)
  <2>1. out' = out
    BY <1>2 DEF RunTask
  <2> QED BY <1>1, <2>1 DEF CellsHeld
<1>3. CASE ~(running = "first" /\ TwoLoops(call))
  <2>1. running = LastLoop(call)
    BY <1>1, <1>3 DEF Progress, LastLoop
  <2>2. PICK r \in Results(call, running, pos[t], scratch[t]) :
              /\ DOMAIN r.cells = TaskCells(call, pos[t])
              /\ out' = [i \in DOMAIN out \cup DOMAIN r.cells |->
                              IF i \in DOMAIN r.cells THEN r.cells[i] ELSE out[i]]
              /\ UNCHANGED buf
    BY <2>1, TaskFills
  <2> DEFINE Is(i, v) ==
               LET n == i \div call.d
                   h == i % call.d
               IN  /\ call.kernel \in PoolKernels =>
                          IsPool(v, PoolScores(call, n, h), PoolValues(call, n, h))
                   /\ call.kernel \in Attending =>
                          IsAttention(v, call.sink, AttendScores(call, n, h), AttendValues(call, n))
                   /\ call.kernel = "combine" => v = Combined(call, n, h)
  <2>3. ASSUME NEW i \in DOMAIN r.cells PROVE Is(i, r.cells[i])
    <3>1. pos[t] \in 0..(Tasks(call, LastLoop(call)) - 1) /\ i \in TaskCells(call, pos[t])
      BY <1>1, <2>1, <2>2
    <3>2. r \in Results(call, LastLoop(call), pos[t], scratch[t])
      BY <2>1
    <3>3. PICK n, h : n = i \div call.d /\ h = i % call.d
      OBVIOUS
    <3>4. call.kernel \in PoolKernels =>
             IsPool(r.cells[i], PoolScores(call, n, h), PoolValues(call, n, h))
      BY <1>1, <3>1, <3>2, <3>3, PoolOfTask
    <3>5. call.kernel \in Attending =>
             IsAttention(r.cells[i], call.sink, AttendScores(call, n, h), AttendValues(call, n))
      BY <1>1, <3>1, <3>2, <3>3, AttendOfTask
    <3>6. call.kernel = "combine" => r.cells[i] = Combined(call, n, h)
      BY <1>1, <3>1, <3>2, <3>3, CombineOfTask
    <3> QED BY <3>3, <3>4, <3>5, <3>6
  <2>4. \A i \in DOMAIN out : Is(i, out[i])
    BY DEF CellsHeld
  <2>5. \A i \in DOMAIN out' : Is(i, out'[i])
    <3> HIDE DEF Is
    <3> QED BY <2>2, <2>3, <2>4
  <2> QED BY <1>1, <2>5 DEF CellsHeld
<1> QED
  BY <1>2, <1>3

\* What the output of a call that has returned is.
LEMMA CellsFollow ==
    ASSUME Filling, CellsHeld
    PROVE  PoolExact /\ AttendExact /\ CombineExact
<1>1. running = "done" => DOMAIN out = Cells(call)
  BY DEF Filling, FilledOnce
<1>2. PoolExact
  BY <1>1 DEF PoolExact, CellsHeld
<1>3. AttendExact
  BY <1>1 DEF AttendExact, CellsHeld, Attending
<1>4. CombineExact
  <2> SUFFICES ASSUME running = "done", call.kernel = "combine", NEW i \in Cells(call)
               PROVE  out[i] = Combined(call, i \div call.d, i % call.d)
    BY Zenon DEF CombineExact, Combined
  <2> QED BY <1>1 DEF CellsHeld
<1> QED
  BY <1>2, <1>3, <1>4

-----------------------------------------------------------------------------
(* A call that has returned. *)

\* What the output of a call that has returned is.
LEMMA CutsFollow ==
    ASSUME Filling, TopkHeld, LogitsHeld, CellsHeld
    PROVE  CutsExact
<1>1. running = "done" => DOMAIN out = Cells(call)
  BY DEF Filling, FilledOnce
<1>2. TopkExact
  BY <1>1 DEF TopkExact, TopkHeld
<1>3. LogitsExact
  BY <1>1 DEF LogitsExact, LogitsHeld, CellLogit
<1> QED
  BY <1>2, <1>3, CellsFollow DEF CutsExact, Filling

\* Of every call the cells of the output are filled, each once, by the tiles,
\* chunks and ranges the pool cuts; a chunked selection is one of the whole row,
\* a logit is the same in every path, and every form of the compressor's pool,
\* of sparse attention and of combine gives the value it stands for.
THEOREM CutsAreExact == KernelSpec => []CutsExact
<1> DEFINE IInv == Progress /\ Filling /\ Handed /\ TopkHeld /\ LogitsHeld /\ CellsHeld
<1>1. KernelInit => IInv
  BY FillingInit, HeldInit, CellsInit
<1>2. IInv /\ [KernelNext]_kernelVars => IInv'
  <2> SUFFICES ASSUME IInv, [KernelNext]_kernelVars PROVE IInv'
    OBVIOUS
  <2>1. ASSUME NEW t \in Pool, RunTask(t) PROVE IInv'
    BY <2>1, TaskIsNew, FillingRun, HandedRun, TopkRun, LogitsRun, CellsRun
  <2>2. CASE EndLoop
    <3>1. UNCHANGED <<call, buf, out>>
      BY <2>2 DEF EndLoop
    <3>2. TopkHeld' /\ LogitsHeld' /\ CellsHeld'
      BY <3>1 DEF TopkHeld, LogitsHeld, CellsHeld
    <3> QED BY <2>2, <3>2, FillingEnd, HandedEnd
  <2>3. CASE UNCHANGED kernelVars
    <3>1. Progress' /\ Filling'
      BY <2>3 DEF Progress, Filling, FilledOnce, Over, RangesOf, kernelVars
    <3>2. Handed' /\ TopkHeld' /\ LogitsHeld' /\ CellsHeld'
      BY <2>3 DEF Handed, Over, RangesOf, TopkHeld, LogitsHeld, CellsHeld, kernelVars
    <3> QED BY <3>1, <3>2
  <2> QED
    BY <2>1, <2>2, <2>3 DEF KernelNext, Pool
<1>3. IInv => CutsExact
  BY CutsFollow
<1> QED
  BY <1>1, <1>2, <1>3, PTL DEF KernelSpec

-----------------------------------------------------------------------------
(* The paired gate: what the rows have run. *)

\* A forward that has come behind its sparse attention has run it, in one form
\* or the other; it is the one operator that no forward passes over.
Attended == driver.does = "wait" /\ pc.at \in {"moe", "end", "idle"} =>
                \E i \in Impl : <<"sparse_attend", i>> \in rowRan

\* So has every row that is saved.
RowsAttended == \A r \in rows : \E i \in Impl : <<"sparse_attend", i>> \in r.ran

\* No forward has begun, and no row is saved.
LEMMA InitAttended == Init => Attended /\ RowsAttended
  BY DEF Init, Attended, RowsAttended, Step

\* A step inside an operator keeps both, if it does not pass the attention over.
LEMMA AccountedAttends ==
    ASSUME DispatchInv, Attended, RowsAttended, NEW op \in Ops, Accounted(op),
           pc'.at \in {"moe", "end", "idle"} =>
               op = "moe" \/ \E i \in Impl : <<"sparse_attend", i>> \in rowRan'
    PROVE  Attended' /\ RowsAttended'
<1>1. rowRan \subseteq rowRan' /\ driver' = driver /\ rows' = rows /\ pc.at = op
  BY DEF Accounted, NotRan, Ran
<1> QED
  BY <1>1 DEF Attended, RowsAttended

\* The worker's other steps.
LEMMA WorkerAttends ==
    ASSUME DispatchInv, Attended, RowsAttended, Install \/ Truncate \/ Dump \/ EndForward
    PROVE  Attended' /\ RowsAttended'
<1>1. rows' = rows /\ rowRan' = rowRan /\ driver' = driver
  BY DEF Install, Truncate, Dump, EndForward, ghosts
<1>2. RowsAttended'
  BY <1>1 DEF RowsAttended
<1>3. CASE Install
  BY <1>1, <1>2, <1>3 DEF Install, Attended, DispatchInv, Control
<1>4. CASE Truncate \/ Dump
  BY <1>1, <1>2, <1>4 DEF Truncate, Dump, Attended
<1>5. CASE EndForward
  BY <1>1, <1>2, <1>5 DEF EndForward, Attended, Step
<1> QED
  BY <1>3, <1>4, <1>5

\* The steps of the driver: a row is saved with what its forwards have run.
LEMMA DriverAttends ==
    ASSUME DispatchInv, Attended, RowsAttended, Driver
    PROVE  Attended' /\ RowsAttended'
<1>1. CASE TruncateLeg
  BY <1>1 DEF TruncateLeg, Drive, ghosts, Attended, RowsAttended
<1>2. CASE FillLeg
  BY <1>2 DEF FillLeg, Drive, ghosts, Attended, RowsAttended
<1>3. CASE Generate
  <2>1. rows' = rows /\ pc'.at = "sinkhorn"
    BY <1>3, FirstOp DEF Generate, Step
  <2> QED
    BY <2>1 DEF Attended, RowsAttended
<1>4. CASE SaveRow
  <2>1. driver'.does # "wait"
    BY <1>4 DEF SaveRow, Drive
  <2>2. \E i \in Impl : <<"sparse_attend", i>> \in rowRan
    BY <1>4 DEF SaveRow, Attended
  <2>3. rows' = rows \cup {[ck |-> Label, ran |-> rowRan]}
    BY <1>4 DEF SaveRow
  <2>4. RowsAttended'
    BY <2>2, <2>3 DEF RowsAttended
  <2> QED
    BY <2>1, <2>4 DEF Attended
<1> QED
  BY <1>1, <1>2, <1>3, <1>4 DEF Driver

\* Every step keeps both.
LEMMA NextAttended ==
    ASSUME DispatchInv, Attended, RowsAttended, [Next]_vars
    PROVE  Attended' /\ RowsAttended'
<1> USE HotOps, NextOps DEF At, Step, FallBack, Raises, NoMark, mark, file,
        NotRan, Ran, NoKernel, KernelReturns, KernelFails, Next1, Ops
<1>1. ASSUME NEW op \in HOT_OPS, CallCountedFirst(op) \/ ReturnCountedFirst(op)
      PROVE  Attended' /\ RowsAttended'
  <2>1. Accounted(op) /\ op # "sparse_attend"
    BY <1>1 DEF CallCountedFirst, ReturnCountedFirst, Accounted, Impl, CountedFirst
  <2>2. pc'.at \in {"moe", "end", "idle"} => op = "moe"
    BY <1>1 DEF CallCountedFirst, ReturnCountedFirst, CountedFirst
  <2> QED BY <2>1, <2>2, AccountedAttends
<1>2. CASE AskIndexer \/ CallIndexer \/ CheckIndexer
  <2>1. Accounted("indexer") /\ pc'.at \notin {"moe", "end", "idle"}
    BY <1>2 DEF AskIndexer, CallIndexer, CheckIndexer, Accounted, Impl
  <2> QED BY <2>1, AccountedAttends
<1>3. CASE CallTopk \/ CheckTopk \/ EagerTopk
  <2>1. Accounted("topk") /\ pc'.at \notin {"moe", "end", "idle"}
    BY <1>3 DEF CallTopk, CheckTopk, EagerTopk, Accounted, Impl
  <2> QED BY <2>1, AccountedAttends
<1>4. CASE NoWindow
  <2>1. Accounted("compressor") /\ pc'.at \notin {"moe", "end", "idle"}
    BY <1>4 DEF NoWindow, Accounted, Impl
  <2> QED BY <2>1, AccountedAttends
<1>5. CASE CallSparse \/ CheckSparse
  <2>1. Accounted("sparse_attend")
    BY <1>5 DEF CallSparse, CheckSparse, Accounted, Impl
  <2>2. pc'.at \in {"moe", "end", "idle"} => \E i \in Impl : <<"sparse_attend", i>> \in rowRan'
    BY <1>5 DEF CallSparse, CheckSparse, Impl
  <2> QED BY <2>1, <2>2, AccountedAttends
<1>6. CASE Install \/ Truncate \/ Dump \/ EndForward
  BY <1>6, WorkerAttends
<1>7. CASE Driver
  BY <1>7, DriverAttends
<1>8. CASE Kill \/ WriteByHand
  BY <1>8 DEF Kill, WriteByHand, Attended, RowsAttended, ghosts
<1>9. CASE UNCHANGED vars
  BY <1>9 DEF vars, file, ghosts, Attended, RowsAttended
<1> QED
  BY <1>1, <1>2, <1>3, <1>4, <1>5, <1>6, <1>7, <1>8, <1>9 DEF Next, Worker

-----------------------------------------------------------------------------
(* The paired gate: the binomial tail. *)

\* Factorials, which the library defines by a recursion, are positive.
LEMMA FactorialIs ==
    /\ factorial[0] = 1
    /\ \A n \in Nat : factorial[n] \in Nat \ {0}
<1> DEFINE Rec(g) == g = [n \in Nat |-> IF n = 0 THEN 1 ELSE n * g[n - 1]]
           Upto(g, n) == /\ DOMAIN g = 0..n
                         /\ \A k \in 0..n : g[k] \in Nat \ {0}
                         /\ \A k \in 0..n : g[k] = IF k = 0 THEN 1 ELSE k * g[k - 1]
<1>1. \A n \in Nat : \E g : Upto(g, n)
  <2> DEFINE Bad == {n \in Nat : ~ \E g : Upto(g, n)}
  <2> SUFFICES ASSUME Bad # {} PROVE FALSE
    OBVIOUS
  <2>1. PICK n \in Bad : \A m \in Bad : n <= m
    <3>1. Bad \in SUBSET Nat
      OBVIOUS
    <3> HIDE DEF Bad
    <3> QED
      BY <3>1, LeastElement
  <2>2. CASE n = 0
    <3> DEFINE one == [k \in 0..0 |-> 1]
    <3>1. Upto(one, 0)
      OBVIOUS
    <3> HIDE DEF one, Upto
    <3> QED
      BY <2>1, <2>2, <3>1
  <2>3. CASE n # 0
    <3>1. n \in Nat /\ n - 1 \in Nat /\ n - 1 \notin Bad
      <4>1. n \in Nat
        OBVIOUS
      <4> HIDE DEF Bad
      <4> QED
        BY <2>1, <2>3, <4>1
    <3>2. PICK g : Upto(g, n - 1)
      BY <3>1
    <3> DEFINE p == n * g[n - 1]
               h == [k \in 0..n |-> IF k = n THEN p ELSE g[k]]
    <3>3. p \in Nat \ {0}
      <4>1. PICK x \in Nat \ {0} : x = g[n - 1]
        BY <3>1, <3>2
      <4>2. n * x \in Nat /\ n * x # 0
        BY <3>1, <2>3
      <4> QED
        BY <4>1, <4>2
    <3>4. p = n * g[n - 1]
      OBVIOUS
    <3>5. \A k \in 0..n : k # n => k \in 0..(n - 1) /\ (k # 0 => k - 1 \in 0..(n - 1))
      BY <3>1
    <3> HIDE DEF p, Upto
    <3>6. \A k \in 0..n : h[k] \in Nat \ {0}
      BY <3>2, <3>3, <3>5 DEF Upto
    <3>7. \A k \in 0..n : h[k] = IF k = 0 THEN 1 ELSE k * h[k - 1]
      <4> SUFFICES ASSUME NEW k \in 0..n PROVE h[k] = IF k = 0 THEN 1 ELSE k * h[k - 1]
        OBVIOUS
      <4>1. CASE k = n
        <5>1. h[n] = p /\ h[n - 1] = g[n - 1]
          BY <3>1
        <5> QED
          BY <2>3, <3>4, <4>1, <5>1
      <4>2. CASE k # n /\ k = 0
        <5>1. h[k] = g[k] /\ g[k] = 1
          BY <3>2, <3>5, <4>2 DEF Upto
        <5> QED
          BY <4>2, <5>1
      <4>3. CASE k # n /\ k # 0
        <5>1. h[k] = g[k] /\ h[k - 1] = g[k - 1]
          BY <3>1, <4>3
        <5>2. g[k] = k * g[k - 1]
          BY <3>2, <3>5, <4>3 DEF Upto
        <5> QED
          BY <4>3, <5>1, <5>2
      <4> QED
        BY <4>1, <4>2, <4>3
    <3>8. Upto(h, n)
      BY <3>6, <3>7 DEF Upto
    <3> QED
      BY <2>1, <3>8
  <2> QED
    BY <2>2, <2>3
<1> DEFINE seg(n) == CHOOSE g : Upto(g, n)
           f == [n \in Nat |-> seg(n)[n]]
<1>2. \A n \in Nat : Upto(seg(n), n)
  BY <1>1
<1> HIDE DEF seg
<1>3. \A n \in Nat : \A k \in 0..n : seg(k)[k] = seg(n)[k]
  <2> SUFFICES ASSUME NEW n \in Nat
               PROVE  \A k \in 0..n : seg(k)[k] = seg(n)[k]
    OBVIOUS
  <2>1. ASSUME NEW m \in 0..n PROVE \A k \in 0..m : seg(m)[k] = seg(n)[k]
    <3> DEFINE Bad == {k \in 0..m : seg(m)[k] # seg(n)[k]}
    <3> SUFFICES ASSUME Bad # {} PROVE FALSE
      OBVIOUS
    <3>1. PICK k \in Bad : \A j \in Bad : k <= j
      <4>1. Bad \in SUBSET Nat
        OBVIOUS
      <4> HIDE DEF Bad
      <4> QED
        BY <4>1, LeastElement
    <3>2. Upto(seg(m), m) /\ Upto(seg(n), n) /\ m \in Nat /\ k \in 0..m /\ k \in 0..n
      BY <1>2, <3>1
    <3>3. k # 0 /\ k - 1 \in 0..m /\ k - 1 \in 0..n
      BY <3>1, <3>2
    <3>4. seg(m)[k - 1] = seg(n)[k - 1]
      BY <3>1, <3>3
    <3>5. seg(m)[k] = k * seg(m)[k - 1] /\ seg(n)[k] = k * seg(n)[k - 1]
      BY <3>2, <3>3
    <3>6. seg(m)[k] = seg(n)[k]
      BY <3>4, <3>5, Zenon
    <3> QED
      BY <3>1, <3>6
  <2> QED
    BY <2>1
<1>4. \A n \in Nat : f[n] \in Nat \ {0}
  BY <1>2
<1>5. \A n \in Nat : f[n] = IF n = 0 THEN 1 ELSE n * f[n - 1]
  <2> SUFFICES ASSUME NEW n \in Nat PROVE f[n] = IF n = 0 THEN 1 ELSE n * f[n - 1]
    OBVIOUS
  <2>1. CASE n = 0
    BY <1>2, <2>1
  <2>2. CASE n # 0
    <3>1. n - 1 \in Nat /\ n - 1 \in 0..n /\ n \in 0..n
      BY <2>2
    <3>2. f[n] = seg(n)[n] /\ f[n - 1] = seg(n)[n - 1]
      <4>1. f[n] = seg(n)[n] /\ f[n - 1] = seg(n - 1)[n - 1]
        BY <3>1
      <4> HIDE DEF f
      <4> QED
        BY <1>3, <3>1, <4>1
    <3>3. seg(n)[n] = n * seg(n)[n - 1]
      BY <1>2, <2>2, <3>1
    <3> QED
      BY <2>2, <3>2, <3>3, Zenon
  <2> QED
    BY <2>1, <2>2
<1> HIDE DEF f
<1>6. Rec(f)
  <2>1. f = [n \in Nat |-> f[n]]
    BY DEF f
  <2> QED
    BY <1>5, <2>1
<1>7. Rec(factorial)
  <2>1. factorial = CHOOSE g : Rec(g)
    BY Zenon DEF factorial
  <2> HIDE DEF Rec
  <2> QED
    BY <1>6, <2>1
<1>8. \A n \in Nat : factorial[n] = f[n]
  <2> DEFINE Bad == {n \in Nat : factorial[n] # f[n]}
  <2> SUFFICES ASSUME Bad # {} PROVE FALSE
    OBVIOUS
  <2>1. PICK n \in Bad : \A m \in Bad : n <= m
    <3>1. Bad \in SUBSET Nat
      OBVIOUS
    <3> HIDE DEF Bad
    <3> QED
      BY <3>1, LeastElement
  <2>2. \A k \in Nat : factorial[k] = IF k = 0 THEN 1 ELSE k * factorial[k - 1]
    BY <1>7
  <2>3. n # 0
    BY <1>5, <2>1, <2>2
  <2>4. n - 1 \in Nat /\ factorial[n - 1] = f[n - 1]
    BY <2>1, <2>3
  <2>5. factorial[n] = n * factorial[n - 1] /\ f[n] = n * f[n - 1]
    BY <1>5, <2>1, <2>2, <2>3
  <2>6. factorial[n] = f[n]
    BY <2>4, <2>5, Zenon
  <2> QED
    BY <2>1, <2>6
<1> QED
  BY <1>4, <1>5, <1>8

\* A binomial coefficient is a natural number, and the first of a row is one.
LEMMA ChooseIs ==
    ASSUME NEW n \in Nat
    PROVE  /\ choose(n, 0) = 1
           /\ \A i \in 0..n : choose(n, i) \in Nat
<1>1. ASSUME NEW a \in Nat \ {0}, NEW b \in Nat \ {0}, NEW c \in Nat \ {0}
      PROVE  a \div (b * c) \in Nat
  <2>1. PICK d \in Nat \ {0} : d = b * c
    <3>1. b * c \in Nat /\ b * c # 0
      OBVIOUS
    <3> QED BY <3>1
  <2>2. a \div d \in Nat
    OBVIOUS
  <2> QED
    BY <2>1, <2>2
<1>2. \A i \in 0..n : choose(n, i) \in Nat
  <2> SUFFICES ASSUME NEW i \in 0..n PROVE choose(n, i) \in Nat
    OBVIOUS
  <2>1. n - i \in Nat /\ i \in Nat
    OBVIOUS
  <2>2. factorial[n] \in Nat \ {0} /\ factorial[i] \in Nat \ {0} /\ factorial[n - i] \in Nat \ {0}
    BY <2>1, FactorialIs
  <2> QED
    BY <1>1, <2>2, Zenon DEF choose
<1>3. choose(n, 0) = 1
  <2>1. PICK a \in Nat \ {0} : a = factorial[n]
    BY FactorialIs
  <2>2. factorial[n - 0] = a
    <3>1. n - 0 = n
      OBVIOUS
    <3> QED BY <2>1, <3>1
  <2>3. a \div (1 * a) = 1
    <3>1. 1 * a = a
      OBVIOUS
    <3>2. a \div a = 1
      <4>1. a = a * 1 + 0
        OBVIOUS
      <4> QED
        BY <4>1
    <3> QED BY <3>1, <3>2
  <2>4. choose(n, 0) = factorial[n] \div (factorial[0] * factorial[n - 0])
    BY Zenon DEF choose
  <2> QED
    BY <2>1, <2>2, <2>3, <2>4, FactorialIs
<1> QED
  BY <1>2, <1>3

\* Powers of two: those up to the fifth are at most 32, the later above 40.
LEMMA PowersOfTwo ==
    ASSUME NEW n \in Nat
    PROVE  /\ n < 6 => 2^n \in 1..32
           /\ n >= 6 => 2^n \in Nat /\ 2^n > 40
<1>1. ASSUME n < 6 PROVE 2^n \in 1..32
  <2>1. n = 0 \/ n = 1 \/ n = 2 \/ n = 3 \/ n = 4 \/ n = 5
    BY <1>1
  <2>2. 2^0 = 1 /\ 2^1 = 2 /\ 2^2 = 4 /\ 2^3 = 8 /\ 2^4 = 16 /\ 2^5 = 32
    OBVIOUS
  <2>3. CASE n = 0 BY <2>2, <2>3
  <2>4. CASE n = 1 BY <2>2, <2>4
  <2>5. CASE n = 2 BY <2>2, <2>5
  <2>6. CASE n = 3 BY <2>2, <2>6
  <2>7. CASE n = 4 BY <2>2, <2>7
  <2>8. CASE n = 5 BY <2>2, <2>8
  <2> QED
    BY <2>1, <2>3, <2>4, <2>5, <2>6, <2>7, <2>8
<1>2. ASSUME n >= 6 PROVE 2^n \in Nat /\ 2^n > 40
  <2>1. IsFiniteSet(1..n) /\ Cardinality(1..n) = n
    <3>1. ~(1 > n) /\ n - 1 + 1 = n
      BY <1>2
    <3> QED
      BY <3>1, FS_Interval, 1 \in Int, n \in Int
  <2>2. IsFiniteSet(1..6) /\ Cardinality(1..6) = 6
    <3>1. ~(1 > 6) /\ 6 - 1 + 1 = 6
      OBVIOUS
    <3> QED
      BY <3>1, FS_Interval, 1 \in Int, 6 \in Int
  <2>3. IsFiniteSet(SUBSET (1..n)) /\ Cardinality(SUBSET (1..n)) = 2^n
    BY <2>1, FS_SUBSET, Zenon
  <2>4. Cardinality(SUBSET (1..6)) = 2^6
    BY <2>2, FS_SUBSET, Zenon
  <2>5. SUBSET (1..6) \in SUBSET (SUBSET (1..n))
    <3>1. 1..6 \subseteq 1..n
      BY <1>2
    <3> QED
      BY <3>1
  <2>6. Cardinality(SUBSET (1..6)) <= Cardinality(SUBSET (1..n))
    BY <2>3, <2>5, FS_Subset, Zenon
  <2>7. Cardinality(SUBSET (1..n)) \in Nat
    BY <2>3, FS_CardinalityType, Zenon
  <2>8. PICK x \in Nat : x = 2^n
    BY <2>3, <2>7, Zenon
  <2>9. 2^6 = 64
    OBVIOUS
  <2>10. 64 <= x
    BY <2>3, <2>4, <2>6, <2>8, <2>9
  <2>11. x > 40
    BY <2>10
  <2> QED
    BY <2>8, <2>11, Zenon
<1> QED
  BY <1>1, <1>2

\* The tail of a row of fewer than six is at least its first coefficient, one;
\* the tail that stops at zero is one in every row.
LEMMA TailIs ==
    ASSUME NEW n \in Nat, NEW m \in 0..2, m <= n
    PROVE  LET tail == MapThenSumSet(LAMBDA i : choose(n, i), 0..m)
           IN  tail \in Nat /\ tail >= 1 /\ (m = 0 => tail = 1)
<1> DEFINE v == [i \in 0..2 |-> IF i <= m THEN choose(n, i) ELSE 0]
           S == 0..m
           tail == MapThenSumSet(LAMBDA i : choose(n, i), 0..m)
           Rec(g) == g = [T \in SUBSET S |->
                             IF T = {} THEN 0
                             ELSE LET x == CHOOSE x \in T : TRUE
                                  IN  choose(n, x) + g[T \ {x}]]
           h == CHOOSE g : Rec(g)
<1>1. v \in [0..2 -> Nat] /\ S \in SUBSET (0..2) /\ v[0] = 1
  <2>1. ASSUME NEW i \in 0..2, i <= m PROVE choose(n, i) \in Nat
    BY <2>1, ChooseIs
  <2>2. choose(n, 0) = 1
    BY ChooseIs
  <2> QED
    BY <2>1, <2>2
<1>2. \A x \in S : v[x] = choose(n, x)
  OBVIOUS
<1> HIDE DEF v, S
<1>3. ASSUME NEW g PROVE Rec(g) <=> TailSums(g, v, S)
  <2> DEFINE some(T) == CHOOSE x \in T : TRUE
             byChoose == [T \in SUBSET S |->
                             IF T = {} THEN 0 ELSE choose(n, some(T)) + g[T \ {some(T)}]]
             byValue == [T \in SUBSET S |->
                             IF T = {} THEN 0 ELSE v[some(T)] + g[T \ {some(T)}]]
  <2>1. ASSUME NEW T \in SUBSET S, T # {}
        PROVE  choose(n, some(T)) = v[some(T)]
    <3>1. some(T) \in T
      BY <2>1
    <3>2. some(T) \in S
      BY <3>1
    <3> HIDE DEF some
    <3> QED
      BY <1>2, <3>2
  <2>2. byChoose = byValue
    <3> HIDE DEF some
    <3> QED
      BY <2>1
  <2>3. Rec(g) <=> g = byChoose
    OBVIOUS
  <2>4. TailSums(g, v, S) <=> g = byValue
    BY DEF TailSums
  <2> QED
    BY <2>2, <2>3, <2>4, Zenon
<1>4. TailSums(h, v, S)
  <2>1. \E g : Rec(g)
    <3>1. \E g : TailSums(g, v, S)
      BY <1>1, TailSumIs
    <3> HIDE DEF Rec
    <3> QED
      BY <1>3, <3>1
  <2>2. Rec(h)
    BY <2>1
  <2> QED
    BY <1>3, <2>2
<1>5. tail = h[S]
  BY Zenon DEF MapThenSumSet, MapThenFoldSet, S
<1>6. tail = Parts(v, S)
  BY <1>1, <1>4, <1>5, TailSumIs
<1>7. Parts(v, S) = (IF 0 <= m THEN v[0] ELSE 0) + (IF 1 <= m THEN v[1] ELSE 0)
                    + (IF 2 <= m THEN v[2] ELSE 0)
  BY DEF Parts, Part, S
<1>8. v[0] \in Nat /\ v[1] \in Nat /\ v[2] \in Nat
  BY <1>1
<1> HIDE DEF h, tail
<1>9. tail \in Nat /\ tail >= 1 /\ (m = 0 => tail = 1)
  BY <1>1, <1>6, <1>7, <1>8
<1> QED
  BY <1>9 DEF tail

\* Fewer than six discordant questions are never significant; six or more, all
\* on one side, always are.
LEMMA SignificanceIs ==
    ASSUME NEW b \in Nat, NEW c \in Nat
    PROVE  /\ b + c < 6 => NotSignificant(b, c)
           /\ b + c >= 6 /\ 0 \in {b, c} => ~NotSignificant(b, c)
<1>1. PICK m \in Nat : m = Fewer(b, c)
  BY DEF Fewer
<1>2. PICK n \in Nat : n = b + c
  OBVIOUS
<1>3. m <= n /\ (n < 6 => m <= 2) /\ (0 \in {b, c} => m = 0)
  BY <1>1, <1>2 DEF Fewer
<1> DEFINE tail == MapThenSumSet(LAMBDA i : choose(n, i), 0..m)
<1>4. NotSignificant(b, c) <=> 40 * tail >= 2^n
  BY <1>1, <1>2 DEF NotSignificant
<1>5. m \in 0..2 => tail \in Nat /\ tail >= 1 /\ (m = 0 => tail = 1)
  BY <1>3, TailIs
<1>6. (n < 6 => 2^n \in 1..32) /\ (n >= 6 => 2^n \in Nat /\ 2^n > 40)
  BY PowersOfTwo
<1>7. PICK t : t = tail
  OBVIOUS
<1>8. PICK p : p = 2^n
  OBVIOUS
<1>9. NotSignificant(b, c) <=> 40 * t >= p
  BY <1>4, <1>7, <1>8, Zenon
<1>10. m \in 0..2 => t \in Nat /\ t >= 1 /\ (m = 0 => t = 1)
  BY <1>5, <1>7, Zenon
<1>11. (n < 6 => p \in 1..32) /\ (n >= 6 => p \in Nat /\ p > 40)
  BY <1>6, <1>8, Zenon
<1> HIDE DEF tail
<1>12. b + c < 6 => NotSignificant(b, c)
  BY <1>2, <1>3, <1>9, <1>10, <1>11
<1>13. b + c >= 6 /\ 0 \in {b, c} => ~NotSignificant(b, c)
  BY <1>2, <1>3, <1>9, <1>10, <1>11
<1> QED
  BY <1>12, <1>13

-----------------------------------------------------------------------------
(* The paired gate: the pair it compares. *)

\* The records of a leg that ran one implementation throughout.
Answered(w, i) ==
    [q \in DOMAIN w["eager"] |-> [pred |-> w[i][q], correct |-> w[i][q] = "gold"]]

\* What Recs reads off a row that ran its toggled operators in one form only.
LEMMA RecsOfOne ==
    ASSUME NEW r, NEW w, NEW i \in Impl,
           \E op \in Toggled : <<op, i>> \in r.ran,
           \A op \in Toggled, j \in Impl : <<op, j>> \in r.ran => j = i
    PROVE  Recs(r, w) = Answered(w, i)
<1> DEFINE impls == {j \in Impl : \E op \in Toggled : <<op, j>> \in r.ran}
           pred(q) == IF Cardinality(impls) = 1 THEN w[CHOOSE j \in impls : TRUE][q] ELSE "x"
<1>1. impls = {i}
  OBVIOUS
<1>2. Cardinality({i}) = 1
  BY FS_Singleton
<1>3. (CHOOSE j \in {i} : TRUE) = i
  OBVIOUS
<1>4. Recs(r, w) = [q \in DOMAIN w["eager"] |-> [pred |-> pred(q), correct |-> pred(q) = "gold"]]
  BY Zenon DEF Recs
<1> HIDE DEF impls
<1>5. \A q : pred(q) = w[i][q]
  BY <1>1, <1>2, <1>3
<1> HIDE DEF pred
<1> QED
  BY <1>4, <1>5 DEF Answered

\* The rows of a strict sweep whose toggles all follow the file: one labelled 0
\* ran the eager code only, one labelled 1 the kernels only.
LEMMA RowsRan ==
    ASSUME DispatchInv, RowsAttended, opt.file, ~opt.byhand, opt.strict, opt.fits,
           \A op \in HOT_OPS : opt.over[op] = Unset,
           NEW r \in rows, NEW w
    PROVE  /\ r.ck = "0" => Recs(r, w) = Answered(w, "eager")
           /\ r.ck = "1" => Recs(r, w) = Answered(w, "c_kernel")
<1>1. "sparse_attend" \in Toggled /\ Toggled \subseteq Ops /\ "indexer" \in Ops
  BY DEF Toggled, Ops
<1>2. \A op \in Toggled : opt.over[op] = Unset
  BY <1>1, HotOps
<1>3. opt.over["indexer"] # "0"
  BY <1>1, HotOps, UnsetIs
<1>4. RowOK(r.ck, r.ran)
  BY DEF DispatchInv, RowsOK
<1>5. \A op \in Toggled : /\ r.ck = "0" => <<op, "c_kernel">> \notin r.ran
                          /\ r.ck = "1" => <<op, "eager">> \notin r.ran
  BY <1>2, <1>3, <1>4 DEF RowOK
<1>6. PICK i \in Impl : <<"sparse_attend", i>> \in r.ran
  BY DEF RowsAttended
<1>7. i = "eager" \/ i = "c_kernel"
  BY DEF Impl
<1>8. r.ck = "0" => Recs(r, w) = Answered(w, "eager")
  BY <1>1, <1>5, <1>6, <1>7, RecsOfOne DEF Impl
<1>9. r.ck = "1" => Recs(r, w) = Answered(w, "c_kernel")
  BY <1>1, <1>5, <1>6, <1>7, RecsOfOne DEF Impl
<1> QED
  BY <1>8, <1>9

\* The questions on which the two implementations differ, and those that i
\* answers correctly and j does not.
Differ(w) == {q \in DOMAIN w["eager"] : w["eager"][q] # w["c_kernel"][q]}
Wins(w, i, j) == {q \in DOMAIN w["eager"] : w[i][q] = "gold" /\ w[j][q] # "gold"}

\* The verdict on the pair is the same in either order.
LEMMA VerdictIs ==
    ASSUME NEW w, AnswersOK(w), NEW least \in 0..100,
           NEW i \in Impl, NEW j \in Impl, i # j
    PROVE  LET qs == DOMAIN w["eager"]
               d == 100 * Cardinality(Differ(w))
               most == (100 - least) * Cardinality(qs)
               e == Cardinality(Wins(w, "eager", "c_kernel"))
               c == Cardinality(Wins(w, "c_kernel", "eager"))
               same == Equivalent(Answered(w, i), Answered(w, j), qs, least)
           IN  /\ d <= most /\ e + c < 6 => same
               /\ d > most \/ (e + c >= 6 /\ 0 \in {e, c}) => ~same
<1> DEFINE qs == DOMAIN w["eager"]
           A == Agreeing(Answered(w, i), Answered(w, j), qs)
<1>1. IsFiniteSet(qs) /\ qs # {} /\ DOMAIN w["c_kernel"] = qs
  BY DEF AnswersOK
<1>2. (i = "eager" /\ j = "c_kernel") \/ (i = "c_kernel" /\ j = "eager")
  BY DEF Impl
<1>3. A = qs \ Differ(w)
  BY <1>2 DEF Agreeing, Answered, Differ
<1>4. OnlyCorrect(Answered(w, i), Answered(w, j), qs) = Wins(w, i, j)
      /\ OnlyCorrect(Answered(w, j), Answered(w, i), qs) = Wins(w, j, i)
  BY DEF OnlyCorrect, Answered, Wins
<1>5. /\ Differ(w) \in SUBSET qs
      /\ Wins(w, "eager", "c_kernel") \in SUBSET qs /\ Wins(w, "c_kernel", "eager") \in SUBSET qs
  BY DEF Differ, Wins
<1> HIDE DEF qs, A
<1>6. /\ IsFiniteSet(Differ(w)) /\ IsFiniteSet(Wins(w, "eager", "c_kernel"))
      /\ IsFiniteSet(Wins(w, "c_kernel", "eager"))
  BY <1>1, <1>5, FS_Subset, Zenon
<1>7. PICK n \in Nat : n = Cardinality(qs)
  BY <1>1, FS_CardinalityType
<1>8. PICK d \in Nat : d = Cardinality(Differ(w))
  BY <1>6, FS_CardinalityType
<1>9. PICK e \in Nat : e = Cardinality(Wins(w, "eager", "c_kernel"))
  BY <1>6, FS_CardinalityType
<1>10. PICK c \in Nat : c = Cardinality(Wins(w, "c_kernel", "eager"))
  BY <1>6, FS_CardinalityType
<1>11. Cardinality(A) = n - d
  <2>1. qs \cap Differ(w) = Differ(w)
    BY <1>5
  <2>2. Cardinality(qs \ Differ(w)) = Cardinality(qs) - Cardinality(qs \cap Differ(w))
    BY <1>1, FS_Difference, Zenon
  <2> QED
    BY <1>3, <1>7, <1>8, <2>1, <2>2, Zenon
<1>12. Equivalent(Answered(w, i), Answered(w, j), qs, least)
       <=> /\ 100 * (n - d) >= least * n
           /\ NotSignificant(Cardinality(Wins(w, i, j)), Cardinality(Wins(w, j, i)))
  BY <1>1, <1>4, <1>7, <1>11, Zenon DEF Equivalent, A
<1>13. PICK p \in Int : p = least * n
  OBVIOUS
<1>14. (100 - least) * n = 100 * n - p
  BY <1>13
<1>15. PICK most \in Int : most = (100 - least) * n
  OBVIOUS
<1>16. 100 * (n - d) >= p <=> 100 * d <= most
  <2>1. most = 100 * n - p
    BY <1>14, <1>15
  <2> QED
    BY <2>1
<1>17. /\ e + c < 6 => NotSignificant(Cardinality(Wins(w, i, j)), Cardinality(Wins(w, j, i)))
       /\ e + c >= 6 /\ 0 \in {e, c}
          => ~NotSignificant(Cardinality(Wins(w, i, j)), Cardinality(Wins(w, j, i)))
  <2>1. e + c = c + e /\ {e, c} = {c, e}
    OBVIOUS
  <2>2. CASE i = "eager" /\ j = "c_kernel"
    BY <1>9, <1>10, <2>2, SignificanceIs
  <2>3. CASE i = "c_kernel" /\ j = "eager"
    BY <1>9, <1>10, <2>1, <2>3, SignificanceIs
  <2> QED
    BY <1>2, <2>2, <2>3
<1>18. Equivalent(Answered(w, i), Answered(w, j), qs, least)
       <=> /\ 100 * d <= most
           /\ NotSignificant(Cardinality(Wins(w, i, j)), Cardinality(Wins(w, j, i)))
  BY <1>12, <1>13, <1>16, Zenon
<1> DEFINE same == Equivalent(Answered(w, i), Answered(w, j), qs, least)
<1> HIDE DEF same
<1>19. /\ 100 * d <= most /\ e + c < 6 => same
       /\ 100 * d > most \/ (e + c >= 6 /\ 0 \in {e, c}) => ~same
  BY <1>17, <1>18 DEF same
<1> QED
  BY <1>7, <1>8, <1>9, <1>10, <1>15, <1>19, Zenon DEF qs, same

\* The exit status, when one pair of the legs is gated.
LEMMA ExitIs ==
    ASSUME NEW legs, NEW least, NEW a, NEW b, GatedPairs(legs) = {<<a, b>>}
    PROVE  PairedExit(legs, least)
             = IF Equivalent(legs[a].recs, legs[b].recs, Common(legs), least) THEN 0 ELSE 1
<1> DEFINE agrees(p) == Equivalent(legs[p[1]].recs, legs[p[2]].recs, Common(legs), least)
<1>1. PairedExit(legs, least) = IF \A p \in GatedPairs(legs) : agrees(p) THEN 0 ELSE 1
  BY Zenon DEF PairedExit
<1>2. agrees(<<a, b>>) <=> Equivalent(legs[a].recs, legs[b].recs, Common(legs), least)
  <2>1. <<a, b>>[1] = a /\ <<a, b>>[2] = b
    OBVIOUS
  <2> QED
    BY <2>1, Zenon
<1>3. (\A p \in GatedPairs(legs) : agrees(p)) <=> agrees(<<a, b>>)
  <2> HIDE DEF agrees
  <2> QED
    OBVIOUS
<1> QED
  BY <1>1, <1>2, <1>3, Zenon

\* The eager leg, the C++ leg and one on another device, over the questions of w.
EagerLeg(w) == [name |-> "cpu_eager", recs |-> Answered(w, "eager")]
CLeg(w) == [name |-> "cpu_c", recs |-> Answered(w, "c_kernel")]

\* In whichever order the legs are named the gate looks at the two of them,
\* over all the questions.
LEMMA PairOfLegs ==
    ASSUME NEW w, NEW legs,
           LET qs == DOMAIN w["eager"]
               e == EagerLeg(w)
               c == CLeg(w)
           IN  legs \in {<<e, c>>, <<c, e>>, <<GpuLeg(qs), c, e>>, <<e, GpuLeg(qs), c>>}
    PROVE  /\ Common(legs) = DOMAIN w["eager"]
           /\ \E a, b \in DOMAIN legs :
                 /\ GatedPairs(legs) = {<<a, b>>}
                 /\ \/ legs[a] = EagerLeg(w) /\ legs[b] = CLeg(w)
                    \/ legs[a] = CLeg(w) /\ legs[b] = EagerLeg(w)
<1> DEFINE qs == DOMAIN w["eager"]
<1>1. PICK e : e = EagerLeg(w)
  OBVIOUS
<1>2. PICK c : c = CLeg(w)
  OBVIOUS
<1>3. PICK g : g = GpuLeg(qs)
  OBVIOUS
<1>4. e.name = "cpu_eager" /\ c.name = "cpu_c" /\ g.name = "gpu"
  BY <1>1, <1>2, <1>3 DEF EagerLeg, CLeg, GpuLeg
<1>5. DOMAIN e.recs = qs /\ DOMAIN c.recs = qs /\ DOMAIN g.recs = qs
  BY <1>1, <1>2, <1>3 DEF EagerLeg, CLeg, GpuLeg, Answered
<1>6. legs \in {<<e, c>>, <<c, e>>, <<g, c, e>>, <<e, g, c>>}
  BY <1>1, <1>2, <1>3, Zenon
<1> HIDE DEF qs
<1>7. Common(legs) = qs
  BY <1>5, <1>6 DEF Common
<1>8. \E a, b \in DOMAIN legs :
         /\ GatedPairs(legs) = {<<a, b>>}
         /\ \/ legs[a] = e /\ legs[b] = c
            \/ legs[a] = c /\ legs[b] = e
  <2>1. CASE legs = <<e, c>>
    <3>1. DOMAIN legs = {1, 2} /\ legs[1] = e /\ legs[2] = c
      BY <2>1
    <3>2. GatedPairs(legs) = {<<1, 2>>}
      BY <1>4, <3>1 DEF GatedPairs
    <3> QED BY <3>1, <3>2
  <2>2. CASE legs = <<c, e>>
    <3>1. DOMAIN legs = {1, 2} /\ legs[1] = c /\ legs[2] = e
      BY <2>2
    <3>2. GatedPairs(legs) = {<<1, 2>>}
      BY <1>4, <3>1 DEF GatedPairs
    <3> QED BY <3>1, <3>2
  <2>3. CASE legs = <<g, c, e>>
    <3>1. DOMAIN legs = {1, 2, 3} /\ legs[1] = g /\ legs[2] = c /\ legs[3] = e
      BY <2>3
    <3>2. GatedPairs(legs) = {<<2, 3>>}
      BY <1>4, <3>1 DEF GatedPairs
    <3> QED BY <3>1, <3>2
  <2>4. CASE legs = <<e, g, c>>
    <3>1. DOMAIN legs = {1, 2, 3} /\ legs[1] = e /\ legs[2] = g /\ legs[3] = c
      BY <2>4
    <3>2. GatedPairs(legs) = {<<1, 3>>}
      BY <1>4, <3>1 DEF GatedPairs
    <3> QED BY <3>1, <3>2
  <2> QED
    BY <1>6, <2>1, <2>2, <2>3, <2>4
<1> QED
  BY <1>1, <1>2, <1>7, <1>8, Zenon DEF qs

\* The gate exits as the answers of the two implementations have it.
LEMMA ExitOfPair ==
    ASSUME NEW w, AnswersOK(w), NEW least \in 0..100, NEW legs,
           LET qs == DOMAIN w["eager"]
               e == EagerLeg(w)
               c == CLeg(w)
           IN  legs \in {<<e, c>>, <<c, e>>, <<GpuLeg(qs), c, e>>, <<e, GpuLeg(qs), c>>}
    PROVE  LET d == 100 * Cardinality(Differ(w))
               most == (100 - least) * Cardinality(DOMAIN w["eager"])
               e == Cardinality(Wins(w, "eager", "c_kernel"))
               c == Cardinality(Wins(w, "c_kernel", "eager"))
           IN  /\ d <= most /\ e + c < 6 => PairedExit(legs, least) = 0
               /\ d > most \/ (e + c >= 6 /\ 0 \in {e, c}) => PairedExit(legs, least) = 1
<1> DEFINE alike == /\ 100 * Cardinality(Differ(w)) <= (100 - least) * Cardinality(DOMAIN w["eager"])
                    /\ Cardinality(Wins(w, "eager", "c_kernel"))
                         + Cardinality(Wins(w, "c_kernel", "eager")) < 6
           apart == \/ 100 * Cardinality(Differ(w)) > (100 - least) * Cardinality(DOMAIN w["eager"])
                    \/ /\ Cardinality(Wins(w, "eager", "c_kernel"))
                            + Cardinality(Wins(w, "c_kernel", "eager")) >= 6
                       /\ 0 \in {Cardinality(Wins(w, "eager", "c_kernel")),
                                 Cardinality(Wins(w, "c_kernel", "eager"))}
<1>1. Common(legs) = DOMAIN w["eager"]
  BY PairOfLegs
<1>2. PICK a, b \in DOMAIN legs :
         /\ GatedPairs(legs) = {<<a, b>>}
         /\ \/ legs[a] = EagerLeg(w) /\ legs[b] = CLeg(w)
            \/ legs[a] = CLeg(w) /\ legs[b] = EagerLeg(w)
  BY PairOfLegs
<1>3. PICK i \in Impl, j \in Impl :
         i # j /\ legs[a].recs = Answered(w, i) /\ legs[b].recs = Answered(w, j)
  <2>1. EagerLeg(w).recs = Answered(w, "eager") /\ CLeg(w).recs = Answered(w, "c_kernel")
    BY DEF EagerLeg, CLeg
  <2> QED
    BY <1>2, <2>1 DEF Impl
<1> DEFINE same == Equivalent(Answered(w, i), Answered(w, j), DOMAIN w["eager"], least)
<1>4. PairedExit(legs, least) = IF same THEN 0 ELSE 1
  BY <1>1, <1>2, <1>3, ExitIs, Zenon
<1>5. (alike => same) /\ (apart => ~same)
  BY <1>3, VerdictIs, Zenon
<1> HIDE DEF alike, apart, same
<1>6. (alike => PairedExit(legs, least) = 0) /\ (apart => PairedExit(legs, least) = 1)
  BY <1>4, <1>5
<1> QED
  BY <1>6, Zenon DEF alike, apart

\* The gate's exit status on the legs e and c, named in any of the orders, is
\* what the answers w of the two implementations make it.
ExitTells(e, c, w, least) ==
    LET qs == DOMAIN w["eager"]
        differ == {q \in qs : w["eager"][q] # w["c_kernel"][q]}
        better(i, j) == Cardinality({q \in qs : w[i][q] = "gold" /\ w[j][q] # "gold"})
        alike == /\ 100 * Cardinality(differ) <= (100 - least) * Cardinality(qs)
                 /\ better("eager", "c_kernel") + better("c_kernel", "eager") < 6
        apart == \/ 100 * Cardinality(differ) > (100 - least) * Cardinality(qs)
                 \/ /\ better("eager", "c_kernel") + better("c_kernel", "eager") >= 6
                    /\ 0 \in {better("eager", "c_kernel"), better("c_kernel", "eager")}
    IN  \A legs \in {<<e, c>>, <<c, e>>, <<GpuLeg(qs), c, e>>, <<e, GpuLeg(qs), c>>} :
            /\ alike => PairedExit(legs, least) = 0
            /\ apart => PairedExit(legs, least) = 1

\* It does, on legs that each hold the answers of one implementation.
LEMMA ExitTellsPair ==
    ASSUME NEW w, AnswersOK(w), NEW least \in 0..100
    PROVE  ExitTells(EagerLeg(w), CLeg(w), w, least)
<1> DEFINE qs == DOMAIN w["eager"]
           L == {<<EagerLeg(w), CLeg(w)>>, <<CLeg(w), EagerLeg(w)>>,
                 <<GpuLeg(qs), CLeg(w), EagerLeg(w)>>, <<EagerLeg(w), GpuLeg(qs), CLeg(w)>>}
           d == 100 * Cardinality(Differ(w))
           most == (100 - least) * Cardinality(qs)
           e == Cardinality(Wins(w, "eager", "c_kernel"))
           c == Cardinality(Wins(w, "c_kernel", "eager"))
<1>1. ASSUME NEW legs \in L
      PROVE  /\ d <= most /\ e + c < 6 => PairedExit(legs, least) = 0
             /\ d > most \/ (e + c >= 6 /\ 0 \in {e, c}) => PairedExit(legs, least) = 1
  BY ExitOfPair, Zenon
<1>2. ExitTells(EagerLeg(w), CLeg(w), w, least)
      <=> \A legs \in L :
             /\ d <= most /\ e + c < 6 => PairedExit(legs, least) = 0
             /\ d > most \/ (e + c >= 6 /\ 0 \in {e, c}) => PairedExit(legs, least) = 1
  BY DEF ExitTells, Differ, Wins
<1> QED
  BY <1>1, <1>2, Zenon

\* The release gate of the paired evaluation (main of paired_analyze.py), on
\* the two legs of a strict sweep of one engine whose toggles follow the
\* control file: it exits 0 when the eager code and the kernels answer alike
\* and 1 when they differ on more questions than agreed or one is
\* significantly the better, in whichever order the legs are named and with a
\* third leg or without.
THEOREM PairedGateIsExact == Spec => []PairedGateIsAboutKernels
<1>1. DispatchInv /\ Attended /\ RowsAttended => PairedGateIsAboutKernels
  <2> SUFFICES ASSUME DispatchInv, RowsAttended
               PROVE  PairedGateIsAboutKernels
    OBVIOUS
  <2> DEFINE leg(name, r, w) == [name |-> name, recs |-> Recs(r, w)]
             swept == opt.file /\ ~opt.byhand /\ opt.strict /\ opt.fits
                      /\ (\A op \in HOT_OPS : opt.over[op] = Unset)
  <2>1. PairedGateIsAboutKernels
        <=> (swept => \A w \in Answers, least \in AgreeMins, r, s \in rows :
                          r.ck = "0" /\ s.ck = "1" =>
                          ExitTells(leg("cpu_eager", r, w), leg("cpu_c", s, w), w, least))
    BY DEF PairedGateIsAboutKernels, ExitTells
  <2>2. ASSUME swept, NEW w \in Answers, NEW least \in AgreeMins, NEW r \in rows, NEW s \in rows,
               r.ck = "0", s.ck = "1"
        PROVE  ExitTells(leg("cpu_eager", r, w), leg("cpu_c", s, w), w, least)
    <3>1. AnswersOK(w) /\ least \in 0..100
      BY DispatchAssumption
    <3>2. Recs(r, w) = Answered(w, "eager") /\ Recs(s, w) = Answered(w, "c_kernel")
      BY <2>2, RowsRan
    <3>3. EagerLeg(w) = leg("cpu_eager", r, w) /\ CLeg(w) = leg("cpu_c", s, w)
      BY <3>2, Zenon DEF EagerLeg, CLeg
    <3>4. ExitTells(EagerLeg(w), CLeg(w), w, least)
      BY <3>1, ExitTellsPair
    <3> QED
      BY <3>3, <3>4, Zenon
  <2> HIDE DEF leg, swept
  <2> QED
    BY <2>1, <2>2, Zenon
<1>2. Init => DispatchInv /\ Attended /\ RowsAttended
  BY InitInv, InitAttended
<1>3. (DispatchInv /\ Attended /\ RowsAttended) /\ [Next]_vars
      => (DispatchInv /\ Attended /\ RowsAttended)'
  BY NextInv, NextAttended
<1> QED
  BY <1>1, <1>2, <1>3, PTL DEF Spec

=============================================================================
