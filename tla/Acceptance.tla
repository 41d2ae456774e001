----------------------------- MODULE Acceptance -----------------------------
(***************************************************************************)
(* The acceptance harness of the C++ kernels (f4_acceptance.py) and the    *)
(* promotion gate behind it (promotion_gate.py).                           *)
(*                                                                         *)
(* The harness first compares the manifest of cases with an inventory that *)
(* is declared apart from it, then evaluates every case under every seed   *)
(* of two groups and turns what it saw into an exit code.  The gate runs   *)
(* the harness, then reads, one after the other, HEAD, the state of the    *)
(* tree, the policy, the queue of obligations and the approval record,     *)
(* while people work in the tree.                                          *)
(*                                                                         *)
(* A tensor is abstracted to what the checks ask of it: how many outputs,  *)
(* whether shape and dtype are the contract's, which non-finite values it  *)
(* has.  At most one case goes wrong, under one seed; at most one case, or *)
(* the cases of one operator, or all, are missing from the manifest, or    *)
(* one builds a shape other than the one it declares.                      *)
(***************************************************************************)
EXTENDS Naturals, Sequences, FiniteSetsExt

CONSTANTS
    IndexerM,    \* _REQUIRED_INDEXER_M ({1, 8, 16, 32, 64})
    Bf16M,       \* the M of the bf16-KV cases ({1, 32})
    SparseM,     \* _REQUIRED_SPARSE_M
    SparseSweep, \* the M of the cases of each path of sparse_attend
    RequiredSparsePaths, \* _REQUIRED_SPARSE_PATHS
    Shapes,      \* the costed compressor shapes, numbered from 1
    SeedGroups,  \* SEED_GROUPS: a sequence of <<split, seed>>
    MaxCommits   \* bound: commits during one behaviour

ASSUME AcceptanceAssumption ==
    /\ IndexerM # {} /\ SparseM # {} /\ RequiredSparsePaths \subseteq DOMAIN SparseSweep
    /\ 0 \notin Shapes
    /\ SeedGroups \in Seq(STRING \X Nat)
    /\ MaxCommits \in Nat

VARIABLES
    cases,     \* the manifest
    fault,     \* what goes wrong: [case, seed, what], NoFault if nothing
    pc,        \* "inventory", "evaluate", "report" or "gate"
    bound,     \* the cases that carry a _coord_verify
    left,      \* seeds still to evaluate
    done,      \* <<case, split, seed>> evaluated (a ghost: the code prints)
    failures,  \* failures: [at, case, note]
    calib,     \* the selection records: [at, case, mism]
    rc,        \* exit code of the last run, NoCode before
    head,      \* HEAD, numbered in the order of the commits
    kept,      \* the files the gate reads, as HEAD has them
    work,      \* the same files in the working tree
    edited,    \* another file of the working tree differs from HEAD
    gate,      \* what the running decide() has read so far
    verdict    \* the gate's last record

harness == <<cases, fault, pc, bound, left, done, failures, calib, rc>>
tree == <<head, kept, work, edited>>
promotion == <<gate, verdict>>
vars == <<harness, tree, promotion>>

NoCode == 99
NoApproval == 0
Unknown == 0
NoVerdict == [decision |-> "none", sha |-> Unknown, clean |-> 0, late |-> FALSE]

\* The next thing to read, the status decide() was called with, and what it
\* has read: the sha, whether the tree is dirty, whether the policy is
\* ratified, the obligations.  Ghosts: the commit the tree was found clean at
\* (0 if it was not), whether an approval has been written since that look.
NoGate == [at |-> "none", status |-> "none", sha |-> Unknown, dirty |-> TRUE,
           ratified |-> FALSE, obliged |-> {}, clean |-> 0, late |-> FALSE]

-----------------------------------------------------------------------------
(* The manifest.  A path is a name and a number (the M or the shape that   *)
(* the label carries, 0 if none); m is the case's "M", 0 if it has none.   *)

Dists == {"normal", "heavy"}

Case(op, path, kind, dist, m) ==
    [op |-> op, path |-> path, kind |-> kind, dist |-> dist, m |-> m, built |-> "declared"]

NoFault == [case |-> Case("none", <<"none", 0>>, "none", "none", 0), seed |-> 0, what |-> "none"]

IndexerCases ==
    {Case("indexer_logits", <<"tiled/signed", 0>>, "logits_select", d, m) : d \in Dists, m \in IndexerM}
      \cup {Case("indexer_logits", <<"bf16kv/signed", 0>>, "logits_select", "normal", m) : m \in Bf16M}

TopkCases ==
    {Case("indexer_topk", <<"chunked/row", 0>>, "selection", "normal", 0),
     Case("indexer_topk", <<"k0", 0>>, "selection_k0", "normal", 0),
     Case("indexer_topk", <<"ties", 0>>, "selection", "ties", 0)}

CompressorCases ==
    {Case("compressor", <<p, s>>, "continuous", d, 0) : p \in {"pool", "fp32intrin"}, s \in Shapes, d \in Dists}
      \cup {Case("compressor", <<p, 0>>, "continuous_masked", "normal", 0) : p \in {"pool", "fp32intrin"}}

SparseCases ==
    (UNION {{Case("sparse", <<p, m>>, "continuous_sparse", "normal", 0) : m \in SparseSweep[p]}
              : p \in DOMAIN SparseSweep})
      \cup {Case("sparse", <<"composed", 0>>, "composed", "normal", 0)}

Manifest ==
    IndexerCases \cup TopkCases \cup CompressorCases \cup SparseCases
      \cup {Case("sinkhorn", <<"fused", 0>>, "continuous_tuple3", "normal", 0)}
      \cup {Case("combine", <<"tiled", 0>>, "continuous", d, 0) : d \in Dists}

\* What can be missing, or built in another shape.
Manifests ==
    {Manifest \ gone : gone \in {{}, Manifest} \cup {{c} : c \in Manifest}
                                  \cup {{c \in Manifest : c.op = o} : o \in {x.op : x \in Manifest}}}
      \cup {(Manifest \ {c}) \cup {[c EXCEPT !.built = "other"]}
              : c \in {x \in Manifest : x.op = "compressor" \/ (x.op = "indexer_logits" /\ x.path[1] = "tiled/signed")}}

-----------------------------------------------------------------------------
(* The inventory. *)

ExpectedOps == {"indexer_logits", "indexer_topk", "compressor", "sparse", "sinkhorn", "combine"}

RequiredCoverage ==
    {<<"indexer_logits", "logits_select">>, <<"indexer_topk", "selection">>,
     <<"compressor", "continuous">>, <<"compressor", "continuous_masked">>,
     <<"sparse", "continuous_sparse">>, <<"sparse", "composed">>,
     <<"sinkhorn", "continuous_tuple3">>, <<"combine", "continuous">>}

RequiredIndexerPaths == {<<"tiled/signed", 0>>, <<"bf16kv/signed", 0>>}

\* Mutant: the joint coordinates of the indexer alone.
RequiredJointCoordsNoShapes ==
    {<<"indexer_logits", <<"tiled/signed", 0>>, d, m>> : d \in Dists, m \in IndexerM}

RequiredJointCoords ==
    {<<"indexer_logits", <<"tiled/signed", 0>>, d, m>> : d \in Dists, m \in IndexerM}
      \cup {<<"compressor", <<"pool", s>>, d, 0>> : s \in Shapes, d \in Dists}

Coord(c) == <<c.op, c.path, c.dist, c.m>>

SparseCovers(cs, p) ==
    SparseM \subseteq {c.path[2] : c \in {x \in cs : x.kind = "continuous_sparse" /\ x.path[1] = p}}

\* None of run()'s early returns is taken.
Complete(cs) ==
    /\ cs # {}
    /\ ExpectedOps \subseteq {c.op : c \in cs}
    /\ RequiredCoverage \subseteq {<<c.op, c.kind>> : c \in cs}
    /\ IndexerM \subseteq {c.m : c \in {x \in cs : x.op = "indexer_logits"}}
    /\ RequiredIndexerPaths \subseteq {c.path : c \in {x \in cs : x.op = "indexer_logits"}}
    /\ \A p \in RequiredSparsePaths : SparseCovers(cs, p)
    /\ RequiredJointCoords \subseteq {Coord(c) : c \in cs}
    /\ \E i \in DOMAIN SeedGroups : SeedGroups[i][1] = "calibration"
    /\ \E i \in DOMAIN SeedGroups : SeedGroups[i][1] = "held_out"

-----------------------------------------------------------------------------
(* What one evaluation sees: the candidate's output and its repetition,    *)
(* the reference (for a selection, the logits), the selection mismatches.  *)

OutputsOf(c) == IF c.kind = "continuous_tuple3" THEN 3 ELSE 1

Clean(c) ==
    [raises |-> FALSE, n |-> OutputsOf(c), n2 |-> OutputsOf(c),
     shape |-> "contract", shape2 |-> "contract", dtype |-> "contract", dtype2 |-> "contract",
     val |-> "finite", same |-> TRUE, refRaises |-> FALSE, refN |-> OutputsOf(c),
     refShape |-> "contract", refDtype |-> "contract", refVal |-> "finite", mism |-> 0]

\* Oracles are parameters of these kinds, local functions of the others.
HasOracle(c) == c.kind \in {"logits_select", "continuous", "continuous_masked", "continuous_tuple3"}

Selects(c) == c.kind \in {"selection", "logits_select", "composed"}

\* A mask of -inf in the logits is legal evidence, not a fault.
Mishaps(c) ==
    {"raises", "wrong n", "wrong n2", "wrong shape", "wrong shape2", "wrong dtype", "wrong dtype2", "differs"}
      \cup (IF c.kind \in {"selection", "selection_k0"} THEN {} ELSE {"nan", "inf"})
      \cup (IF c.kind = "selection_k0" THEN {} ELSE {"ref nan", "ref inf", "ref -inf"})
      \cup (IF HasOracle(c) THEN {"ref raises"} ELSE {})
      \cup (IF HasOracle(c) /\ c.kind # "logits_select" THEN {"ref shape", "ref dtype", "ref n"} ELSE {})
      \cup (IF Selects(c) THEN {"mismatch"} ELSE {})

Evidence(c, what) ==
    LET e == Clean(c)
    IN  CASE what = "raises"       -> [e EXCEPT !.raises = TRUE]
          [] what = "wrong n"      -> [e EXCEPT !.n = 2, !.n2 = 2]
          [] what = "wrong n2"     -> [e EXCEPT !.n2 = 2]
          [] what = "wrong shape"  -> [e EXCEPT !.shape = "other", !.shape2 = "other"]
          [] what = "wrong shape2" -> [e EXCEPT !.shape2 = "other"]
          [] what = "wrong dtype"  -> [e EXCEPT !.dtype = "other", !.dtype2 = "other"]
          [] what = "wrong dtype2" -> [e EXCEPT !.dtype2 = "other"]
          [] what \in {"nan", "inf"} -> [e EXCEPT !.val = what]
          [] what = "differs"      -> [e EXCEPT !.same = FALSE]
          [] what = "ref nan"      -> [e EXCEPT !.refVal = "nan"]
          [] what = "ref inf"      -> [e EXCEPT !.refVal = "inf"]
          [] what = "ref -inf"     -> [e EXCEPT !.refVal = "-inf"]
          [] what = "ref raises"   -> [e EXCEPT !.refRaises = TRUE]
          [] what = "ref shape"    -> [e EXCEPT !.refShape = "other"]
          [] what = "ref dtype"    -> [e EXCEPT !.refDtype = "other"]
          [] what = "ref n"        -> [e EXCEPT !.refN = 2]
          [] what = "mismatch"     -> [e EXCEPT !.mism = 1]
          [] OTHER                 -> e

-----------------------------------------------------------------------------
(* run_case: the first check that fails gives the note. *)

\* torch.equal is false of a NaN and itself, and blind to the dtype.
RepeatDiffers(e) ==
    \/ e.n # e.n2 \/ e.shape # e.shape2 \/ e.dtype # e.dtype2
    \/ ~e.same \/ e.val = "nan"

\* _check_out, on one tensor: the attributes of a tuple raise.
OutChecks(e) ==
    << <<e.n # 1, "EXCEPTION">>, <<e.shape # "contract", "shape">>, <<e.dtype # "contract", "dtype">> >>

\* _invalid_evidence: -inf is a mask.
InvalidEvidence(v) == v \in {"nan", "inf"}

ComposedChecks(e) ==
    << <<e.n # 1 \/ e.shape # "contract", "shape">>, <<e.dtype # "contract", "dtype">>,
       <<e.val # "finite", "non-finite">>, <<RepeatDiffers(e), "repeat">>,
       <<e.refVal # "finite", "non-finite reference">>, <<e.mism # 0, "mismatch">> >>

SelectionChecks(e) ==
    OutChecks(e) \o << <<InvalidEvidence(e.refVal), "non-finite reference">>, <<e.mism # 0, "mismatch">> >>

\* Mutant: the induced selection is a diagnostic.
LogitsChecksDiagnostic(e) ==
    OutChecks(e) \o << <<e.val # "finite", "non-finite">>, <<e.refRaises, "EXCEPTION">>,
                       <<e.refVal # "finite", "non-finite reference">> >>

LogitsChecks(e) ==
    OutChecks(e) \o << <<e.val # "finite", "non-finite">>, <<e.refRaises, "EXCEPTION">>,
                       <<e.refVal # "finite", "non-finite reference">>, <<e.mism # 0, "mismatch">> >>

SparseChecks(e) ==
    OutChecks(e) \o << <<e.val # "finite", "non-finite">>, <<e.refVal # "finite", "non-finite reference">> >>

TupleChecks(e) ==
    << <<e.refRaises, "EXCEPTION">>, <<e.n # 3, "tuple structure">>, <<e.refN # 3, "reference structure">>,
       <<e.shape # e.refShape, "shape">>, <<e.dtype # "contract", "dtype">>,
       <<e.refDtype # e.dtype, "reference contract">>,
       <<e.val # "finite" \/ e.refVal # "finite", "non-finite">> >>

\* Mutant: the reference is compared by broadcasting.
ContinuousChecksBroadcast(e) ==
    << <<e.refRaises, "EXCEPTION">> >> \o OutChecks(e)
      \o << <<e.val # "finite", "non-finite">>, <<e.refN # 1, "EXCEPTION">>,
            <<e.refVal # "finite", "non-finite reference">>, <<e.refDtype # e.dtype, "reference contract">> >>

ContinuousChecks(e) ==
    << <<e.refRaises, "EXCEPTION">> >> \o OutChecks(e)
      \o << <<e.val # "finite", "non-finite">>, <<e.refN # 1, "EXCEPTION">>,
            <<e.refVal # "finite", "non-finite reference">>, <<e.refShape # e.shape, "reference shape">>,
            <<e.refDtype # e.dtype, "reference contract">> >>

KindChecks(kind, e) ==
    CASE kind = "selection_k0"      -> OutChecks(e)
      [] kind = "selection"         -> SelectionChecks(e)
      [] kind = "logits_select"     -> LogitsChecks(e)
      [] kind = "continuous_sparse" -> SparseChecks(e)
      [] kind = "continuous_tuple3" -> TupleChecks(e)
      [] OTHER                      -> ContinuousChecks(e)

RunCase(c, e, isBound) ==
    LET checks == << <<isBound /\ c.built # "declared", "builder drift">>, <<e.raises, "EXCEPTION">> >>
                     \o (IF c.kind = "composed" THEN ComposedChecks(e)
                         ELSE << <<RepeatDiffers(e), "repeat">> >> \o KindChecks(c.kind, e))
        failed == {i \in DOMAIN checks : checks[i][1]}
    IN  IF failed = {} THEN "ok" ELSE checks[Min(failed)][2]

\* A case leaves a selection record when its mismatches were counted; the
\* composed case only when there are none.
Records(c, note) ==
    \/ c.kind \in {"selection", "logits_select"} /\ note \in {"ok", "mismatch"}
    \/ c.kind = "composed" /\ note = "ok"

-----------------------------------------------------------------------------
(* run(). *)

Inventory ==
    /\ pc = "inventory"
    /\ IF Complete(cases)
       THEN /\ bound' = {c \in cases : Coord(c) \in RequiredJointCoords}
            /\ pc' = "evaluate"
            /\ UNCHANGED rc
       ELSE /\ rc' = 2
            /\ pc' = "report"
            /\ UNCHANGED bound
    /\ UNCHANGED <<cases, fault, left, done, failures, calib, tree, promotion>>

\* What case c gives under this seed.
Seen(c, seed) == Evidence(c, IF fault.case = c /\ fault.seed = seed THEN fault.what ELSE "none")

(* One seed: every case, an exception being a failure like any other.      *)
EvaluateSeed ==
    /\ pc = "evaluate"
    /\ left # <<>>
    /\ LET at == Head(left)
           note(c) == RunCase(c, Seen(c, at[2]), c \in bound)
       IN  /\ done' = done \cup {<<c, at[1], at[2]>> : c \in cases}
           /\ failures' = failures \cup {[at |-> at, case |-> c, note |-> note(c)]
                                           : c \in {x \in cases : note(x) # "ok"}}
           /\ calib' = calib \cup {[at |-> at, case |-> c, mism |-> Seen(c, at[2]).mism]
                                     : c \in {x \in cases : Records(x, note(x))}}
    /\ left' = Tail(left)
    /\ UNCHANGED <<cases, fault, pc, bound, rc, tree, promotion>>

\* Mutant: the exit code counts the failures.
FinishCounts ==
    /\ pc = "evaluate"
    /\ left = <<>>
    /\ rc' = Cardinality(failures)
    /\ pc' = "report"
    /\ UNCHANGED <<cases, fault, bound, left, done, failures, calib, head, kept, work, edited, promotion>>

Finish ==
    /\ pc = "evaluate"
    /\ left = <<>>
    /\ rc' = IF failures = {} THEN 0 ELSE 2
    /\ pc' = "report"
    /\ UNCHANGED <<cases, fault, bound, left, done, failures, calib, tree, promotion>>

\* run() returns and its locals are gone; --calibrate leaves a file in the
\* tree.
Report ==
    /\ pc = "report"
    /\ pc' = "gate"
    /\ edited' \in {edited, TRUE}
    /\ cases' = {} /\ fault' = NoFault
    /\ bound' = {} /\ left' = <<>> /\ done' = {} /\ failures' = {} /\ calib' = {}
    /\ UNCHANGED <<rc, head, kept, work, promotion>>

\* selection_preserved of _downstream_budget: no record of the indexer has a
\* mismatch.
SelectionPreserved ==
    \A r \in calib : r.case.op = "indexer_logits" => r.mism = 0

-----------------------------------------------------------------------------
(* The gate.  Of the files it reads: the words of the status of            *)
(* acceptance_policy.json and of kernel_opt_queue.json, and approves_sha   *)
(* of promotion_approval.json, NoApproval without one.                     *)

Words == {"RATIFIED", "UNRATIFIED", "PROPOSED", "PENDING", "SCREENING", "NOT RATIFIED"}

\* _policy_ratified, on the words of the status ("UNRATIFIED" contains
\* "RATIFIED").
PolicyRatified(words) ==
    /\ words \cap {"RATIFIED", "UNRATIFIED"} # {}
    /\ "UNRATIFIED" \notin words /\ "PROPOSED" \notin words

Obligations(words) ==
    (IF "PENDING" \in words THEN {"pending"} ELSE {})
      \cup (IF "SCREENING" \in words /\ "NOT RATIFIED" \in words THEN {"screening"} ELSE {})

\* _f4_status never says PASS.
F4Status(code) == IF code = 2 THEN "FAIL" ELSE "PARTIAL"

\* Mutant: untracked files do not count as dirt (--untracked-files=no).
DirtyTracked ==
    \/ edited
    \/ work # [kept EXCEPT !.approval = IF kept.approval = NoApproval THEN work.approval ELSE kept.approval]

\* _dirty: status --porcelain prints what differs, untracked files included.
Dirty == edited \/ work # kept

\* The gate runs the harness again, with either outcome, and calls decide();
\* which has other callers, and they may say PASS.
CallDecide ==
    /\ pc = "gate" /\ gate.at = "none"
    /\ rc' \in {0, 2}
    /\ \E status \in {F4Status(rc'), "PASS"} :
          gate' = [NoGate EXCEPT !.at = "sha", !.status = status]
    /\ verdict' = NoVerdict
    /\ UNCHANGED <<cases, fault, pc, bound, left, done, failures, calib, tree>>

\* decide() reads one thing and goes on to the next.
Reads(at, read) ==
    /\ gate.at = at /\ gate' = read
    /\ UNCHANGED <<harness, tree, verdict>>

\* With git out of order the sha is Unknown ...
ReadSha ==
    \E sha \in {head, Unknown} :
        Reads("sha", [gate EXCEPT !.at = "dirty", !.sha = sha])

\* ... and, asked for apart, the tree counts as dirty.
ReadDirty ==
    \E dirty \in {Dirty, TRUE} :
        Reads("dirty", [gate EXCEPT !.at = "policy", !.dirty = dirty,
                                    !.clean = IF dirty THEN 0 ELSE head])

ReadPolicy ==
    Reads("policy", [gate EXCEPT !.at = "queue", !.ratified = PolicyRatified(work.policy)])

ReadQueue ==
    Reads("queue", [gate EXCEPT !.at = "approval", !.obliged = Obligations(work.queue)])

Reasons ==
    (IF gate.status # "PASS" THEN {"f4"} ELSE {})
      \cup (IF gate.ratified THEN {} ELSE {"policy"})
      \cup gate.obliged
      \cup (IF gate.dirty THEN {"dirty"} ELSE {})
      \cup (IF work.approval = NoApproval THEN {"no approval"} ELSE {})
      \cup (IF work.approval \notin {NoApproval, gate.sha} THEN {"stale"} ELSE {})

\* The approval is read from its file, and the record returned.
Decide ==
    /\ gate.at = "approval" /\ gate' = NoGate
    /\ verdict' = [decision |-> IF Reasons = {} THEN "PROMOTE" ELSE "BLOCKED",
                   sha |-> gate.sha, clean |-> gate.clean, late |-> gate.late]
    /\ UNCHANGED <<harness, tree>>

\* A file that somebody is writing, or has just deleted, raises.
DecideRaises ==
    /\ gate.at \in {"policy", "queue", "approval"} /\ gate' = NoGate
    /\ UNCHANGED <<harness, tree, verdict>>

-----------------------------------------------------------------------------
(* The people who work in the tree.  The harness reads nothing of it, so   *)
(* whatever they do while it runs can be taken to happen before the gate   *)
(* reads it, and the harness need run in detail only once.                 *)

\* A change of the sources, or of the policy and the queue.
EditTree ==
    /\ pc = "gate"
    /\ \/ edited' = TRUE /\ UNCHANGED work
       \/ work' = [work EXCEPT !.policy = {"RATIFIED"}, !.queue = {}] /\ UNCHANGED edited
    /\ UNCHANGED <<harness, head, kept, promotion>>

\* A person approves the commit in front of him, or any other.  The record
\* is a file of the tree that .gitignore does not name.
Approve ==
    /\ pc = "gate"
    /\ \E sha \in 1..head : work' = [work EXCEPT !.approval = sha]
    /\ gate' = [gate EXCEPT !.late = @ \/ gate.at \in {"policy", "queue", "approval"}]
    /\ UNCHANGED <<harness, head, kept, edited, verdict>>

CommitTree ==
    /\ pc = "gate"
    /\ Dirty /\ head <= MaxCommits
    /\ head' = head + 1
    /\ kept' = work
    /\ edited' = FALSE
    /\ UNCHANGED <<harness, work, promotion>>

\* What is not committed is given up.
Restore ==
    /\ pc = "gate"
    /\ work' = kept /\ edited' = FALSE
    /\ UNCHANGED <<harness, head, kept, promotion>>

-----------------------------------------------------------------------------
FaultsOf(cs) ==
    {NoFault} \cup UNION {{[case |-> c, seed |-> SeedGroups[i][2], what |-> w]
                             : i \in DOMAIN SeedGroups, w \in Mishaps(c)} : c \in cs}

Init ==
    /\ \E cs \in Manifests :
          /\ cases = cs
          /\ fault \in IF cs = Manifest THEN FaultsOf(cs) ELSE {NoFault}
    /\ pc = "inventory"
    /\ bound = {} /\ left = SeedGroups /\ done = {} /\ failures = {} /\ calib = {} /\ rc = NoCode
    /\ head = 1 /\ edited = FALSE
    /\ work = [policy |-> {"PROPOSED", "UNRATIFIED"}, queue |-> {"PENDING", "SCREENING", "NOT RATIFIED"},
               approval |-> NoApproval]
    /\ kept = work
    /\ gate = NoGate /\ verdict = NoVerdict

Next ==
    \/ Inventory \/ EvaluateSeed \/ Finish \/ Report
    \/ CallDecide \/ ReadSha \/ ReadDirty \/ ReadPolicy \/ ReadQueue \/ Decide \/ DecideRaises
    \/ EditTree \/ Approve \/ CommitTree \/ Restore

Spec == Init /\ [][Next]_vars

-----------------------------------------------------------------------------
(* Properties. *)

Notes ==
    {"builder drift", "EXCEPTION", "repeat", "shape", "dtype", "non-finite", "non-finite reference",
     "mismatch", "tuple structure", "reference structure", "reference shape", "reference contract"}

TypeOK ==
    /\ pc \in {"inventory", "evaluate", "report", "gate"}
    /\ bound \subseteq cases
    /\ \A f \in failures : f.case \in cases /\ f.note \in Notes
    /\ rc \in {0, 2, NoCode}
    /\ head \in 1..(MaxCommits + 1)
    /\ \A f \in {kept, work} : f \in [policy : SUBSET Words, queue : SUBSET Words, approval : 0..head]
    /\ gate.at \in {"none", "sha", "dirty", "policy", "queue", "approval"}
    /\ gate.sha \in 0..head /\ gate.dirty \in BOOLEAN /\ gate.clean \in 0..head
    /\ verdict.decision \in {"none", "PROMOTE", "BLOCKED"}

\* What the harness asks for, apart from the code's lists: operator, path,
\* distribution and M of the coordinates that may not go missing, and the
\* kinds of evaluation there must be one of.
Owed ==
    {<<"indexer_logits", "tiled/signed", 0, d, m>> : d \in Dists, m \in IndexerM}
      \cup {<<"compressor", "pool", s, d, 0>> : s \in Shapes, d \in Dists}
      \cup {<<"sparse", p, m, "normal", 0>> : p \in RequiredSparsePaths, m \in SparseM}

OwedKinds == {<<c.op, c.kind>> : c \in Manifest} \ {<<"indexer_topk", "selection_k0">>}

\* The case of coordinate o was evaluated under seed i, in the shape it
\* declares.
EvaluatedAt(o, i) ==
    \E t \in done :
        /\ t[1].built = "declared"
        /\ <<t[1].op, t[1].path[1], t[1].path[2], t[1].dist, t[1].m>> = o
        /\ <<t[2], t[3]>> = SeedGroups[i]

Qualified ==
    /\ \A i \in DOMAIN SeedGroups :
          /\ \A o \in Owed : EvaluatedAt(o, i)
          /\ \E m \in Bf16M : EvaluatedAt(<<"indexer_logits", "bf16kv/signed", 0, "normal", m>>, i)
    /\ OwedKinds \subseteq {<<t[1].op, t[1].kind>> : t \in done}
    /\ fault = NoFault \/ (fault.case.kind = "selection" /\ fault.what = "ref -inf")

\* The run ends with 0 exactly if every coordinate owed was evaluated, as
\* declared, under every seed of both groups, and nothing went wrong in any
\* case that was evaluated; nothing sound is refused.
ZeroIfQualified ==
    pc = "report" => (rc = 0 <=> Qualified)

\* The cases the inventory does not ask for: each may be missing from the
\* manifest, or be built in another shape, and the run still ends with 0.
Unasked ==
    {c \in Manifest :
        \/ c.op = "compressor" /\ c.path[1] = "fp32intrin"
        \/ c.kind = "continuous_masked" \/ c.op \in {"indexer_topk", "combine"}
        \/ c.path[1] = "bf16kv/signed" /\ \E m \in Bf16M : m # c.m
        \/ c.kind = "continuous_sparse" /\ ~(c.path[1] \in RequiredSparsePaths /\ c.path[2] \in SparseM)}

\* "A missing/skipped case or an exception is a FAILURE, never a silent pass",
\* the docstring (line 9) says: an exception is, and a case that is missing,
\* but for the cases above.
OnlyUnaskedIsMissed ==
    pc = "report" /\ rc = 0 => Manifest \ cases \subseteq Unasked

\* The note a mishap must be refused with ("each for the INTENDED reason").
\* A repetition is compared before the kinds look at the output, except in
\* the composed case.
Intended(c, what) ==
    CASE what \in {"raises", "ref raises"} -> {"EXCEPTION"}
      [] what = "wrong n" -> {"tuple structure", "EXCEPTION", "shape"}
      [] what \in {"wrong n2", "wrong shape2", "wrong dtype2", "differs"} -> {"repeat"}
      [] what = "nan" -> IF c.kind = "composed" THEN {"non-finite"} ELSE {"repeat"}
      [] what = "wrong shape" -> {"shape"}
      [] what = "wrong dtype" -> {"dtype"}
      [] what = "inf" -> {"non-finite"}
      [] what \in {"ref nan", "ref inf"} -> {"non-finite reference", "non-finite"}
      [] what = "ref -inf" -> {"non-finite reference", "non-finite"}
      [] what = "ref shape" -> {"reference shape", "shape"}
      [] what = "ref dtype" -> {"reference contract"}
      [] what = "ref n" -> {"reference structure", "EXCEPTION"}
      [] what = "mismatch" -> {"mismatch"}

\* Once the seed of the mishap is over, the one failure there is names the
\* case and the seed it happened in and the reason, whichever of the seven
\* kinds of evaluation the case takes; a selection among masked logits is no
\* failure.
MishapIsNamed ==
    /\ \A f \in failures :
          \/ f.case = fault.case /\ f.at[2] = fault.seed /\ f.note \in Intended(f.case, fault.what)
          \/ f.note = "builder drift" /\ f.case.built = "other"
    /\ \A t \in done :
          t[1] = fault.case /\ t[3] = fault.seed
             /\ ~(t[1].kind = "selection" /\ fault.what = "ref -inf")
          => \E f \in failures : f.case = fault.case /\ f.at = <<t[2], t[3]>>

\* Exit 0 comes with a complete record of the indexer's selections: what the
\* calibration file says of them then rests on every seed.
BudgetRestsOnAllSeeds ==
    pc = "report" /\ rc = 0 =>
        /\ SelectionPreserved
        /\ \A c \in cases, i \in DOMAIN SeedGroups :
              c.op = "indexer_logits" => \E r \in calib : r.case = c /\ r.at = SeedGroups[i]

\* The approval record is in the tree whose state it must match: as long as
\* it is not committed the tree is dirty, and committing it makes it stale.
\* So the gate promotes only what has changed between two of its reads,
\* whatever F4, policy and queue say: the record was written after the tree
\* was found clean, or committed after the sha was read, which it then names.
PromotesOnlyInRace ==
    verdict.decision = "PROMOTE" =>
        /\ verdict.sha # Unknown /\ verdict.clean # 0
        /\ verdict.late \/ verdict.sha < verdict.clean

\* The exit code and the failures reported are those of the run, whatever
\* went wrong in it.
ExitIsHonest == TypeOK /\ ZeroIfQualified /\ OnlyUnaskedIsMissed /\ MishapIsNamed

=============================================================================
