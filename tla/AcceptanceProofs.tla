-------------------------- MODULE AcceptanceProofs --------------------------
(***************************************************************************)
(* The promotion gate promotes nothing but what has changed between two of *)
(* its reads: whatever is evaluated, edited, approved or committed, in any *)
(* order and for any number of commits.                                    *)
(*                                                                         *)
(* The exit code of the harness is honest: 0 exactly if everything owed    *)
(* was evaluated and nothing went wrong.  What a list of checks says is    *)
(* worked out kind by kind (EveryNoteRight: each mishap gets the note it   *)
(* must get); the inductive invariant (HarnessInv) says which cases and    *)
(* seeds are over and that done and failures are theirs and no others.     *)
(*                                                                         *)
(* And exit 0 comes with the selection records of all seeds (BudgetInv:    *)
(* those of the seeds that are over, while nothing failed).                *)
(*                                                                         *)
(* Of the review loop, the other judge of a gate: its records agree and    *)
(* its verdicts are obeyed (LoopInv).                                      *)
(***************************************************************************)
EXTENDS Acceptance, ReviewLoop, TLAPS, WellFoundedInduction, SequenceTheorems

\* A nonempty set of naturals has a least element: what the proofs use in
\* place of induction.
LEMMA LeastElement ==
    ASSUME NEW T \in SUBSET Nat, T # {}
    PROVE  \E x \in T : \A y \in T : x <= y
<1> DEFINE Lt == {p \in Nat \X Nat : p[1] < p[2]}
<1>1. OpToRel(<, Nat) = Lt
  BY Zenon DEF OpToRel
<1>2. IsWellFoundedOn(Lt, Nat)
  BY <1>1, NatLessThanWellFounded, Zenon
<1> HIDE DEF Lt
<1>3. PICK x \in T : \A y \in T : ~(<<y, x>> \in Lt)
  BY <1>2, WFMin, Zenon
<1>4. \A y \in T : ~(y < x)
  BY <1>3 DEF Lt
<1> QED
  BY <1>4

\* The files the gate reads, in HEAD or in the working tree.
Files == [policy : SUBSET Words, queue : SUBSET Words, approval : Nat]

\* The record HEAD holds was written before HEAD was made, so it names an
\* earlier commit.
RecordIsOlder ==
    /\ head \in Nat \ {0}
    /\ kept \in Files /\ kept.approval < head
    /\ work \in Files /\ work.approval <= head

\* What decide() has read: the sha is of this or of an earlier commit; and from
\* a clean tree on, unless an approval was written since, what the record says,
\* in HEAD and in the tree, is older than the commit that was found clean.
GateReads ==
    /\ gate.at \in {"none", "sha", "dirty", "policy", "queue", "approval"}
    /\ gate.sha \in 0..head /\ gate.clean \in 0..head
    /\ gate.dirty \in BOOLEAN /\ gate.late \in BOOLEAN
    /\ gate.at \in {"policy", "queue", "approval"} =>
          /\ gate.dirty \/ (gate.clean # 0 /\ gate.sha <= gate.clean)
          /\ gate.dirty \/ gate.late
             \/ (work.approval < gate.clean /\ kept.approval < gate.clean)

\* The inductive invariant: the record in HEAD names an earlier commit, what
\* has been read of it is as old, and the gate has promoted in a race only.
GateInv == RecordIsOlder /\ GateReads /\ PromotesOnlyInRace

\* Init of the tree: HEAD is the first commit and holds no approval.
LEMMA GateInit == Init => GateInv
<1> SUFFICES ASSUME Init
             PROVE  GateInv
  OBVIOUS
<1>1. {"PROPOSED", "UNRATIFIED"} \in SUBSET Words /\ {"PENDING", "SCREENING", "NOT RATIFIED"} \in SUBSET Words
  BY DEF Words
<1>2. head = 1 /\ work \in Files /\ work.approval = 0 /\ kept = work
  BY <1>1 DEF Init, Files, NoApproval
<1>3. verdict.decision = "none" /\ gate = NoGate
  BY DEF Init, NoVerdict
<1>4. GateReads
  BY <1>2, <1>3 DEF GateReads, NoGate, Unknown
<1> QED BY <1>2, <1>3, <1>4 DEF GateInv, RecordIsOlder, PromotesOnlyInRace, Files

\* The end of decide(): a record that is older than the commit that was found
\* clean is not the one whose sha was read, unless that is older as well.
LEMMA DecideRaces ==
    ASSUME RecordIsOlder, GateReads, gate.at = "approval", Reasons = {}
    PROVE  /\ gate.sha # Unknown /\ gate.clean # 0
           /\ gate.late \/ gate.sha < gate.clean
<1>1. ~gate.dirty
  BY DEF Reasons, GateReads
<1>2. work.approval # NoApproval /\ work.approval \in {NoApproval, gate.sha}
  BY DEF Reasons
<1>3. work.approval = gate.sha /\ gate.sha # 0
  BY <1>2 DEF NoApproval
<1> QED
  BY <1>1, <1>3 DEF GateReads, Unknown

\* The steps of the gate keep the invariant ...
LEMMA DecideKeeps ==
    ASSUME GateInv, CallDecide \/ ReadSha \/ ReadDirty \/ ReadPolicy \/ ReadQueue \/ Decide
                    \/ DecideRaises
    PROVE  GateInv'
<1> USE DEF GateInv
<1>1. RecordIsOlder'
  BY DEF RecordIsOlder, CallDecide, ReadSha, ReadDirty, ReadPolicy, ReadQueue, Decide,
         DecideRaises, Reads, tree
<1>2. PromotesOnlyInRace'
  <2>1. CASE Decide
    BY <2>1, DecideRaces DEF Decide, PromotesOnlyInRace
  <2>2. CASE ~Decide
    BY <2>2 DEF CallDecide, ReadSha, ReadDirty, ReadPolicy, ReadQueue, DecideRaises, Reads,
                PromotesOnlyInRace, NoVerdict
  <2> QED BY <2>1, <2>2
<1>3. GateReads'
  <2>1. CASE CallDecide
    <3>1. gate'.at = "sha" /\ gate'.sha = 0 /\ gate'.clean = 0
          /\ gate'.dirty \in BOOLEAN /\ gate'.late \in BOOLEAN
      BY <2>1 DEF CallDecide, NoGate, Unknown
    <3>2. head' \in Nat
      BY <2>1 DEF CallDecide, tree, RecordIsOlder
    <3> QED BY <3>1, <3>2 DEF GateReads
  <2>2. CASE Decide \/ DecideRaises
    <3>1. gate'.at = "none" /\ gate'.sha = 0 /\ gate'.clean = 0
          /\ gate'.dirty \in BOOLEAN /\ gate'.late \in BOOLEAN
      <4>1. gate' = NoGate
        BY <2>2, Zenon DEF Decide, DecideRaises
      <4> QED BY <4>1 DEF NoGate, Unknown
    <3>2. head' \in Nat
      BY <2>2 DEF Decide, DecideRaises, tree, RecordIsOlder
    <3> QED BY <3>1, <3>2 DEF GateReads
  <2>3. CASE ReadSha
    <3>1. PICK sha \in {head, Unknown} : Reads("sha", [gate EXCEPT !.at = "dirty", !.sha = sha])
      BY <2>3 DEF ReadSha
    <3>2. sha \in 0..head
      BY DEF RecordIsOlder, Unknown
    <3>3. gate'.at = "dirty" /\ gate'.sha = sha /\ gate'.clean = gate.clean
          /\ gate'.dirty = gate.dirty /\ gate'.late = gate.late
      BY <3>1 DEF Reads
    <3> QED BY <3>1, <3>2, <3>3 DEF GateReads, Reads, tree
  <2>4. CASE ReadDirty
    <3>1. PICK dirty \in {Dirty, TRUE} :
              Reads("dirty", [gate EXCEPT !.at = "policy", !.dirty = dirty,
                                          !.clean = IF dirty THEN 0 ELSE head])
      BY <2>4 DEF ReadDirty
    <3>2. gate'.at = "policy" /\ gate'.sha = gate.sha /\ gate'.clean = (IF dirty THEN 0 ELSE head)
          /\ gate'.dirty = dirty /\ gate'.late = gate.late
      BY <3>1 DEF Reads
    <3>3. dirty \in BOOLEAN
      BY DEF Dirty
    <3>4. ~dirty => work = kept
      BY DEF Dirty
    <3> QED BY <3>1, <3>2, <3>3, <3>4 DEF GateReads, RecordIsOlder, Files, Reads, tree
  <2>5. CASE ReadPolicy
    <3>1. gate.at = "policy" /\ gate' = [gate EXCEPT !.at = "queue", !.ratified = PolicyRatified(work.policy)]
      BY <2>5, Zenon DEF ReadPolicy, Reads
    <3>2. gate'.at = "queue" /\ gate'.sha = gate.sha /\ gate'.clean = gate.clean
          /\ gate'.dirty = gate.dirty /\ gate'.late = gate.late
      BY <3>1
    <3>3. head' = head /\ kept' = kept /\ work' = work
      BY <2>5, Zenon DEF ReadPolicy, Reads, tree
    <3> QED BY <3>1, <3>2, <3>3 DEF GateReads
  <2>6. CASE ReadQueue
    <3>1. gate.at = "queue" /\ gate' = [gate EXCEPT !.at = "approval", !.obliged = Obligations(work.queue)]
      BY <2>6, Zenon DEF ReadQueue, Reads
    <3>2. gate'.at = "approval" /\ gate'.sha = gate.sha /\ gate'.clean = gate.clean
          /\ gate'.dirty = gate.dirty /\ gate'.late = gate.late
      BY <3>1
    <3>3. head' = head /\ kept' = kept /\ work' = work
      BY <2>6, Zenon DEF ReadQueue, Reads, tree
    <3> QED BY <3>1, <3>2, <3>3 DEF GateReads
  <2> QED BY <2>1, <2>2, <2>3, <2>4, <2>5, <2>6
<1> QED BY <1>1, <1>2, <1>3

\* ... and so do those of the people in the tree.
LEMMA PeopleKeep ==
    ASSUME GateInv, EditTree \/ Approve \/ CommitTree \/ Restore
    PROVE  GateInv'
<1> USE DEF GateInv
<1>0. verdict' = verdict
  BY DEF EditTree, Approve, CommitTree, Restore, promotion
<1>1. CASE EditTree
  <2>1. {"RATIFIED"} \in SUBSET Words /\ {} \in SUBSET Words
    BY DEF Words
  <2>2. work' \in Files /\ work'.approval = work.approval
    BY <1>1, <2>1 DEF EditTree, RecordIsOlder, Files
  <2>3. UNCHANGED <<head, kept, gate>>
    BY <1>1 DEF EditTree, promotion
  <2> QED BY <1>0, <2>2, <2>3 DEF RecordIsOlder, GateReads, PromotesOnlyInRace
<1>2. CASE Approve
  <2>1. work' \in Files /\ work'.approval \in 1..head /\ UNCHANGED <<head, kept>>
    BY <1>2 DEF Approve, RecordIsOlder, Files
  <2>2. gate' = [gate EXCEPT !.late = @ \/ gate.at \in {"policy", "queue", "approval"}]
    BY <1>2 DEF Approve
  <2>3. gate'.at = gate.at /\ gate'.sha = gate.sha /\ gate'.clean = gate.clean
        /\ gate'.dirty = gate.dirty
        /\ gate'.late = (gate.late \/ gate.at \in {"policy", "queue", "approval"})
    BY <2>2
  <2>4. RecordIsOlder'
    BY <2>1 DEF RecordIsOlder
  <2>5. GateReads'
    BY <2>1, <2>3 DEF GateReads
  <2> QED BY <1>0, <2>4, <2>5 DEF PromotesOnlyInRace
<1>3. CASE CommitTree
  <2>1. head' = head + 1 /\ kept' = work /\ UNCHANGED <<work, gate>>
    BY <1>3 DEF CommitTree, promotion
  <2>2. head \in Nat
    BY DEF RecordIsOlder
  <2>3. RecordIsOlder'
    BY <2>1, <2>2 DEF RecordIsOlder, Files
  <2>4. GateReads'
    BY <2>1, <2>2 DEF GateReads
  <2> QED BY <1>0, <2>3, <2>4 DEF PromotesOnlyInRace
<1>4. CASE Restore
  <2>1. work' = kept /\ UNCHANGED <<head, kept, gate>>
    BY <1>4 DEF Restore, promotion
  <2>2. RecordIsOlder'
    BY <2>1 DEF RecordIsOlder, Files
  <2>3. GateReads'
    BY <2>1 DEF GateReads
  <2> QED BY <1>0, <2>2, <2>3 DEF PromotesOnlyInRace
<1> QED BY <1>1, <1>2, <1>3, <1>4

\* Every step of the harness, of the gate and of the people keeps it.
LEMMA GateStep == GateInv /\ [Next]_vars => GateInv'
<1> SUFFICES ASSUME GateInv, [Next]_vars
             PROVE  GateInv'
  OBVIOUS
<1>1. CASE Inventory \/ EvaluateSeed \/ Finish \/ Report \/ UNCHANGED vars
  <2>1. UNCHANGED <<head, kept, work, promotion>>
    BY <1>1 DEF Inventory, EvaluateSeed, Finish, Report, vars, tree
  <2> QED
    BY <2>1 DEF GateInv, RecordIsOlder, GateReads, PromotesOnlyInRace, promotion
<1>2. CASE CallDecide \/ ReadSha \/ ReadDirty \/ ReadPolicy \/ ReadQueue \/ Decide \/ DecideRaises
  BY <1>2, DecideKeeps
<1>3. CASE EditTree \/ Approve \/ CommitTree \/ Restore
  BY <1>3, PeopleKeep
<1> QED BY <1>1, <1>2, <1>3 DEF Next

\* The gate promotes on an approval that is recorded where it looks for it only
\* if the record was written after the tree was found clean, or committed after
\* the sha was read: for every manifest, fault, status that its caller claims,
\* order of the steps and number of commits.
THEOREM GatePromotesOnlyInRace == Spec => []PromotesOnlyInRace
<1>1. GateInv => PromotesOnlyInRace
  BY DEF GateInv
<1> QED BY GateInit, GateStep, <1>1, PTL DEF Spec

-----------------------------------------------------------------------------
(* The note of an evaluation *)

\* A check is what it asks and the note it gives; a list of checks gives the
\* note of the first that fails.
Checks == BOOLEAN \X Notes

First(s) ==
    LET failed == {i \in DOMAIN s : s[i][1]}
    IN  IF failed = {} THEN "ok" ELSE s[Min(failed)][2]

\* The first check that fails is the one with none before it.
LEMMA FirstAt ==
    ASSUME NEW s \in Seq(Checks), NEW k \in 1..Len(s), s[k][1], \A j \in 1..(k - 1) : ~s[j][1]
    PROVE  First(s) = s[k][2]
<1> DEFINE failed == {i \in DOMAIN s : s[i][1]}
<1>1. k \in failed /\ failed \subseteq Nat /\ \A y \in failed : k <= y
  OBVIOUS
<1>2. First(s) = IF failed = {} THEN "ok" ELSE s[Min(failed)][2]
  BY Zenon DEF First
<1> HIDE DEF failed
<1>3. \A x \in failed : (\A y \in failed : x <= y) => x = k
  BY <1>1
<1>4. Min(failed) = k
  BY <1>1, <1>3 DEF Min
<1> QED
  BY <1>1, <1>2, <1>4

LEMMA FirstNone ==
    ASSUME NEW s \in Seq(Checks), \A j \in 1..Len(s) : ~s[j][1]
    PROVE  First(s) = "ok"
<1>1. {i \in DOMAIN s : s[i][1]} = {}
  OBVIOUS
<1> QED
  BY <1>1 DEF First

\* Either every check passes or one is the first that does not.
LEMMA FirstOrNone ==
    ASSUME NEW s \in Seq(Checks)
    PROVE  \/ \A j \in 1..Len(s) : ~s[j][1]
           \/ \E k \in 1..Len(s) : s[k][1] /\ \A j \in 1..(k - 1) : ~s[j][1]
<1> DEFINE failed == {i \in 1..Len(s) : s[i][1]}
<1>1. failed \in SUBSET Nat
  OBVIOUS
<1>2. failed # {} => \E x \in failed : \A y \in failed : x <= y
  <2> HIDE DEF failed
  <2> QED BY <1>1, LeastElement
<1> QED
  BY <1>2

\* Of two lists one behind the other the second counts if the first passes.
LEMMA FirstBehind ==
    ASSUME NEW s \in Seq(Checks), NEW t \in Seq(Checks)
    PROVE  /\ s \o t \in Seq(Checks)
           /\ First(s \o t) = IF First(s) = "ok" THEN First(t) ELSE First(s)
<1> DEFINE u == s \o t
<1>1. /\ u \in Seq(Checks) /\ Len(u) = Len(s) + Len(t)
      /\ \A i \in 1..Len(s) : u[i] = s[i]
      /\ \A i \in 1..Len(t) : u[Len(s) + i] = t[i]
  OBVIOUS
<1>2. \A i \in 1..Len(s) : s[i][2] # "ok"
  <2>1. \A x \in Checks : x[2] # "ok"
    BY DEF Checks, Notes
  <2> QED
    BY <2>1
<1> HIDE DEF u
<1>3. CASE \E k \in 1..Len(s) : s[k][1] /\ \A j \in 1..(k - 1) : ~s[j][1]
  <2>1. PICK k \in 1..Len(s) : s[k][1] /\ \A j \in 1..(k - 1) : ~s[j][1]
    BY <1>3
  <2>2. First(s) = s[k][2]
    BY <2>1, FirstAt
  <2>3. /\ k \in 1..Len(u) /\ u[k] = s[k]
        /\ \A j \in 1..(k - 1) : j \in 1..Len(s) /\ u[j] = s[j]
    BY <1>1
  <2>4. First(u) = u[k][2]
    BY <1>1, <2>1, <2>3, FirstAt
  <2> QED
    BY <1>1, <1>2, <2>1, <2>2, <2>4 DEF u
<1>4. CASE \A j \in 1..Len(s) : ~s[j][1]
  <2>1. First(s) = "ok"
    BY <1>4, FirstNone
  <2>2. CASE \A j \in 1..Len(t) : ~t[j][1]
    <3>1. \A j \in 1..Len(u) : ~u[j][1]
      <4> SUFFICES ASSUME NEW j \in 1..Len(u), u[j][1] PROVE FALSE
        OBVIOUS
      <4>1. j \notin 1..Len(s)
        BY <1>1, <1>4
      <4>2. j - Len(s) \in 1..Len(t) /\ j = Len(s) + (j - Len(s))
        BY <1>1, <4>1
      <4> QED BY <4>2, <1>1, <2>2
    <3>2. First(u) = "ok" /\ First(t) = "ok"
      BY <1>1, <2>2, <3>1, FirstNone
    <3> QED
      BY <1>1, <2>1, <3>2 DEF u
  <2>3. CASE \E k \in 1..Len(t) : t[k][1] /\ \A j \in 1..(k - 1) : ~t[j][1]
    <3>1. PICK k \in 1..Len(t) : t[k][1] /\ \A j \in 1..(k - 1) : ~t[j][1]
      BY <2>3
    <3> DEFINE l == Len(s) + k
    <3>2. l \in 1..Len(u) /\ u[l] = t[k]
      BY <1>1
    <3>3. \A j \in 1..(l - 1) : ~u[j][1]
      <4> SUFFICES ASSUME NEW j \in 1..(l - 1), u[j][1] PROVE FALSE
        OBVIOUS
      <4>1. j \notin 1..Len(s)
        BY <1>1, <1>4
      <4>2. j - Len(s) \in 1..Len(t) /\ j = Len(s) + (j - Len(s)) /\ j - Len(s) \in 1..(k-1)
        BY <1>1, <4>1
      <4> QED BY <4>2, <1>1, <3>1
    <3> HIDE DEF l
    <3>4. First(u) = u[l][2] /\ First(t) = t[k][2]
      BY <1>1, <3>1, <3>2, <3>3, FirstAt
    <3> QED
      BY <1>1, <2>1, <3>2, <3>4 DEF u
  <2> QED
    BY <2>2, <2>3, FirstOrNone
<1> QED
  BY <1>3, <1>4, FirstOrNone

\* The lists of one to seven checks.
LEMMA FirstOne ==
    ASSUME NEW a \in Checks
    PROVE  /\ <<a>> \in Seq(Checks)
           /\ First(<<a>>) = IF a[1] THEN a[2] ELSE "ok"
<1> DEFINE s == <<a>>
<1>1. s \in Seq(Checks) /\ Len(s) = 1 /\ s[1] = a
  OBVIOUS
<1> HIDE DEF s
<1>2. a[1] => First(s) = a[2]
  BY <1>1, FirstAt
<1>3. ~a[1] => First(s) = "ok"
  BY <1>1, FirstNone
<1> QED
  BY <1>1, <1>2, <1>3 DEF s

\* One check in front of a list.
LEMMA FirstCons ==
    ASSUME NEW a \in Checks, NEW t \in Seq(Checks)
    PROVE  /\ <<a>> \o t \in Seq(Checks)
           /\ First(<<a>> \o t) = IF a[1] THEN a[2] ELSE First(t)
<1>1. a[2] # "ok"
  BY DEF Checks, Notes
<1> QED
  BY <1>1, FirstOne, FirstBehind

LEMMA FirstTwo ==
    ASSUME NEW a \in Checks, NEW b \in Checks
    PROVE  /\ <<a, b>> \in Seq(Checks)
           /\ First(<<a, b>>) = IF a[1] THEN a[2] ELSE IF b[1] THEN b[2] ELSE "ok"
<1> DEFINE s == <<a, b>>
<1>1. s \in Seq(Checks) /\ Len(s) = 2 /\ s[1] = a /\ s[2] = b
  OBVIOUS
<1> HIDE DEF s
<1>2. a[1] => First(s) = a[2]
  BY <1>1, FirstAt
<1>3. ~a[1] /\ b[1] => First(s) = b[2]
  BY <1>1, FirstAt
<1>4. ~a[1] /\ ~b[1] => First(s) = "ok"
  BY <1>1, FirstNone
<1> QED
  BY <1>1, <1>2, <1>3, <1>4 DEF s

LEMMA FirstThree ==
    ASSUME NEW a \in Checks, NEW b \in Checks, NEW c \in Checks
    PROVE  /\ <<a, b, c>> \in Seq(Checks)
           /\ First(<<a, b, c>>) =
                  IF a[1] THEN a[2] ELSE IF b[1] THEN b[2] ELSE IF c[1] THEN c[2] ELSE "ok"
<1> DEFINE s == <<a, b, c>>
           t == <<b, c>>
<1>1. s = <<a>> \o t
  OBVIOUS
<1>2. t \in Seq(Checks) /\ First(t) = IF b[1] THEN b[2] ELSE IF c[1] THEN c[2] ELSE "ok"
  BY FirstTwo
<1> HIDE DEF s, t
<1>3. s \in Seq(Checks) /\ First(s) = IF a[1] THEN a[2] ELSE First(t)
  BY <1>1, <1>2, FirstCons
<1> QED
  BY <1>2, <1>3 DEF s, t

LEMMA FirstFour ==
    ASSUME NEW a \in Checks, NEW b \in Checks, NEW c \in Checks, NEW d \in Checks
    PROVE  /\ <<a, b, c, d>> \in Seq(Checks)
           /\ First(<<a, b, c, d>>) =
                  IF a[1] THEN a[2] ELSE IF b[1] THEN b[2] ELSE IF c[1] THEN c[2]
                  ELSE IF d[1] THEN d[2] ELSE "ok"
<1> DEFINE s == <<a, b, c, d>>
           t == <<b, c, d>>
<1>1. s = <<a>> \o t
  OBVIOUS
<1>2. t \in Seq(Checks) /\ First(t) = IF b[1] THEN b[2] ELSE IF c[1] THEN c[2]
                                       ELSE IF d[1] THEN d[2] ELSE "ok"
  BY FirstThree
<1> HIDE DEF s, t
<1>3. s \in Seq(Checks) /\ First(s) = IF a[1] THEN a[2] ELSE First(t)
  BY <1>1, <1>2, FirstCons
<1> QED
  BY <1>2, <1>3 DEF s, t

LEMMA FirstFive ==
    ASSUME NEW a \in Checks, NEW b \in Checks, NEW c \in Checks, NEW d \in Checks,
           NEW e \in Checks
    PROVE  /\ <<a, b, c, d, e>> \in Seq(Checks)
           /\ First(<<a, b, c, d, e>>) =
                  IF a[1] THEN a[2] ELSE IF b[1] THEN b[2] ELSE IF c[1] THEN c[2]
                  ELSE IF d[1] THEN d[2] ELSE IF e[1] THEN e[2] ELSE "ok"
<1> DEFINE s == <<a, b, c, d, e>>
           t == <<b, c, d, e>>
<1>1. s = <<a>> \o t
  OBVIOUS
<1>2. t \in Seq(Checks) /\ First(t) = IF b[1] THEN b[2] ELSE IF c[1] THEN c[2]
                                       ELSE IF d[1] THEN d[2] ELSE IF e[1] THEN e[2] ELSE "ok"
  BY FirstFour
<1> HIDE DEF s, t
<1>3. s \in Seq(Checks) /\ First(s) = IF a[1] THEN a[2] ELSE First(t)
  BY <1>1, <1>2, FirstCons
<1> QED
  BY <1>2, <1>3 DEF s, t

LEMMA FirstSix ==
    ASSUME NEW a \in Checks, NEW b \in Checks, NEW c \in Checks, NEW d \in Checks,
           NEW e \in Checks, NEW f \in Checks
    PROVE  /\ <<a, b, c, d, e, f>> \in Seq(Checks)
           /\ First(<<a, b, c, d, e, f>>) =
                  IF a[1] THEN a[2] ELSE IF b[1] THEN b[2] ELSE IF c[1] THEN c[2]
                  ELSE IF d[1] THEN d[2] ELSE IF e[1] THEN e[2] ELSE IF f[1] THEN f[2] ELSE "ok"
<1> DEFINE s == <<a, b, c, d, e, f>>
           t == <<b, c, d, e, f>>
<1>1. s = <<a>> \o t
  OBVIOUS
<1>2. t \in Seq(Checks) /\ First(t) = IF b[1] THEN b[2] ELSE IF c[1] THEN c[2]
                                       ELSE IF d[1] THEN d[2] ELSE IF e[1] THEN e[2]
                                       ELSE IF f[1] THEN f[2] ELSE "ok"
  BY FirstFive
<1> HIDE DEF s, t
<1>3. s \in Seq(Checks) /\ First(s) = IF a[1] THEN a[2] ELSE First(t)
  BY <1>1, <1>2, FirstCons
<1> QED
  BY <1>2, <1>3 DEF s, t

LEMMA FirstSeven ==
    ASSUME NEW a \in Checks, NEW b \in Checks, NEW c \in Checks, NEW d \in Checks,
           NEW e \in Checks, NEW f \in Checks, NEW g \in Checks
    PROVE  /\ <<a, b, c, d, e, f, g>> \in Seq(Checks)
           /\ First(<<a, b, c, d, e, f, g>>) =
                  IF a[1] THEN a[2] ELSE IF b[1] THEN b[2] ELSE IF c[1] THEN c[2]
                  ELSE IF d[1] THEN d[2] ELSE IF e[1] THEN e[2] ELSE IF f[1] THEN f[2]
                  ELSE IF g[1] THEN g[2] ELSE "ok"
<1> DEFINE s == <<a, b, c, d, e, f, g>>
           t == <<b, c, d, e, f, g>>
<1>1. s = <<a>> \o t
  OBVIOUS
<1>2. t \in Seq(Checks) /\ First(t) = IF b[1] THEN b[2] ELSE IF c[1] THEN c[2]
                                       ELSE IF d[1] THEN d[2] ELSE IF e[1] THEN e[2]
                                       ELSE IF f[1] THEN f[2] ELSE IF g[1] THEN g[2] ELSE "ok"
  BY FirstSix
<1> HIDE DEF s, t
<1>3. s \in Seq(Checks) /\ First(s) = IF a[1] THEN a[2] ELSE First(t)
  BY <1>1, <1>2, FirstCons
<1> QED
  BY <1>2, <1>3 DEF s, t

\* What a mishap does to the evidence: to the candidate, to its repetition
\* and to the reference, each mishap to one part of it.
CandidateAs(e, c, what) ==
    /\ e.raises \in BOOLEAN /\ (e.raises <=> what = "raises")
    /\ e.n # OutputsOf(c) <=> what = "wrong n"
    /\ e.shape # "contract" <=> what = "wrong shape"
    /\ e.dtype # "contract" <=> what = "wrong dtype"
    /\ e.val # "finite" <=> what \in {"nan", "inf"}

RepeatAs(e, what) ==
    RepeatDiffers(e) <=> what \in {"wrong n2", "wrong shape2", "wrong dtype2", "differs", "nan"}

ReferenceAs(e, c, what) ==
    /\ e.refRaises \in BOOLEAN /\ (e.refRaises <=> what = "ref raises")
    /\ e.refN # OutputsOf(c) <=> what = "ref n"
    /\ e.refShape # e.shape <=> what \in {"wrong shape", "ref shape"}
    /\ e.refDtype # e.dtype <=> what \in {"wrong dtype", "ref dtype"}
    /\ e.refVal # "finite" <=> what \in {"ref nan", "ref inf", "ref -inf"}
    /\ InvalidEvidence(e.refVal) <=> what \in {"ref nan", "ref inf"}
    /\ e.mism # 0 <=> what = "mismatch"

\* These are what the evidence of a mishap is.
LEMMA EvidenceIs ==
    ASSUME NEW c, NEW what, NEW e, e = Evidence(c, what)
    PROVE  CandidateAs(e, c, what) /\ RepeatAs(e, what) /\ ReferenceAs(e, c, what)
<1>1. OutputsOf(c) # 2
  BY DEF OutputsOf
<1>2. CandidateAs(e, c, what)
  <2>1. /\ e.raises \in BOOLEAN /\ (e.raises <=> what = "raises")
        /\ e.n = (IF what = "wrong n" THEN 2 ELSE OutputsOf(c))
    BY DEF Evidence, Clean
  <2>2. /\ e.shape = (IF what = "wrong shape" THEN "other" ELSE "contract")
        /\ e.dtype = (IF what = "wrong dtype" THEN "other" ELSE "contract")
        /\ e.val = (IF what \in {"nan", "inf"} THEN what ELSE "finite")
    BY DEF Evidence, Clean
  <2> QED
    BY <1>1, <2>1, <2>2 DEF CandidateAs
<1>3. ReferenceAs(e, c, what)
  <2>1. /\ e.refRaises \in BOOLEAN /\ (e.refRaises <=> what = "ref raises")
        /\ e.refN = (IF what = "ref n" THEN 2 ELSE OutputsOf(c))
        /\ e.mism = (IF what = "mismatch" THEN 1 ELSE 0)
    BY DEF Evidence, Clean
  <2>2. /\ e.shape = (IF what = "wrong shape" THEN "other" ELSE "contract")
        /\ e.dtype = (IF what = "wrong dtype" THEN "other" ELSE "contract")
        /\ e.refShape = (IF what = "ref shape" THEN "other" ELSE "contract")
        /\ e.refDtype = (IF what = "ref dtype" THEN "other" ELSE "contract")
    BY DEF Evidence, Clean
  <2>3. e.refVal = (IF what = "ref nan" THEN "nan" ELSE IF what = "ref inf" THEN "inf"
                    ELSE IF what = "ref -inf" THEN "-inf" ELSE "finite")
    BY DEF Evidence, Clean
  <2>4. /\ e.refVal # "finite" <=> what \in {"ref nan", "ref inf", "ref -inf"}
        /\ InvalidEvidence(e.refVal) <=> what \in {"ref nan", "ref inf"}
    BY <2>3 DEF InvalidEvidence
  <2>5. e.refN # OutputsOf(c) <=> what = "ref n"
    BY <1>1, <2>1
  <2>6. /\ e.refShape # e.shape <=> what \in {"wrong shape", "ref shape"}
        /\ e.refDtype # e.dtype <=> what \in {"wrong dtype", "ref dtype"}
    BY <2>2
  <2>7. e.mism # 0 <=> what = "mismatch"
    <3>1. e.mism = (IF what = "mismatch" THEN 1 ELSE 0)
      BY <2>1
    <3>2. 1 # 0
      OBVIOUS
    <3> QED
      BY <3>1, <3>2, Zenon
  <2> QED
    BY <2>1, <2>4, <2>5, <2>6, <2>7, Zenon DEF ReferenceAs
<1>4. RepeatAs(e, what)
  <2>1. /\ e.same <=> what # "differs"
        /\ e.n = (IF what = "wrong n" THEN 2 ELSE OutputsOf(c))
        /\ e.n2 = (IF what \in {"wrong n", "wrong n2"} THEN 2 ELSE OutputsOf(c))
        /\ e.val = "nan" <=> what = "nan"
    BY DEF Evidence, Clean
  <2>2. /\ e.shape = (IF what = "wrong shape" THEN "other" ELSE "contract")
        /\ e.shape2 = (IF what \in {"wrong shape", "wrong shape2"} THEN "other" ELSE "contract")
        /\ e.dtype = (IF what = "wrong dtype" THEN "other" ELSE "contract")
        /\ e.dtype2 = (IF what \in {"wrong dtype", "wrong dtype2"} THEN "other" ELSE "contract")
    BY DEF Evidence, Clean
  <2> QED
    BY <1>1, <2>1, <2>2 DEF RepeatDiffers, RepeatAs
<1> QED
  BY <1>2, <1>3, <1>4

\* A condition and a note make a check.
LEMMA CheckIs ==
    ASSUME NEW p \in BOOLEAN, NEW n \in Notes
    PROVE  <<p, n>> \in Checks /\ <<p, n>>[1] = p /\ <<p, n>>[2] = n
  BY DEF Checks

\* The note of the checks on a single tensor, with others behind them.
OutNote(x, rest) ==
    IF x.n # 1 THEN "EXCEPTION" ELSE IF x.shape # "contract" THEN "shape"
    ELSE IF x.dtype # "contract" THEN "dtype" ELSE rest

\* The note of each list of checks, spelled out from here on.
LEMMA OutAlone ==
    ASSUME NEW x
    PROVE  OutChecks(x) \in Seq(Checks) /\ First(OutChecks(x)) = OutNote(x, "ok")
<1> DEFINE a == <<x.n # 1, "EXCEPTION">>
           b == <<x.shape # "contract", "shape">>
           c == <<x.dtype # "contract", "dtype">>
<1>1. a \in Checks /\ a[1] = (x.n # 1) /\ a[2] = "EXCEPTION"
  BY DEF Checks, Notes
<1>2. b \in Checks /\ b[1] = (x.shape # "contract") /\ b[2] = "shape"
  BY DEF Checks, Notes
<1>3. c \in Checks /\ c[1] = (x.dtype # "contract") /\ c[2] = "dtype"
  BY DEF Checks, Notes
<1>4. OutChecks(x) = <<a, b, c>>
  BY Zenon DEF OutChecks
<1> HIDE DEF a, b, c
<1>5. a \in Checks /\ b \in Checks /\ c \in Checks
  BY <1>1, <1>2, <1>3
<1>6. /\ <<a, b, c>> \in Seq(Checks)
      /\ First(<<a, b, c>>) =
             IF a[1] THEN a[2] ELSE IF b[1] THEN b[2] ELSE IF c[1] THEN c[2] ELSE "ok"
  BY <1>5, FirstThree
<1> QED
  BY <1>1, <1>2, <1>3, <1>4, <1>6 DEF OutNote

\* The checks of a single tensor with a list behind them.
LEMMA OutFirst ==
    ASSUME NEW x, NEW t \in Seq(Checks)
    PROVE  OutChecks(x) \o t \in Seq(Checks) /\ First(OutChecks(x) \o t) = OutNote(x, First(t))
<1> DEFINE u == OutChecks(x)
<1>1. u \in Seq(Checks) /\ First(u) = OutNote(x, "ok")
  BY OutAlone DEF OutNote
<1> HIDE DEF u
<1>2. u \o t \in Seq(Checks) /\ First(u \o t) = IF First(u) = "ok" THEN First(t) ELSE First(u)
  BY <1>1, FirstBehind
<1> QED
  BY <1>1, <1>2 DEF OutNote, u

SelectionNote(x) ==
    OutNote(x,
       IF InvalidEvidence(x.refVal) THEN "non-finite reference"
       ELSE IF x.mism # 0 THEN "mismatch" ELSE "ok")

LEMMA SelectionFirst ==
    ASSUME NEW x
    PROVE  SelectionChecks(x) \in Seq(Checks) /\ First(SelectionChecks(x)) = SelectionNote(x)
<1> DEFINE a == <<InvalidEvidence(x.refVal), "non-finite reference">>
           b == <<x.mism # 0, "mismatch">>
<1>1. a \in Checks /\ a[1] = (InvalidEvidence(x.refVal)) /\ a[2] = "non-finite reference"
  <2>1. InvalidEvidence(x.refVal) \in BOOLEAN /\ "non-finite reference" \in Notes
    BY DEF InvalidEvidence, Notes
  <2> QED
    BY <2>1, CheckIs
<1>2. b \in Checks /\ b[1] = (x.mism # 0) /\ b[2] = "mismatch"
  BY DEF Checks, Notes
<1>3. SelectionChecks(x) = OutChecks(x) \o <<a, b>>
  BY Zenon DEF SelectionChecks
<1> HIDE DEF a, b
<1>4. a \in Checks /\ b \in Checks
  BY <1>1, <1>2
<1>5. /\ <<a, b>> \in Seq(Checks)
      /\ First(<<a, b>>) =
             IF a[1] THEN a[2] ELSE IF b[1] THEN b[2] ELSE "ok"
  BY <1>4, FirstTwo
<1> DEFINE t == <<a, b>>
<1>6. t \in Seq(Checks) /\ First(t) =
             IF InvalidEvidence(x.refVal) THEN "non-finite reference"
             ELSE IF x.mism # 0 THEN "mismatch" ELSE "ok"
  BY <1>1, <1>2, <1>5
<1> HIDE DEF t
<1>7. OutChecks(x) \o t \in Seq(Checks) /\ First(OutChecks(x) \o t) = OutNote(x, First(t))
  BY <1>6, OutFirst
<1> QED
  BY <1>3, <1>6, <1>7 DEF t, SelectionNote

LogitsNote(x) ==
    OutNote(x,
       IF x.val # "finite" THEN "non-finite" ELSE IF x.refRaises THEN "EXCEPTION"
       ELSE IF x.refVal # "finite" THEN "non-finite reference"
       ELSE IF x.mism # 0 THEN "mismatch" ELSE "ok")

LEMMA LogitsFirst ==
    ASSUME NEW x, x.refRaises \in BOOLEAN
    PROVE  LogitsChecks(x) \in Seq(Checks) /\ First(LogitsChecks(x)) = LogitsNote(x)
<1> DEFINE a == <<x.val # "finite", "non-finite">>
           b == <<x.refRaises, "EXCEPTION">>
           c == <<x.refVal # "finite", "non-finite reference">>
           d == <<x.mism # 0, "mismatch">>
<1>1. a \in Checks /\ a[1] = (x.val # "finite") /\ a[2] = "non-finite"
  BY DEF Checks, Notes
<1>2. b \in Checks /\ b[1] = (x.refRaises) /\ b[2] = "EXCEPTION"
  BY DEF Checks, Notes
<1>3. c \in Checks /\ c[1] = (x.refVal # "finite") /\ c[2] = "non-finite reference"
  BY DEF Checks, Notes
<1>4. d \in Checks /\ d[1] = (x.mism # 0) /\ d[2] = "mismatch"
  BY DEF Checks, Notes
<1>5. LogitsChecks(x) = OutChecks(x) \o <<a, b, c, d>>
  BY Zenon DEF LogitsChecks
<1> HIDE DEF a, b, c, d
<1>6. a \in Checks /\ b \in Checks /\ c \in Checks /\ d \in Checks
  BY <1>1, <1>2, <1>3, <1>4
<1>7. /\ <<a, b, c, d>> \in Seq(Checks)
      /\ First(<<a, b, c, d>>) =
             IF a[1] THEN a[2] ELSE IF b[1] THEN b[2] ELSE IF c[1] THEN c[2]
             ELSE IF d[1] THEN d[2] ELSE "ok"
  BY <1>6, FirstFour
<1> DEFINE t == <<a, b, c, d>>
<1>8. t \in Seq(Checks) /\ First(t) =
             IF x.val # "finite" THEN "non-finite" ELSE IF x.refRaises THEN "EXCEPTION"
             ELSE IF x.refVal # "finite" THEN "non-finite reference"
             ELSE IF x.mism # 0 THEN "mismatch" ELSE "ok"
  BY <1>1, <1>2, <1>3, <1>4, <1>7
<1> HIDE DEF t
<1>9. OutChecks(x) \o t \in Seq(Checks) /\ First(OutChecks(x) \o t) = OutNote(x, First(t))
  BY <1>8, OutFirst
<1> QED
  BY <1>5, <1>8, <1>9 DEF t, LogitsNote

SparseNote(x) ==
    OutNote(x,
       IF x.val # "finite" THEN "non-finite"
       ELSE IF x.refVal # "finite" THEN "non-finite reference" ELSE "ok")

LEMMA SparseFirst ==
    ASSUME NEW x
    PROVE  SparseChecks(x) \in Seq(Checks) /\ First(SparseChecks(x)) = SparseNote(x)
<1> DEFINE a == <<x.val # "finite", "non-finite">>
           b == <<x.refVal # "finite", "non-finite reference">>
<1>1. a \in Checks /\ a[1] = (x.val # "finite") /\ a[2] = "non-finite"
  BY DEF Checks, Notes
<1>2. b \in Checks /\ b[1] = (x.refVal # "finite") /\ b[2] = "non-finite reference"
  BY DEF Checks, Notes
<1>3. SparseChecks(x) = OutChecks(x) \o <<a, b>>
  BY Zenon DEF SparseChecks
<1> HIDE DEF a, b
<1>4. a \in Checks /\ b \in Checks
  BY <1>1, <1>2
<1>5. /\ <<a, b>> \in Seq(Checks)
      /\ First(<<a, b>>) =
             IF a[1] THEN a[2] ELSE IF b[1] THEN b[2] ELSE "ok"
  BY <1>4, FirstTwo
<1> DEFINE t == <<a, b>>
<1>6. t \in Seq(Checks) /\ First(t) =
             IF x.val # "finite" THEN "non-finite"
             ELSE IF x.refVal # "finite" THEN "non-finite reference" ELSE "ok"
  BY <1>1, <1>2, <1>5
<1> HIDE DEF t
<1>7. OutChecks(x) \o t \in Seq(Checks) /\ First(OutChecks(x) \o t) = OutNote(x, First(t))
  BY <1>6, OutFirst
<1> QED
  BY <1>3, <1>6, <1>7 DEF t, SparseNote

TupleNote(x) ==
    IF x.refRaises THEN "EXCEPTION" ELSE IF x.n # 3 THEN "tuple structure"
    ELSE IF x.refN # 3 THEN "reference structure"
    ELSE IF x.shape # x.refShape THEN "shape"
    ELSE IF x.dtype # "contract" THEN "dtype"
    ELSE IF x.refDtype # x.dtype THEN "reference contract"
    ELSE IF x.val # "finite" \/ x.refVal # "finite" THEN "non-finite" ELSE "ok"

LEMMA TupleFirst ==
    ASSUME NEW x, x.refRaises \in BOOLEAN
    PROVE  TupleChecks(x) \in Seq(Checks) /\ First(TupleChecks(x)) = TupleNote(x)
<1> DEFINE a == <<x.refRaises, "EXCEPTION">>
           b == <<x.n # 3, "tuple structure">>
           c == <<x.refN # 3, "reference structure">>
           d == <<x.shape # x.refShape, "shape">>
           e == <<x.dtype # "contract", "dtype">>
           f == <<x.refDtype # x.dtype, "reference contract">>
           g == <<x.val # "finite" \/ x.refVal # "finite", "non-finite">>
<1>1. a \in Checks /\ a[1] = (x.refRaises) /\ a[2] = "EXCEPTION"
  BY DEF Checks, Notes
<1>2. b \in Checks /\ b[1] = (x.n # 3) /\ b[2] = "tuple structure"
  BY DEF Checks, Notes
<1>3. c \in Checks /\ c[1] = (x.refN # 3) /\ c[2] = "reference structure"
  BY DEF Checks, Notes
<1>4. d \in Checks /\ d[1] = (x.shape # x.refShape) /\ d[2] = "shape"
  BY DEF Checks, Notes
<1>5. e \in Checks /\ e[1] = (x.dtype # "contract") /\ e[2] = "dtype"
  BY DEF Checks, Notes
<1>6. f \in Checks /\ f[1] = (x.refDtype # x.dtype) /\ f[2] = "reference contract"
  BY DEF Checks, Notes
<1>7. g \in Checks /\ g[1] = (x.val # "finite" \/ x.refVal # "finite") /\ g[2] = "non-finite"
  BY DEF Checks, Notes
<1>8. TupleChecks(x) = <<a, b, c, d, e, f, g>>
  BY Zenon DEF TupleChecks
<1> HIDE DEF a, b, c, d, e, f, g
<1>9. a \in Checks /\ b \in Checks /\ c \in Checks /\ d \in Checks /\ e \in Checks /\ f \in Checks /\ g \in Checks
  BY <1>1, <1>2, <1>3, <1>4, <1>5, <1>6, <1>7
<1>10. /\ <<a, b, c, d, e, f, g>> \in Seq(Checks)
      /\ First(<<a, b, c, d, e, f, g>>) =
             IF a[1] THEN a[2] ELSE IF b[1] THEN b[2] ELSE IF c[1] THEN c[2]
             ELSE IF d[1] THEN d[2] ELSE IF e[1] THEN e[2] ELSE IF f[1] THEN f[2]
             ELSE IF g[1] THEN g[2] ELSE "ok"
  BY <1>9, FirstSeven, SMTT(60)
<1> QED
  BY <1>1, <1>2, <1>3, <1>4, <1>5, <1>6, <1>7, <1>8, <1>10 DEF TupleNote

ComposedNote(x) ==
    IF x.n # 1 \/ x.shape # "contract" THEN "shape"
    ELSE IF x.dtype # "contract" THEN "dtype"
    ELSE IF x.val # "finite" THEN "non-finite"
    ELSE IF RepeatDiffers(x) THEN "repeat"
    ELSE IF x.refVal # "finite" THEN "non-finite reference"
    ELSE IF x.mism # 0 THEN "mismatch" ELSE "ok"

LEMMA ComposedFirst ==
    ASSUME NEW x
    PROVE  ComposedChecks(x) \in Seq(Checks) /\ First(ComposedChecks(x)) = ComposedNote(x)
<1> DEFINE a == <<x.n # 1 \/ x.shape # "contract", "shape">>
           b == <<x.dtype # "contract", "dtype">>
           c == <<x.val # "finite", "non-finite">>
           d == <<RepeatDiffers(x), "repeat">>
           e == <<x.refVal # "finite", "non-finite reference">>
           f == <<x.mism # 0, "mismatch">>
<1>1. a \in Checks /\ a[1] = (x.n # 1 \/ x.shape # "contract") /\ a[2] = "shape"
  BY DEF Checks, Notes
<1>2. b \in Checks /\ b[1] = (x.dtype # "contract") /\ b[2] = "dtype"
  BY DEF Checks, Notes
<1>3. c \in Checks /\ c[1] = (x.val # "finite") /\ c[2] = "non-finite"
  BY DEF Checks, Notes
<1>4. d \in Checks /\ d[1] = (RepeatDiffers(x)) /\ d[2] = "repeat"
  BY DEF Checks, Notes, RepeatDiffers
<1>5. e \in Checks /\ e[1] = (x.refVal # "finite") /\ e[2] = "non-finite reference"
  BY DEF Checks, Notes
<1>6. f \in Checks /\ f[1] = (x.mism # 0) /\ f[2] = "mismatch"
  BY DEF Checks, Notes
<1>7. ComposedChecks(x) = <<a, b, c, d, e, f>>
  BY Zenon DEF ComposedChecks
<1> HIDE DEF a, b, c, d, e, f
<1>8. a \in Checks /\ b \in Checks /\ c \in Checks /\ d \in Checks /\ e \in Checks /\ f \in Checks
  BY <1>1, <1>2, <1>3, <1>4, <1>5, <1>6
<1>9. /\ <<a, b, c, d, e, f>> \in Seq(Checks)
      /\ First(<<a, b, c, d, e, f>>) =
             IF a[1] THEN a[2] ELSE IF b[1] THEN b[2] ELSE IF c[1] THEN c[2]
             ELSE IF d[1] THEN d[2] ELSE IF e[1] THEN e[2] ELSE IF f[1] THEN f[2] ELSE "ok"
  BY <1>8, FirstSix
<1> QED
  BY <1>1, <1>2, <1>3, <1>4, <1>5, <1>6, <1>7, <1>9 DEF ComposedNote

ContinuousNote(x) ==
    IF x.refRaises THEN "EXCEPTION" ELSE OutNote(x,
       IF x.val # "finite" THEN "non-finite" ELSE IF x.refN # 1 THEN "EXCEPTION"
       ELSE IF x.refVal # "finite" THEN "non-finite reference"
       ELSE IF x.refShape # x.shape THEN "reference shape"
       ELSE IF x.refDtype # x.dtype THEN "reference contract" ELSE "ok")

LEMMA ContinuousFirst ==
    ASSUME NEW x, x.refRaises \in BOOLEAN
    PROVE  ContinuousChecks(x) \in Seq(Checks) /\ First(ContinuousChecks(x)) = ContinuousNote(x)
<1> DEFINE a == <<x.val # "finite", "non-finite">>
           b == <<x.refN # 1, "EXCEPTION">>
           c == <<x.refVal # "finite", "non-finite reference">>
           d == <<x.refShape # x.shape, "reference shape">>
           e == <<x.refDtype # x.dtype, "reference contract">>
<1>1. a \in Checks /\ a[1] = (x.val # "finite") /\ a[2] = "non-finite"
  BY DEF Checks, Notes
<1>2. b \in Checks /\ b[1] = (x.refN # 1) /\ b[2] = "EXCEPTION"
  BY DEF Checks, Notes
<1>3. c \in Checks /\ c[1] = (x.refVal # "finite") /\ c[2] = "non-finite reference"
  BY DEF Checks, Notes
<1>4. d \in Checks /\ d[1] = (x.refShape # x.shape) /\ d[2] = "reference shape"
  BY DEF Checks, Notes
<1>5. e \in Checks /\ e[1] = (x.refDtype # x.dtype) /\ e[2] = "reference contract"
  BY DEF Checks, Notes
<1>6. ContinuousChecks(x) = (<<<<x.refRaises, "EXCEPTION">>>> \o OutChecks(x)) \o <<a, b, c, d, e>>
  BY Zenon DEF ContinuousChecks
<1> HIDE DEF a, b, c, d, e
<1>7. a \in Checks /\ b \in Checks /\ c \in Checks /\ d \in Checks /\ e \in Checks
  BY <1>1, <1>2, <1>3, <1>4, <1>5
<1>8. /\ <<a, b, c, d, e>> \in Seq(Checks)
      /\ First(<<a, b, c, d, e>>) =
             IF a[1] THEN a[2] ELSE IF b[1] THEN b[2] ELSE IF c[1] THEN c[2]
             ELSE IF d[1] THEN d[2] ELSE IF e[1] THEN e[2] ELSE "ok"
  BY <1>7, FirstFive
<1> DEFINE t == <<a, b, c, d, e>>
<1>9. t \in Seq(Checks) /\ First(t) =
             IF x.val # "finite" THEN "non-finite" ELSE IF x.refN # 1 THEN "EXCEPTION"
             ELSE IF x.refVal # "finite" THEN "non-finite reference"
             ELSE IF x.refShape # x.shape THEN "reference shape"
             ELSE IF x.refDtype # x.dtype THEN "reference contract" ELSE "ok"
  BY <1>1, <1>2, <1>3, <1>4, <1>5, <1>8
<1> HIDE DEF t
<1> DEFINE r == <<x.refRaises, "EXCEPTION">>
           o == OutChecks(x)
           u == <<r>> \o o
<1>10. r \in Checks /\ r[1] = x.refRaises /\ r[2] = "EXCEPTION"
  BY DEF Checks, Notes
<1>11. ContinuousChecks(x) = u \o t
  BY <1>6, Zenon DEF t
<1>12. o \in Seq(Checks) /\ First(o) = OutNote(x, "ok")
  BY OutAlone DEF OutNote
<1> HIDE DEF r, o
<1>13. u \in Seq(Checks) /\ First(u) = IF r[1] THEN r[2] ELSE First(o)
  BY <1>10, <1>12, FirstCons
<1> HIDE DEF u
<1>14. u \o t \in Seq(Checks) /\ First(u \o t) = IF First(u) = "ok" THEN First(t) ELSE First(u)
  BY <1>9, <1>13, FirstBehind
<1> QED
  BY <1>9, <1>10, <1>11, <1>12, <1>13, <1>14 DEF OutNote, ContinuousNote


\* The checks behind the first two, and the note that the first two leave.
KindsChecks(c, x) ==
    IF c.kind = "composed" THEN ComposedChecks(x)
    ELSE << <<RepeatDiffers(x), "repeat">> >> \o KindChecks(c.kind, x)

Asked(c, x, b, rest) ==
    IF b /\ c.built # "declared" THEN "builder drift" ELSE IF x.raises THEN "EXCEPTION" ELSE rest

\* The note of a case: what any evaluation is asked first, then its kind.
LEMMA RunCaseIs ==
    ASSUME NEW c, NEW x, x.raises \in BOOLEAN, NEW b \in BOOLEAN, NEW rest \in Seq(Checks),
           rest = KindsChecks(c, x)
    PROVE  RunCase(c, x, b) = Asked(c, x, b, First(rest))
<1> DEFINE p == <<b /\ c.built # "declared", "builder drift">>
           q == <<x.raises, "EXCEPTION">>
           u == <<p, q>>
           s == u \o rest
<1>1. p \in Checks /\ p[1] = (b /\ c.built # "declared") /\ p[2] = "builder drift"
  BY DEF Checks, Notes
<1>2. q \in Checks /\ q[1] = x.raises /\ q[2] = "EXCEPTION"
  BY DEF Checks, Notes
<1>3. RunCase(c, x, b) = First(s)
  BY Zenon DEF RunCase, First, KindsChecks
<1> HIDE DEF p, q
<1>4. u \in Seq(Checks) /\ First(u) = IF p[1] THEN p[2] ELSE IF q[1] THEN q[2] ELSE "ok"
  BY <1>1, <1>2, FirstTwo
<1> HIDE DEF u
<1>5. First(s) = IF First(u) = "ok" THEN First(rest) ELSE First(u)
  BY <1>4, FirstBehind
<1> QED
  BY <1>1, <1>2, <1>3, <1>4, <1>5 DEF Asked

\* Of all kinds but the composed one the repetition is compared first.
LEMMA KindNote ==
    ASSUME NEW c, NEW x, x.raises \in BOOLEAN, NEW b \in BOOLEAN, c.kind # "composed",
           NEW k \in Seq(Checks), k = KindChecks(c.kind, x),
           NEW n, n = IF RepeatDiffers(x) THEN "repeat" ELSE First(k)
    PROVE  RunCase(c, x, b) = Asked(c, x, b, n)
<1> DEFINE a == <<RepeatDiffers(x), "repeat">>
           rest == <<a>> \o k
<1>1. a \in Checks /\ a[1] = RepeatDiffers(x) /\ a[2] = "repeat"
  BY DEF Checks, Notes, RepeatDiffers
<1>2. KindsChecks(c, x) = rest
  BY Zenon DEF KindsChecks
<1> HIDE DEF a
<1>3. rest \in Seq(Checks) /\ First(rest) = IF a[1] THEN a[2] ELSE First(k)
  BY <1>1, FirstCons
<1> HIDE DEF rest
<1>4. RunCase(c, x, b) = Asked(c, x, b, First(rest))
  BY <1>2, <1>3, RunCaseIs
<1> QED
  BY <1>1, <1>3, <1>4

\* What is no failure: nothing goes wrong, or a selection is made among
\* masked logits.
Excused(c, what) == what = "none" \/ (c.kind = "selection" /\ what = "ref -inf")

\* A note as it should be: of a bound case that is built otherwise, of a case
\* in which nothing is wrong, of one with a mishap.
Right(c, what, b, note) ==
    IF b /\ c.built # "declared" THEN note = "builder drift"
    ELSE IF Excused(c, what) THEN note = "ok"
    ELSE note \in Intended(c, what) \cap Notes

\* The same of the note that the checks behind the first two give.
NoteRight(c, what, note) ==
    IF Excused(c, what) THEN note = "ok" ELSE note \in Intended(c, what) \cap Notes

\* The first two checks keep a note right, the second being the exception's.
LEMMA AskedRight ==
    ASSUME NEW c, NEW what, NEW b \in BOOLEAN, NEW x, x.raises <=> what = "raises",
           NEW n, what # "raises" => NoteRight(c, what, n)
    PROVE  Right(c, what, b, Asked(c, x, b, n))
<1>1. CASE b /\ c.built # "declared"
  BY <1>1 DEF Asked, Right
<1>2. CASE ~(b /\ c.built # "declared") /\ what = "raises"
  <2>1. Asked(c, x, b, n) = "EXCEPTION" /\ ~Excused(c, what)
    BY <1>2 DEF Asked, Excused
  <2>2. "EXCEPTION" \in Intended(c, what) \cap Notes
    BY <1>2 DEF Intended, Notes
  <2> QED
    BY <1>2, <2>1, <2>2 DEF Right
<1>3. CASE ~(b /\ c.built # "declared") /\ what # "raises"
  BY <1>3 DEF Asked, Right, NoteRight
<1> QED
  BY <1>1, <1>2, <1>3

\* What the checks of the kind must say where neither the exception nor the
\* repetition has said it before them.
OwnRight(c, what, note) ==
    what \notin {"raises", "wrong n2", "wrong shape2", "wrong dtype2", "differs", "nan"}
    => NoteRight(c, what, note)

\* A kind that compares the repetition first is right if its own checks are.
LEMMA KindRight ==
    ASSUME NEW c, c.kind # "composed", NEW what, NEW b \in BOOLEAN, NEW x, x = Evidence(c, what),
           NEW k \in Seq(Checks), k = KindChecks(c.kind, x), OwnRight(c, what, First(k))
    PROVE  Right(c, what, b, RunCase(c, x, b))
<1>1. PICK n : n = IF RepeatDiffers(x) THEN "repeat" ELSE First(k)
  OBVIOUS
<1>2. CandidateAs(x, c, what) /\ RepeatAs(x, what)
  BY EvidenceIs
<1>3. x.raises \in BOOLEAN /\ (x.raises <=> what = "raises")
  BY <1>2 DEF CandidateAs
<1>4. RunCase(c, x, b) = Asked(c, x, b, n)
  <2>1. x.raises \in BOOLEAN
    BY <1>3
  <2> QED
    BY <1>1, <2>1, KindNote
<1>5. what # "raises" => NoteRight(c, what, n)
  <2>1. CASE what \in {"wrong n2", "wrong shape2", "wrong dtype2", "differs", "nan"}
    <3>1. n = "repeat" /\ ~Excused(c, what)
      BY <1>1, <1>2, <2>1 DEF RepeatAs, Excused
    <3>2. "repeat" \in Intended(c, what) \cap Notes
      BY <2>1 DEF Intended, Notes
    <3> QED
      BY <3>1, <3>2 DEF NoteRight
  <2>2. CASE what \notin {"wrong n2", "wrong shape2", "wrong dtype2", "differs", "nan"}
    BY <1>1, <1>2, <2>2 DEF RepeatAs, OwnRight
  <2> QED
    BY <2>1, <2>2
<1> QED
  BY <1>3, <1>4, <1>5, AskedRight

\* Kind by kind: which mishap gets which note.
LEMMA SelectionRight ==
    ASSUME NEW c, c.kind = "selection", NEW what \in Mishaps(c) \cup {"none"}, NEW b \in BOOLEAN
    PROVE  Right(c, what, b, RunCase(c, Evidence(c, what), b))
<1> DEFINE x == Evidence(c, what)
           k == SelectionChecks(x)
<1>1. CandidateAs(x, c, what) /\ ReferenceAs(x, c, what)
  BY EvidenceIs
<1>2. OutputsOf(c) = 1
  BY DEF OutputsOf
<1> HIDE DEF x
<1>3. k = KindChecks(c.kind, x)
  BY DEF KindChecks
<1>4. k \in Seq(Checks) /\ First(k) = SelectionNote(x)
  <2>1. x.refRaises \in BOOLEAN
    BY <1>1 DEF ReferenceAs
  <2> QED
    BY <2>1, SelectionFirst
<1> HIDE DEF k
<1>5. First(k) = IF what = "wrong n" THEN "EXCEPTION" ELSE IF what = "wrong shape" THEN "shape"
                   ELSE IF what = "wrong dtype" THEN "dtype"
                   ELSE IF what \in {"ref nan", "ref inf"} THEN "non-finite reference"
                   ELSE IF what = "mismatch" THEN "mismatch" ELSE "ok"
  BY <1>1, <1>2, <1>4 DEF SelectionNote, OutNote, CandidateAs, ReferenceAs
<1>6. what \in {"raises", "wrong n", "wrong n2", "wrong shape", "wrong shape2", "wrong dtype",
               "wrong dtype2", "differs", "ref nan", "ref inf", "ref -inf", "mismatch", "none"}
  BY DEF Mishaps, HasOracle, Selects
<1>7. Excused(c, what) => First(k) = "ok"
  BY <1>5 DEF Excused
<1>8. ASSUME ~Excused(c, what),
             what \notin {"raises", "wrong n2", "wrong shape2", "wrong dtype2", "differs", "nan"}
      PROVE  First(k) \in Notes /\ First(k) \in Intended(c, what)
  <2>1. First(k) \in Notes
    BY <1>5, <1>6, <1>8 DEF Excused, Notes
  <2>2. First(k) \in Intended(c, what)
    BY <1>5, <1>6, <1>8 DEF Excused, Intended
  <2> QED
    BY <2>1, <2>2
<1> QED
  BY <1>3, <1>4, <1>7, <1>8, KindRight DEF x, NoteRight, OwnRight

LEMMA LogitsRight ==
    ASSUME NEW c, c.kind = "logits_select", NEW what \in Mishaps(c) \cup {"none"}, NEW b \in BOOLEAN
    PROVE  Right(c, what, b, RunCase(c, Evidence(c, what), b))
<1> DEFINE x == Evidence(c, what)
           k == LogitsChecks(x)
<1>1. CandidateAs(x, c, what) /\ ReferenceAs(x, c, what)
  BY EvidenceIs
<1>2. OutputsOf(c) = 1
  BY DEF OutputsOf
<1> HIDE DEF x
<1>3. k = KindChecks(c.kind, x)
  BY DEF KindChecks
<1>4. k \in Seq(Checks) /\ First(k) = LogitsNote(x)
  <2>1. x.refRaises \in BOOLEAN
    BY <1>1 DEF ReferenceAs
  <2> QED
    BY <2>1, LogitsFirst
<1> HIDE DEF k
<1>5. First(k) = IF what = "wrong n" THEN "EXCEPTION" ELSE IF what = "wrong shape" THEN "shape"
                   ELSE IF what = "wrong dtype" THEN "dtype"
                   ELSE IF what \in {"nan", "inf"} THEN "non-finite"
                   ELSE IF what = "ref raises" THEN "EXCEPTION"
                   ELSE IF what \in {"ref nan", "ref inf", "ref -inf"} THEN "non-finite reference"
                   ELSE IF what = "mismatch" THEN "mismatch" ELSE "ok"
  BY <1>1, <1>2, <1>4 DEF LogitsNote, OutNote, CandidateAs, ReferenceAs
<1>6. what \in {"raises", "wrong n", "wrong n2", "wrong shape", "wrong shape2", "wrong dtype",
               "wrong dtype2", "differs", "nan", "inf", "ref nan", "ref inf", "ref -inf",
               "ref raises", "mismatch", "none"}
  BY DEF Mishaps, HasOracle, Selects
<1>7. Excused(c, what) => First(k) = "ok"
  BY <1>5 DEF Excused
<1>8. ASSUME ~Excused(c, what),
             what \notin {"raises", "wrong n2", "wrong shape2", "wrong dtype2", "differs", "nan"}
      PROVE  First(k) \in Notes /\ First(k) \in Intended(c, what)
  <2>1. First(k) \in Notes
    BY <1>5, <1>6, <1>8 DEF Excused, Notes
  <2>2. First(k) \in Intended(c, what)
    BY <1>5, <1>6, <1>8 DEF Excused, Intended
  <2> QED
    BY <2>1, <2>2
<1> QED
  BY <1>3, <1>4, <1>7, <1>8, KindRight DEF x, NoteRight, OwnRight

LEMMA SparseRight ==
    ASSUME NEW c, c.kind = "continuous_sparse", NEW what \in Mishaps(c) \cup {"none"}, NEW b \in BOOLEAN
    PROVE  Right(c, what, b, RunCase(c, Evidence(c, what), b))
<1> DEFINE x == Evidence(c, what)
           k == SparseChecks(x)
<1>1. CandidateAs(x, c, what) /\ ReferenceAs(x, c, what)
  BY EvidenceIs
<1>2. OutputsOf(c) = 1
  BY DEF OutputsOf
<1> HIDE DEF x
<1>3. k = KindChecks(c.kind, x)
  BY DEF KindChecks
<1>4. k \in Seq(Checks) /\ First(k) = SparseNote(x)
  <2>1. x.refRaises \in BOOLEAN
    BY <1>1 DEF ReferenceAs
  <2> QED
    BY <2>1, SparseFirst
<1> HIDE DEF k
<1>5. First(k) = IF what = "wrong n" THEN "EXCEPTION" ELSE IF what = "wrong shape" THEN "shape"
                   ELSE IF what = "wrong dtype" THEN "dtype"
                   ELSE IF what \in {"nan", "inf"} THEN "non-finite"
                   ELSE IF what \in {"ref nan", "ref inf", "ref -inf"} THEN "non-finite reference" ELSE "ok"
  BY <1>1, <1>2, <1>4 DEF SparseNote, OutNote, CandidateAs, ReferenceAs
<1>6. what \in {"raises", "wrong n", "wrong n2", "wrong shape", "wrong shape2", "wrong dtype",
               "wrong dtype2", "differs", "nan", "inf", "ref nan", "ref inf", "ref -inf", "none"}
  BY DEF Mishaps, HasOracle, Selects
<1>7. Excused(c, what) => First(k) = "ok"
  BY <1>5 DEF Excused
<1>8. ASSUME ~Excused(c, what),
             what \notin {"raises", "wrong n2", "wrong shape2", "wrong dtype2", "differs", "nan"}
      PROVE  First(k) \in Notes /\ First(k) \in Intended(c, what)
  <2>1. First(k) \in Notes
    BY <1>5, <1>6, <1>8 DEF Excused, Notes
  <2>2. First(k) \in Intended(c, what)
    BY <1>5, <1>6, <1>8 DEF Excused, Intended
  <2> QED
    BY <2>1, <2>2
<1> QED
  BY <1>3, <1>4, <1>7, <1>8, KindRight DEF x, NoteRight, OwnRight

LEMMA EmptySelectionRight ==
    ASSUME NEW c, c.kind = "selection_k0", NEW what \in Mishaps(c) \cup {"none"}, NEW b \in BOOLEAN
    PROVE  Right(c, what, b, RunCase(c, Evidence(c, what), b))
<1> DEFINE x == Evidence(c, what)
           k == OutChecks(x)
<1>1. CandidateAs(x, c, what) /\ ReferenceAs(x, c, what)
  BY EvidenceIs
<1>2. OutputsOf(c) = 1
  BY DEF OutputsOf
<1> HIDE DEF x
<1>3. k = KindChecks(c.kind, x)
  BY DEF KindChecks
<1>4. k \in Seq(Checks) /\ First(k) = OutNote(x, "ok")
  <2>1. x.refRaises \in BOOLEAN
    BY <1>1 DEF ReferenceAs
  <2> QED
    BY <2>1, OutAlone
<1> HIDE DEF k
<1>5. First(k) = IF what = "wrong n" THEN "EXCEPTION" ELSE IF what = "wrong shape" THEN "shape"
                   ELSE IF what = "wrong dtype" THEN "dtype" ELSE "ok"
  BY <1>1, <1>2, <1>4 DEF OutNote, CandidateAs, ReferenceAs
<1>6. what \in {"raises", "wrong n", "wrong n2", "wrong shape", "wrong shape2", "wrong dtype",
               "wrong dtype2", "differs", "none"}
  BY DEF Mishaps, HasOracle, Selects
<1>7. Excused(c, what) => First(k) = "ok"
  BY <1>5 DEF Excused
<1>8. ASSUME ~Excused(c, what),
             what \notin {"raises", "wrong n2", "wrong shape2", "wrong dtype2", "differs", "nan"}
      PROVE  First(k) \in Notes /\ First(k) \in Intended(c, what)
  <2>1. First(k) \in Notes
    BY <1>5, <1>6, <1>8 DEF Excused, Notes
  <2>2. First(k) \in Intended(c, what)
    BY <1>5, <1>6, <1>8 DEF Excused, Intended
  <2> QED
    BY <2>1, <2>2
<1> QED
  BY <1>3, <1>4, <1>7, <1>8, KindRight DEF x, NoteRight, OwnRight

LEMMA TupleRight ==
    ASSUME NEW c, c.kind = "continuous_tuple3", NEW what \in Mishaps(c) \cup {"none"}, NEW b \in BOOLEAN
    PROVE  Right(c, what, b, RunCase(c, Evidence(c, what), b))
<1> DEFINE x == Evidence(c, what)
           k == TupleChecks(x)
<1>1. CandidateAs(x, c, what) /\ ReferenceAs(x, c, what)
  BY EvidenceIs
<1>2. OutputsOf(c) = 3
  BY DEF OutputsOf
<1> HIDE DEF x
<1>3. k = KindChecks(c.kind, x)
  BY DEF KindChecks
<1>4. k \in Seq(Checks) /\ First(k) = TupleNote(x)
  <2>1. x.refRaises \in BOOLEAN
    BY <1>1 DEF ReferenceAs
  <2> QED
    BY <2>1, TupleFirst
<1> HIDE DEF k
<1>5. First(k) = IF what = "ref raises" THEN "EXCEPTION" ELSE IF what = "wrong n" THEN "tuple structure"
                   ELSE IF what = "ref n" THEN "reference structure"
                   ELSE IF what \in {"wrong shape", "ref shape"} THEN "shape"
                   ELSE IF what = "wrong dtype" THEN "dtype" ELSE IF what = "ref dtype" THEN "reference contract"
                   ELSE IF what \in {"nan", "inf", "ref nan", "ref inf", "ref -inf"} THEN "non-finite" ELSE "ok"
  BY <1>1, <1>2, <1>4 DEF TupleNote, CandidateAs, ReferenceAs
<1>6. what \in {"raises", "wrong n", "wrong n2", "wrong shape", "wrong shape2", "wrong dtype",
               "wrong dtype2", "differs", "nan", "inf", "ref nan", "ref inf", "ref -inf",
               "ref raises", "ref shape", "ref dtype", "ref n", "none"}
  BY DEF Mishaps, HasOracle, Selects
<1>7. Excused(c, what) => First(k) = "ok"
  BY <1>5 DEF Excused
<1>8. ASSUME ~Excused(c, what),
             what \notin {"raises", "wrong n2", "wrong shape2", "wrong dtype2", "differs", "nan"}
      PROVE  First(k) \in Notes /\ First(k) \in Intended(c, what)
  <2>1. First(k) \in Notes
    BY <1>5, <1>6, <1>8 DEF Excused, Notes
  <2>2. First(k) \in Intended(c, what)
    BY <1>5, <1>6, <1>8 DEF Excused, Intended
  <2> QED
    BY <2>1, <2>2
<1> QED
  BY <1>3, <1>4, <1>7, <1>8, KindRight DEF x, NoteRight, OwnRight

LEMMA ContinuousRight ==
    ASSUME NEW c, c.kind = "continuous", NEW what \in Mishaps(c) \cup {"none"}, NEW b \in BOOLEAN
    PROVE  Right(c, what, b, RunCase(c, Evidence(c, what), b))
<1> DEFINE x == Evidence(c, what)
           k == ContinuousChecks(x)
<1>1. CandidateAs(x, c, what) /\ ReferenceAs(x, c, what)
  BY EvidenceIs
<1>2. OutputsOf(c) = 1
  BY DEF OutputsOf
<1> HIDE DEF x
<1>3. k = KindChecks(c.kind, x)
  BY DEF KindChecks
<1>4. k \in Seq(Checks) /\ First(k) = ContinuousNote(x)
  <2>1. x.refRaises \in BOOLEAN
    BY <1>1 DEF ReferenceAs
  <2> QED
    BY <2>1, ContinuousFirst
<1> HIDE DEF k
<1>5. First(k) = IF what = "ref raises" THEN "EXCEPTION" ELSE IF what = "wrong n" THEN "EXCEPTION"
                   ELSE IF what = "wrong shape" THEN "shape" ELSE IF what = "wrong dtype" THEN "dtype"
                   ELSE IF what \in {"nan", "inf"} THEN "non-finite" ELSE IF what = "ref n" THEN "EXCEPTION"
                   ELSE IF what \in {"ref nan", "ref inf", "ref -inf"} THEN "non-finite reference"
                   ELSE IF what = "ref shape" THEN "reference shape"
                   ELSE IF what = "ref dtype" THEN "reference contract" ELSE "ok"
  BY <1>1, <1>2, <1>4 DEF ContinuousNote, OutNote, CandidateAs, ReferenceAs
<1>6. what \in {"raises", "wrong n", "wrong n2", "wrong shape", "wrong shape2", "wrong dtype",
               "wrong dtype2", "differs", "nan", "inf", "ref nan", "ref inf", "ref -inf",
               "ref raises", "ref shape", "ref dtype", "ref n", "none"}
  BY DEF Mishaps, HasOracle, Selects
<1>7. Excused(c, what) => First(k) = "ok"
  BY <1>5 DEF Excused
<1>8. ASSUME ~Excused(c, what),
             what \notin {"raises", "wrong n2", "wrong shape2", "wrong dtype2", "differs", "nan"}
      PROVE  First(k) \in Notes /\ First(k) \in Intended(c, what)
  <2>1. First(k) \in Notes
    BY <1>5, <1>6, <1>8 DEF Excused, Notes
  <2>2. First(k) \in Intended(c, what)
    BY <1>5, <1>6, <1>8 DEF Excused, Intended
  <2> QED
    BY <2>1, <2>2
<1> QED
  BY <1>3, <1>4, <1>7, <1>8, KindRight DEF x, NoteRight, OwnRight

LEMMA MaskedRight ==
    ASSUME NEW c, c.kind = "continuous_masked", NEW what \in Mishaps(c) \cup {"none"}, NEW b \in BOOLEAN
    PROVE  Right(c, what, b, RunCase(c, Evidence(c, what), b))
<1> DEFINE x == Evidence(c, what)
           k == ContinuousChecks(x)
<1>1. CandidateAs(x, c, what) /\ ReferenceAs(x, c, what)
  BY EvidenceIs
<1>2. OutputsOf(c) = 1
  BY DEF OutputsOf
<1> HIDE DEF x
<1>3. k = KindChecks(c.kind, x)
  BY DEF KindChecks
<1>4. k \in Seq(Checks) /\ First(k) = ContinuousNote(x)
  <2>1. x.refRaises \in BOOLEAN
    BY <1>1 DEF ReferenceAs
  <2> QED
    BY <2>1, ContinuousFirst
<1> HIDE DEF k
<1>5. First(k) = IF what = "ref raises" THEN "EXCEPTION" ELSE IF what = "wrong n" THEN "EXCEPTION"
                   ELSE IF what = "wrong shape" THEN "shape" ELSE IF what = "wrong dtype" THEN "dtype"
                   ELSE IF what \in {"nan", "inf"} THEN "non-finite" ELSE IF what = "ref n" THEN "EXCEPTION"
                   ELSE IF what \in {"ref nan", "ref inf", "ref -inf"} THEN "non-finite reference"
                   ELSE IF what = "ref shape" THEN "reference shape"
                   ELSE IF what = "ref dtype" THEN "reference contract" ELSE "ok"
  BY <1>1, <1>2, <1>4 DEF ContinuousNote, OutNote, CandidateAs, ReferenceAs
<1>6. what \in {"raises", "wrong n", "wrong n2", "wrong shape", "wrong shape2", "wrong dtype",
               "wrong dtype2", "differs", "nan", "inf", "ref nan", "ref inf", "ref -inf",
               "ref raises", "ref shape", "ref dtype", "ref n", "none"}
  BY DEF Mishaps, HasOracle, Selects
<1>7. Excused(c, what) => First(k) = "ok"
  BY <1>5 DEF Excused
<1>8. ASSUME ~Excused(c, what),
             what \notin {"raises", "wrong n2", "wrong shape2", "wrong dtype2", "differs", "nan"}
      PROVE  First(k) \in Notes /\ First(k) \in Intended(c, what)
  <2>1. First(k) \in Notes
    BY <1>5, <1>6, <1>8 DEF Excused, Notes
  <2>2. First(k) \in Intended(c, what)
    BY <1>5, <1>6, <1>8 DEF Excused, Intended
  <2> QED
    BY <2>1, <2>2
<1> QED
  BY <1>3, <1>4, <1>7, <1>8, KindRight DEF x, NoteRight, OwnRight

\* The composed case looks at the output before it compares the repetition.
LEMMA ComposedRight ==
    ASSUME NEW c, c.kind = "composed", NEW what \in Mishaps(c) \cup {"none"}, NEW b \in BOOLEAN
    PROVE  Right(c, what, b, RunCase(c, Evidence(c, what), b))
<1> DEFINE x == Evidence(c, what)
           k == ComposedChecks(x)
<1>1. CandidateAs(x, c, what) /\ RepeatAs(x, what) /\ ReferenceAs(x, c, what)
  BY EvidenceIs
<1>2. OutputsOf(c) = 1
  BY DEF OutputsOf
<1> HIDE DEF x
<1>3. k = KindsChecks(c, x)
  BY DEF KindsChecks
<1>4. k \in Seq(Checks) /\ First(k) = ComposedNote(x)
  BY ComposedFirst
<1> HIDE DEF k
<1>5. First(k) = IF what \in {"wrong n", "wrong shape"} THEN "shape"
                 ELSE IF what = "wrong dtype" THEN "dtype"
                 ELSE IF what \in {"nan", "inf"} THEN "non-finite"
                 ELSE IF what \in {"wrong n2", "wrong shape2", "wrong dtype2", "differs"} THEN "repeat"
                 ELSE IF what \in {"ref nan", "ref inf", "ref -inf"} THEN "non-finite reference"
                 ELSE IF what = "mismatch" THEN "mismatch" ELSE "ok"
  BY <1>1, <1>2, <1>4 DEF ComposedNote, CandidateAs, RepeatAs, ReferenceAs
<1>6. what \in {"raises", "wrong n", "wrong n2", "wrong shape", "wrong shape2", "wrong dtype",
                "wrong dtype2", "differs", "nan", "inf", "ref nan", "ref inf", "ref -inf",
                "mismatch", "none"}
  BY DEF Mishaps, HasOracle, Selects
<1>7. Excused(c, what) => First(k) = "ok"
  BY <1>5 DEF Excused
<1>8. ASSUME ~Excused(c, what), what # "raises"
      PROVE  First(k) \in Notes /\ First(k) \in Intended(c, what)
  <2>1. First(k) \in Notes
    BY <1>5, <1>6, <1>8 DEF Excused, Notes
  <2>2. First(k) \in Intended(c, what)
    BY <1>5, <1>6, <1>8 DEF Excused, Intended
  <2> QED
    BY <2>1, <2>2
<1>9. what # "raises" => NoteRight(c, what, First(k))
  BY <1>7, <1>8 DEF NoteRight
<1>10. x.raises \in BOOLEAN /\ (x.raises <=> what = "raises")
  BY <1>1 DEF CandidateAs
<1>11. RunCase(c, x, b) = Asked(c, x, b, First(k))
  BY <1>3, <1>4, <1>10, RunCaseIs
<1> QED
  BY <1>9, <1>10, <1>11, AskedRight DEF x

\* The kinds that run_case knows.
Kinds ==
    {"selection", "selection_k0", "logits_select", "composed", "continuous", "continuous_masked",
     "continuous_sparse", "continuous_tuple3"}

\* Whichever of the kinds of evaluation a case takes: each mishap it can have
\* is refused for the intended reason, and nothing else is refused.
LEMMA EveryNoteRight ==
    ASSUME NEW c, c.kind \in Kinds, NEW what \in Mishaps(c) \cup {"none"}, NEW b \in BOOLEAN
    PROVE  Right(c, what, b, RunCase(c, Evidence(c, what), b))
BY SelectionRight, LogitsRight, SparseRight, EmptySelectionRight, TupleRight, ContinuousRight,
   MaskedRight, ComposedRight DEF Kinds

\* A case of the logits kind ends with "ok" only after every one of its
\* checks, the last of them on the induced selection.
LEMMA OkCountsSelection ==
    ASSUME NEW c, c.kind = "logits_select", NEW what, NEW b \in BOOLEAN,
           NEW x, x = Evidence(c, what), RunCase(c, x, b) = "ok"
    PROVE  x.mism = 0
<1> DEFINE k == LogitsChecks(x)
<1>1. CandidateAs(x, c, what) /\ ReferenceAs(x, c, what)
  BY EvidenceIs
<1>2. k = KindChecks(c.kind, x)
  BY DEF KindChecks
<1>3. x.raises \in BOOLEAN /\ x.refRaises \in BOOLEAN
  BY <1>1 DEF CandidateAs, ReferenceAs
<1>4. k \in Seq(Checks) /\ First(k) = LogitsNote(x)
  BY <1>3, LogitsFirst
<1> HIDE DEF k
<1>5. PICK n : n = IF RepeatDiffers(x) THEN "repeat" ELSE First(k)
  OBVIOUS
<1>6. RunCase(c, x, b) = Asked(c, x, b, n)
  BY <1>2, <1>3, <1>4, <1>5, KindNote
<1> QED
  BY <1>4, <1>5, <1>6 DEF Asked, LogitsNote, OutNote

-----------------------------------------------------------------------------
(* The manifests *)

\* What every case of every manifest has: the fields that Case gives it, a
\* kind that goes with its operator, and the coordinates its kind has.
Formed(c) ==
    /\ c = [op |-> c.op, path |-> c.path, kind |-> c.kind, dist |-> c.dist, m |-> c.m, built |-> c.built]
    /\ c.path = <<c.path[1], c.path[2]>>
    /\ <<c.op, c.kind>> \in RequiredCoverage \cup {<<"indexer_topk", "selection_k0">>}
    /\ c.kind = "continuous_sparse" => c.dist = "normal" /\ c.m = 0
    /\ c.kind = "continuous_masked" => c.path[2] = 0
    /\ c.op = "indexer_logits" /\ c.path[1] = "bf16kv/signed" => c.dist = "normal" /\ c.m \in Bf16M

\* The case as it is, built otherwise.
Other(c) == [c EXCEPT !.built = "other"]

\* The cases of cs are declared cases of the manifest, but for at most one,
\* of the compressor or of the tiled indexer, that is built otherwise and
\* whose declared form is gone.
CasesFormed(cs) ==
    /\ \A c \in cs : Formed(c)
    /\ \A c \in cs : c.built = "declared" => c \in Manifest
    /\ \A c \in cs : c.built # "declared" =>
          /\ c.op = "compressor" \/ (c.op = "indexer_logits" /\ c.path[1] = "tiled/signed")
          /\ \E d \in Manifest : d \notin cs /\ c = Other(d)

\* The cases of the manifest are formed, and declared.
LEMMA ManifestFormed ==
    ASSUME NEW c \in Manifest
    PROVE  Formed(c) /\ c.built = "declared"
<1>1. ASSUME NEW o, NEW p, NEW n, NEW k, NEW t, NEW m, c = Case(o, <<p, n>>, k, t, m),
             <<o, k>> \in RequiredCoverage \cup {<<"indexer_topk", "selection_k0">>},
             k = "continuous_sparse" => t = "normal" /\ m = 0,
             k = "continuous_masked" => n = 0,
             o = "indexer_logits" /\ p = "bf16kv/signed" => t = "normal" /\ m \in Bf16M
      PROVE  Formed(c) /\ c.built = "declared"
  BY <1>1 DEF Case, Formed
<1>2. CASE c \in IndexerCases
  <2>1. CASE \E t \in Dists, m \in IndexerM :
                c = Case("indexer_logits", <<"tiled/signed", 0>>, "logits_select", t, m)
    BY <1>1, <2>1 DEF RequiredCoverage
  <2>2. CASE \E m \in Bf16M :
                c = Case("indexer_logits", <<"bf16kv/signed", 0>>, "logits_select", "normal", m)
    BY <1>1, <2>2 DEF RequiredCoverage
  <2> QED
    BY <1>2, <2>1, <2>2 DEF IndexerCases
<1>3. CASE c \in TopkCases
  <2>1. CASE c = Case("indexer_topk", <<"chunked/row", 0>>, "selection", "normal", 0)
    BY <1>1, <2>1 DEF RequiredCoverage
  <2>2. CASE c = Case("indexer_topk", <<"k0", 0>>, "selection_k0", "normal", 0)
    BY <1>1, <2>2 DEF RequiredCoverage
  <2>3. CASE c = Case("indexer_topk", <<"ties", 0>>, "selection", "ties", 0)
    BY <1>1, <2>3 DEF RequiredCoverage
  <2> QED
    BY <1>3, <2>1, <2>2, <2>3 DEF TopkCases
<1>4. CASE c \in CompressorCases
  <2>1. CASE \E p \in {"pool", "fp32intrin"}, s \in Shapes, t \in Dists :
                c = Case("compressor", <<p, s>>, "continuous", t, 0)
    BY <1>1, <2>1 DEF RequiredCoverage
  <2>2. CASE \E p \in {"pool", "fp32intrin"} :
                c = Case("compressor", <<p, 0>>, "continuous_masked", "normal", 0)
    BY <1>1, <2>2 DEF RequiredCoverage
  <2> QED
    BY <1>4, <2>1, <2>2 DEF CompressorCases
<1>5. CASE c \in SparseCases
  <2>1. CASE \E p \in DOMAIN SparseSweep : \E n \in SparseSweep[p] :
                c = Case("sparse", <<p, n>>, "continuous_sparse", "normal", 0)
    BY <1>1, <2>1 DEF RequiredCoverage
  <2>2. CASE c = Case("sparse", <<"composed", 0>>, "composed", "normal", 0)
    BY <1>1, <2>2 DEF RequiredCoverage
  <2> QED
    BY <1>5, <2>1, <2>2 DEF SparseCases
<1>6. CASE c = Case("sinkhorn", <<"fused", 0>>, "continuous_tuple3", "normal", 0)
  BY <1>1, <1>6 DEF RequiredCoverage
<1>7. CASE c \in {Case("combine", <<"tiled", 0>>, "continuous", t, 0) : t \in Dists}
  BY <1>1, <1>7 DEF RequiredCoverage
<1> QED
  BY <1>2, <1>3, <1>4, <1>5, <1>6, <1>7 DEF Manifest

\* And so are those of every manifest the harness may be given.
LEMMA ManifestsFormed ==
    ASSUME NEW cs \in Manifests
    PROVE  CasesFormed(cs)
<1>1. CASE cs \subseteq Manifest
  BY <1>1, ManifestFormed DEF CasesFormed
<1>2. ASSUME NEW d \in Manifest, cs = (Manifest \ {d}) \cup {Other(d)},
             d.op = "compressor" \/ (d.op = "indexer_logits" /\ d.path[1] = "tiled/signed")
      PROVE  CasesFormed(cs)
  <2>1. Formed(d) /\ d.built = "declared"
    BY ManifestFormed
  <2>2. Other(d) = [op |-> d.op, path |-> d.path, kind |-> d.kind, dist |-> d.dist, m |-> d.m,
                    built |-> "other"]
    BY <2>1 DEF Formed, Other
  <2>3. Formed(Other(d)) /\ Other(d).built = "other"
    BY <2>1, <2>2 DEF Formed
  <2>4. d \notin cs
    BY <1>2, <2>1, <2>3
  <2>5. Other(d).op = d.op /\ Other(d).path = d.path
    BY <2>2
  <2>6. \A c \in cs : c \in Manifest \/ c = Other(d)
    BY <1>2
  <2>7. \A c \in Manifest : Formed(c) /\ c.built = "declared"
    BY ManifestFormed
  <2> HIDE DEF Other
  <2> QED
    BY <1>2, <2>3, <2>4, <2>5, <2>6, <2>7 DEF CasesFormed
<1> QED
  BY <1>1, <1>2 DEF Manifests, Other

\* Their kinds are those that run_case knows.
LEMMA FormedKind ==
    ASSUME NEW c, Formed(c)
    PROVE  c.kind \in Kinds
BY DEF Formed, RequiredCoverage, Kinds

-----------------------------------------------------------------------------
(* The budget *)

\* Every case of the indexer is evaluated by its logits and the selection
\* they induce.
IndexerByLogits ==
    \A c \in cases : c.op = "indexer_logits" => c.kind = "logits_select"

\* The records are complete for the first k seeds.
RecordedFor(k) ==
    \A c \in cases, i \in 1..k :
        c.op = "indexer_logits" => \E r \in calib : r.case = c /\ r.at = SeedGroups[i]

\* Of the seeds, the first k are over and left has the others, in order.
Over(k) ==
    /\ Len(left) + k = Len(SeedGroups)
    /\ \A j \in 1..Len(left) : left[j] = SeedGroups[k + j]

\* The inductive invariant: as long as no failure is on the list, the records
\* are complete for the seeds that are over, and none has a mismatch.
BudgetInv ==
    /\ IndexerByLogits
    /\ left \in Seq(STRING \X Nat)
    /\ pc = "inventory" => left = SeedGroups /\ calib = {} /\ rc = NoCode
    /\ pc = "evaluate" =>
          \E k \in 0..Len(SeedGroups) :
             Over(k) /\ (failures = {} => RecordedFor(k) /\ SelectionPreserved)
    /\ BudgetRestsOnAllSeeds

\* One more seed is over.
LEMMA SeedOver ==
    ASSUME left \in Seq(STRING \X Nat), left # <<>>, left' = Tail(left),
           NEW k \in 0..Len(SeedGroups), Over(k)
    PROVE  k + 1 \in 1..Len(SeedGroups) /\ Over(k + 1)' /\ Head(left) = SeedGroups[k + 1]
<1>1. Len(left) \in Nat \ {0} /\ Len(SeedGroups) \in Nat
  BY AcceptanceAssumption
<1>2. Len(left') = Len(left) - 1 /\ \A j \in 1..(Len(left) - 1) : left'[j] = left[j + 1]
  BY <1>1
<1>3. Head(left) = left[1]
  BY <1>1
<1>4. \A j \in 1..Len(left') : left'[j] = SeedGroups[(k + 1) + j]
  <2> SUFFICES ASSUME NEW j \in 1..Len(left') PROVE left'[j] = SeedGroups[(k + 1) + j]
    OBVIOUS
  <2>1. j + 1 \in 1..Len(left) /\ left'[j] = left[j + 1]
    BY <1>1, <1>2
  <2>2. left[j + 1] = SeedGroups[k + (j + 1)]
    BY <2>1 DEF Over
  <2>3. k + (j + 1) = (k + 1) + j
    OBVIOUS
  <2> QED
    BY <2>1, <2>2, <2>3
<1>5. Head(left) = SeedGroups[k + 1]
  BY <1>1, <1>3 DEF Over
<1> QED
  BY <1>1, <1>2, <1>4, <1>5 DEF Over

LEMMA BudgetInit == Init => BudgetInv
<1> SUFFICES ASSUME Init PROVE BudgetInv
  OBVIOUS
<1>3. IndexerByLogits
  <2>1. CasesFormed(cases)
    BY ManifestsFormed DEF Init
  <2> QED
    BY <2>1 DEF CasesFormed, Formed, RequiredCoverage, IndexerByLogits
<1>4. pc = "inventory" /\ left = SeedGroups /\ calib = {} /\ rc = NoCode
  BY DEF Init
<1> QED
  BY <1>3, <1>4, AcceptanceAssumption DEF BudgetInv, BudgetRestsOnAllSeeds

\* One more seed is over: each case of the indexer has left a record of it
\* or a failure.
LEMMA SeedKeepsBudget ==
    ASSUME BudgetInv, EvaluateSeed
    PROVE  BudgetInv'
<1> DEFINE at == Head(left)
           note(c) == RunCase(c, Seen(c, at[2]), c \in bound)
<1>1. /\ pc = "evaluate" /\ pc' = "evaluate" /\ left # <<>> /\ left' = Tail(left)
      /\ failures' = failures \cup {[at |-> at, case |-> c, note |-> note(c)]
                                      : c \in {x \in cases : note(x) # "ok"}}
      /\ calib' = calib \cup {[at |-> at, case |-> c, mism |-> Seen(c, at[2]).mism]
                                : c \in {x \in cases : Records(x, note(x))}}
      /\ cases' = cases
  BY DEF EvaluateSeed
<1>2. IndexerByLogits'
  BY <1>1 DEF BudgetInv, IndexerByLogits
<1>3. left \in Seq(STRING \X Nat) /\ SeedGroups \in Seq(STRING \X Nat)
  BY AcceptanceAssumption DEF BudgetInv
<1>4. left' \in Seq(STRING \X Nat)
  BY <1>1, <1>3
<1>5. PICK k \in 0..Len(SeedGroups) :
         Over(k) /\ (failures = {} => RecordedFor(k) /\ SelectionPreserved)
  BY <1>1 DEF BudgetInv
<1>6. k + 1 \in 0..Len(SeedGroups) /\ Over(k + 1)' /\ at = SeedGroups[k + 1]
  <2>1. k + 1 \in 1..Len(SeedGroups) /\ Over(k + 1)' /\ at = SeedGroups[k + 1]
    BY <1>1, <1>3, <1>5, SeedOver
  <2> QED
    BY <1>3, <2>1
<1>7. ASSUME failures' = {} PROVE RecordedFor(k + 1)' /\ SelectionPreserved'
  <2>1. failures = {} /\ \A c \in cases : note(c) = "ok"
    <3>1. failures = {} /\ {[at |-> at, case |-> c, note |-> note(c)]
                              : c \in {x \in cases : note(x) # "ok"}} = {}
      BY <1>1, <1>7
    <3> QED
      BY <3>1
  <2>2. RecordedFor(k) /\ SelectionPreserved
    BY <1>5, <2>1
  <2>3. \A c \in cases : c.op = "indexer_logits" => Seen(c, at[2]).mism = 0 /\ Records(c, note(c))
    <3> SUFFICES ASSUME NEW c \in cases, c.op = "indexer_logits"
                 PROVE  Seen(c, at[2]).mism = 0 /\ Records(c, note(c))
      OBVIOUS
    <3>1. c.kind = "logits_select"
      BY DEF BudgetInv, IndexerByLogits
    <3>2. RunCase(c, Seen(c, at[2]), c \in bound) = "ok"
      BY <2>1
    <3>3. Seen(c, at[2]).mism = 0
      <4>1. \E what : Seen(c, at[2]) = Evidence(c, what)
        BY DEF Seen
      <4>2. (c \in bound) \in BOOLEAN
        OBVIOUS
      <4> QED
        BY <3>1, <3>2, <4>1, <4>2, OkCountsSelection
    <3>4. Records(c, note(c))
      BY <3>1, <3>2 DEF Records
    <3> QED
      BY <3>3, <3>4
  <2> HIDE DEF at, note
  <2>4. SelectionPreserved'
    <3> SUFFICES ASSUME NEW r \in calib', r.case.op = "indexer_logits" PROVE r.mism = 0
      BY DEF SelectionPreserved
    <3>1. CASE r \in calib
      BY <2>2, <3>1 DEF SelectionPreserved
    <3>2. CASE r \notin calib
      <4>1. PICK c \in cases : r = [at |-> at, case |-> c, mism |-> Seen(c, at[2]).mism]
        BY <1>1, <3>2
      <4>2. r.case = c /\ r.mism = Seen(c, at[2]).mism
        BY <4>1
      <4> QED
        BY <2>3, <4>2
    <3> QED
      BY <3>1, <3>2
  <2>5. RecordedFor(k + 1)'
    <3> SUFFICES ASSUME NEW c \in cases, NEW i \in 1..(k + 1), c.op = "indexer_logits"
                 PROVE  \E r \in calib' : r.case = c /\ r.at = SeedGroups[i]
      BY <1>1 DEF RecordedFor
    <3>1. CASE i \in 1..k
      <4>1. PICK r \in calib : r.case = c /\ r.at = SeedGroups[i]
        BY <2>2, <3>1 DEF RecordedFor
      <4> QED
        BY <1>1, <4>1
    <3>2. CASE i \notin 1..k
      <4>1. i = k + 1
        BY <3>2
      <4>2. Records(c, note(c))
        BY <2>3
      <4>3. [at |-> at, case |-> c, mism |-> Seen(c, at[2]).mism] \in calib'
        BY <1>1, <4>2
      <4> QED
        BY <1>6, <4>1, <4>3
    <3> QED
      BY <3>1, <3>2
  <2> QED
    BY <2>4, <2>5
<1>8. BudgetRestsOnAllSeeds'
  BY <1>1 DEF BudgetRestsOnAllSeeds
<1> HIDE DEF at, note
<1>9. \E j \in 0..Len(SeedGroups) :
         Over(j)' /\ (failures' = {} => RecordedFor(j)' /\ SelectionPreserved')
  BY <1>6, <1>7
<1> QED
  BY <1>1, <1>2, <1>4, <1>8, <1>9 DEF BudgetInv

\* The end of the evaluation: no seed is left.
LEMMA FinishKeepsBudget ==
    ASSUME BudgetInv, Finish
    PROVE  BudgetInv'
<1>1. /\ pc = "evaluate" /\ pc' = "report" /\ left = <<>> /\ left' = left
      /\ rc' = IF failures = {} THEN 0 ELSE 2
      /\ cases' = cases /\ calib' = calib
  BY DEF Finish
<1>2. PICK k \in 0..Len(SeedGroups) :
         Over(k) /\ (failures = {} => RecordedFor(k) /\ SelectionPreserved)
  BY <1>1 DEF BudgetInv
<1>3. SeedGroups \in Seq(STRING \X Nat)
  BY AcceptanceAssumption
<1>4. 1..k = DOMAIN SeedGroups
  BY <1>1, <1>2, <1>3 DEF Over
<1>5. BudgetRestsOnAllSeeds'
  <2> SUFFICES ASSUME rc' = 0
               PROVE  /\ SelectionPreserved'
                      /\ \A c \in cases', i \in DOMAIN SeedGroups :
                            c.op = "indexer_logits" =>
                               \E r \in calib' : r.case = c /\ r.at = SeedGroups[i]
    BY DEF BudgetRestsOnAllSeeds
  <2>1. RecordedFor(k) /\ SelectionPreserved
    BY <1>1, <1>2
  <2> QED
    BY <1>1, <1>4, <2>1 DEF RecordedFor, SelectionPreserved
<1> QED
  BY <1>1, <1>5 DEF BudgetInv, IndexerByLogits

LEMMA BudgetStep == BudgetInv /\ [Next]_vars => BudgetInv'
<1> SUFFICES ASSUME BudgetInv, [Next]_vars PROVE BudgetInv'
  OBVIOUS
<1>1. CASE Inventory
  <2>1. /\ pc = "inventory" /\ cases' = cases /\ left' = left /\ failures' = failures
        /\ calib' = calib /\ (pc' = "evaluate" \/ (pc' = "report" /\ rc' = 2))
    BY <1>1 DEF Inventory
  <2>2. left = SeedGroups /\ calib = {} /\ SeedGroups \in Seq(STRING \X Nat)
    BY <2>1, AcceptanceAssumption DEF BudgetInv
  <2>3. 0 \in 0..Len(SeedGroups) /\ Over(0)' /\ RecordedFor(0)' /\ SelectionPreserved'
    BY <2>1, <2>2 DEF Over, RecordedFor, SelectionPreserved
  <2>4. pc' = "evaluate" => \E k \in 0..Len(SeedGroups) :
             Over(k)' /\ (failures' = {} => RecordedFor(k)' /\ SelectionPreserved')
    BY <2>3
  <2>5. BudgetRestsOnAllSeeds'
    BY <2>1 DEF BudgetRestsOnAllSeeds
  <2> QED
    BY <2>1, <2>2, <2>4, <2>5 DEF BudgetInv, IndexerByLogits
<1>2. CASE EvaluateSeed
  BY <1>2, SeedKeepsBudget
<1>3. CASE Finish
  BY <1>3, FinishKeepsBudget
<1>4. CASE Report
  BY <1>4 DEF Report, BudgetInv, IndexerByLogits, BudgetRestsOnAllSeeds
<1>5. CASE CallDecide
  BY <1>5 DEF CallDecide, BudgetInv, IndexerByLogits, BudgetRestsOnAllSeeds
<1>6. CASE UNCHANGED harness
  <2>1. /\ cases' = cases /\ pc' = pc /\ left' = left /\ failures' = failures
        /\ calib' = calib /\ rc' = rc
    BY <1>6 DEF harness
  <2> QED
    BY <2>1 DEF BudgetInv, IndexerByLogits, Over, RecordedFor, SelectionPreserved,
       BudgetRestsOnAllSeeds
<1>7. CASE ReadSha \/ ReadDirty \/ ReadPolicy \/ ReadQueue \/ Decide \/ DecideRaises
  BY <1>6, <1>7 DEF ReadSha, ReadDirty, ReadPolicy, ReadQueue, Decide, DecideRaises, Reads
<1>8. CASE EditTree \/ Approve \/ CommitTree \/ Restore \/ UNCHANGED vars
  BY <1>6, <1>8 DEF EditTree, Approve, CommitTree, Restore, vars
<1> QED
  BY <1>1, <1>2, <1>3, <1>4, <1>5, <1>7, <1>8 DEF Next

\* Exit 0 comes with a record, without a mismatch, of every case of the
\* indexer under every seed: for every sequence of seeds and every sweep.
THEOREM BudgetIsComplete == Spec => []BudgetRestsOnAllSeeds
<1>1. BudgetInv => BudgetRestsOnAllSeeds
  BY DEF BudgetInv
<1> QED
  BY BudgetInit, BudgetStep, <1>1, PTL DEF Spec

-----------------------------------------------------------------------------
(* The exit code *)

\* What goes wrong in case c under this seed.
Mishap(c, seed) == IF fault.case = c /\ fault.seed = seed THEN fault.what ELSE "none"

\* The note case c gets under seed i, and the entry it makes.
NoteAt(c, i) == RunCase(c, Seen(c, SeedGroups[i][2]), c \in bound)
EntryAt(c, i) == [at |-> SeedGroups[i], case |-> c, note |-> NoteAt(c, i)]
TripleAt(c, i) == <<c, SeedGroups[i][1], SeedGroups[i][2]>>

\* done and failures are those of every case under the first k seeds, and no
\* others.
EvaluatedFor(k) ==
    /\ \A t \in done : \E c \in cases, i \in 1..k : t = TripleAt(c, i)
    /\ \A c \in cases, i \in 1..k : TripleAt(c, i) \in done
    /\ \A f \in failures : \E c \in cases, i \in 1..k : f = EntryAt(c, i) /\ NoteAt(c, i) # "ok"
    /\ \A c \in cases, i \in 1..k : NoteAt(c, i) # "ok" => EntryAt(c, i) \in failures

\* The inventory was complete, and the coordinates it requires are bound.
Started == Complete(cases) /\ bound = {c \in cases : Coord(c) \in RequiredJointCoords}

\* Before the evaluation, and after the run has returned.
NothingYet == bound = {} /\ done = {} /\ failures = {}

\* The inductive invariant: what the harness has at each of its steps.
HarnessInv ==
    /\ left \in Seq(STRING \X Nat)
    /\ pc \in {"inventory", "evaluate", "report", "gate"}
    /\ pc # "gate" => cases \in Manifests /\ fault \in IF cases = Manifest THEN FaultsOf(cases) ELSE {NoFault}
    /\ pc = "inventory" => left = SeedGroups /\ NothingYet /\ rc = NoCode
    /\ pc = "evaluate" => Started /\ rc = NoCode /\ \E k \in 0..Len(SeedGroups) : Over(k) /\ EvaluatedFor(k)
    /\ pc = "report" => \/ rc = 2 /\ NothingYet
                        \/ Started /\ EvaluatedFor(Len(SeedGroups)) /\ rc = IF failures = {} THEN 0 ELSE 2
    /\ pc = "gate" => NothingYet /\ rc \in {0, 2}
    /\ head \in 1..(MaxCommits + 1) /\ verdict.decision \in {"none", "PROMOTE", "BLOCKED"}

\* What a note says of its case, in every state before the run returns.
LEMMA NoteAtRight ==
    ASSUME HarnessInv, pc # "gate", NEW c \in cases, NEW i \in DOMAIN SeedGroups
    PROVE  /\ Formed(c)
           /\ Mishap(c, SeedGroups[i][2]) \in Mishaps(c) \cup {"none"}
           /\ Right(c, Mishap(c, SeedGroups[i][2]), c \in bound, NoteAt(c, i))
<1> DEFINE s == SeedGroups[i][2]
<1>1. Formed(c) /\ c.kind \in Kinds
  BY ManifestsFormed, FormedKind DEF HarnessInv, CasesFormed
<1>2. fault = NoFault \/ \E d \in cases, j \in DOMAIN SeedGroups : \E w \in Mishaps(d) :
                            fault = [case |-> d, seed |-> SeedGroups[j][2], what |-> w]
  BY DEF HarnessInv, FaultsOf
<1>3. Mishap(c, s) \in Mishaps(c) \cup {"none"}
  <2>1. CASE fault = NoFault
    BY <2>1 DEF Mishap, NoFault
  <2>2. CASE fault # NoFault
    <3>1. PICK d \in cases, j \in DOMAIN SeedGroups : \E w \in Mishaps(d) :
                 fault = [case |-> d, seed |-> SeedGroups[j][2], what |-> w]
      BY <1>2, <2>2
    <3>2. fault.case = d /\ fault.what \in Mishaps(d)
      BY <3>1
    <3> QED
      BY <3>2 DEF Mishap
  <2> QED
    BY <2>1, <2>2
<1> HIDE DEF s
<1>4. Right(c, Mishap(c, s), c \in bound, RunCase(c, Evidence(c, Mishap(c, s)), c \in bound))
  <2>1. (c \in bound) \in BOOLEAN
    OBVIOUS
  <2> QED
    BY <1>1, <1>3, <2>1, EveryNoteRight
<1>5. Seen(c, s) = Evidence(c, Mishap(c, s))
  BY DEF Seen, Mishap
<1> QED
  BY <1>1, <1>3, <1>4, <1>5 DEF NoteAt, s

\* The harness has nothing yet.
LEMMA HarnessInit == Init => HarnessInv
<1> SUFFICES ASSUME Init PROVE HarnessInv
  OBVIOUS
<1>1. verdict.decision = "none" /\ head \in 1..(MaxCommits + 1)
  <2>1. verdict = NoVerdict /\ head = 1
    BY DEF Init
  <2>2. 1 \in 1..(MaxCommits + 1)
    BY AcceptanceAssumption
  <2> QED
    BY <2>1, <2>2 DEF NoVerdict
<1>2. cases \in Manifests /\ fault \in IF cases = Manifest THEN FaultsOf(cases) ELSE {NoFault}
  BY DEF Init
<1>3. pc = "inventory" /\ left = SeedGroups /\ NothingYet /\ rc = NoCode
  BY DEF Init, NothingYet
<1> QED
  BY <1>1, <1>2, <1>3, AcceptanceAssumption DEF HarnessInv

\* One more seed is over, and every case has been evaluated under it.
LEMMA SeedKeepsHarness ==
    ASSUME HarnessInv, EvaluateSeed
    PROVE  HarnessInv'
<1> DEFINE at == Head(left)
           note(c) == RunCase(c, Seen(c, at[2]), c \in bound)
<1>1. /\ pc = "evaluate" /\ pc' = "evaluate" /\ left # <<>> /\ left' = Tail(left)
      /\ done' = done \cup {<<c, at[1], at[2]>> : c \in cases}
      /\ failures' = failures \cup {[at |-> at, case |-> c, note |-> note(c)]
                                      : c \in {x \in cases : note(x) # "ok"}}
      /\ cases' = cases /\ fault' = fault /\ bound' = bound /\ rc' = rc
      /\ head' = head /\ verdict' = verdict
  BY DEF EvaluateSeed, tree, promotion
<1>2. PICK k \in 0..Len(SeedGroups) : Over(k) /\ EvaluatedFor(k)
  BY <1>1 DEF HarnessInv
<1>3. left \in Seq(STRING \X Nat) /\ Len(SeedGroups) \in Nat
  BY AcceptanceAssumption DEF HarnessInv
<1>4. k + 1 \in 1..Len(SeedGroups) /\ Over(k + 1)' /\ at = SeedGroups[k + 1]
  BY <1>1, <1>2, <1>3, SeedOver
<1>5. \A c : note(c) = NoteAt(c, k + 1)
  BY <1>4 DEF NoteAt
<1>6. /\ done' = done \cup {TripleAt(c, k + 1) : c \in cases}
      /\ failures' = failures \cup {EntryAt(c, k + 1) : c \in {x \in cases : NoteAt(x, k + 1) # "ok"}}
  <2>1. \A c : <<c, at[1], at[2]>> = TripleAt(c, k + 1)
    BY <1>4 DEF TripleAt
  <2>2. \A c : [at |-> at, case |-> c, note |-> note(c)] = EntryAt(c, k + 1)
    BY <1>4, <1>5 DEF EntryAt
  <2> HIDE DEF at, note
  <2> QED
    BY <1>1, <1>5, <2>1, <2>2
<1>7. \A i \in 1..(k + 1) : i \in 1..k \/ i = k + 1
  BY <1>3
<1>8. 1..k \subseteq 1..(k + 1) /\ k + 1 \in 1..(k + 1)
  BY <1>3
<1>9. \A c, i : NoteAt(c, i)' = NoteAt(c, i) /\ EntryAt(c, i)' = EntryAt(c, i)
  BY <1>1 DEF NoteAt, EntryAt, Seen
<1> HIDE DEF at, note
<1>10. EvaluatedFor(k + 1)'
  <2>1. ASSUME NEW t \in done' PROVE \E c \in cases, i \in 1..(k + 1) : t = TripleAt(c, i)
    BY <1>2, <1>6, <1>8 DEF EvaluatedFor
  <2>2. ASSUME NEW c \in cases, NEW i \in 1..(k + 1) PROVE TripleAt(c, i) \in done'
    BY <1>2, <1>6, <1>7 DEF EvaluatedFor
  <2>3. ASSUME NEW f \in failures'
        PROVE  \E c \in cases, i \in 1..(k + 1) : f = EntryAt(c, i) /\ NoteAt(c, i) # "ok"
    BY <1>2, <1>6, <1>8 DEF EvaluatedFor
  <2>4. ASSUME NEW c \in cases, NEW i \in 1..(k + 1), NoteAt(c, i) # "ok"
        PROVE  EntryAt(c, i) \in failures'
    BY <1>2, <1>6, <1>7, <2>4 DEF EvaluatedFor
  <2>5. \A c, i : TripleAt(c, i)' = TripleAt(c, i)
    BY DEF TripleAt
  <2> QED
    BY <1>1, <1>9, <2>1, <2>2, <2>3, <2>4, <2>5 DEF EvaluatedFor
<1>11. \E j \in 0..Len(SeedGroups) : Over(j)' /\ EvaluatedFor(j)'
  BY <1>3, <1>4, <1>10
<1>12. Started'
  BY <1>1 DEF HarnessInv, Started, Complete, SparseCovers
<1>13. left' \in Seq(STRING \X Nat)
  BY <1>1, <1>3
<1> QED
  BY <1>1, <1>11, <1>12, <1>13 DEF HarnessInv

\* No seed is left: every case was evaluated under every seed.
LEMMA FinishKeepsHarness ==
    ASSUME HarnessInv, Finish
    PROVE  HarnessInv'
<1>1. /\ pc = "evaluate" /\ pc' = "report" /\ left = <<>> /\ left' = left
      /\ rc' = IF failures = {} THEN 0 ELSE 2
      /\ cases' = cases /\ fault' = fault /\ bound' = bound /\ done' = done /\ failures' = failures
      /\ head' = head /\ verdict' = verdict
  BY DEF Finish, tree, promotion
<1>2. PICK k \in 0..Len(SeedGroups) : Over(k) /\ EvaluatedFor(k)
  BY <1>1 DEF HarnessInv
<1>3. k = Len(SeedGroups)
  BY <1>1, <1>2, AcceptanceAssumption DEF Over
<1>4. EvaluatedFor(Len(SeedGroups))'
  BY <1>1, <1>2, <1>3 DEF EvaluatedFor, NoteAt, EntryAt, TripleAt, Seen
<1>5. Started'
  BY <1>1 DEF HarnessInv, Started, Complete, SparseCovers
<1> QED
  BY <1>1, <1>4, <1>5 DEF HarnessInv

\* Every step keeps the invariant of the harness.
LEMMA HarnessStep == HarnessInv /\ [Next]_vars => HarnessInv'
<1> SUFFICES ASSUME HarnessInv, [Next]_vars PROVE HarnessInv'
  OBVIOUS
<1>1. CASE Inventory
  <2>1. /\ pc = "inventory" /\ cases' = cases /\ fault' = fault /\ left' = left
        /\ done' = done /\ failures' = failures /\ head' = head /\ verdict' = verdict
        /\ \/ /\ Complete(cases) /\ bound' = {c \in cases : Coord(c) \in RequiredJointCoords}
              /\ pc' = "evaluate" /\ rc' = rc
           \/ rc' = 2 /\ pc' = "report" /\ bound' = bound
    BY <1>1 DEF Inventory, tree, promotion
  <2>2. left = SeedGroups /\ NothingYet /\ rc = NoCode /\ SeedGroups \in Seq(STRING \X Nat)
    BY <2>1, AcceptanceAssumption DEF HarnessInv
  <2>3. CASE pc' = "evaluate"
    <3>1. Started'
      BY <2>1, <2>3 DEF Started, Complete, SparseCovers
    <3>2. 0 \in 0..Len(SeedGroups) /\ Over(0)' /\ EvaluatedFor(0)'
      BY <2>1, <2>2 DEF Over, EvaluatedFor, NothingYet
    <3> QED
      BY <2>1, <2>2, <2>3, <3>1, <3>2 DEF HarnessInv
  <2>4. CASE pc' = "report"
    BY <2>1, <2>2, <2>4 DEF HarnessInv, NothingYet
  <2> QED
    BY <2>1, <2>3, <2>4
<1>2. CASE EvaluateSeed
  BY <1>2, SeedKeepsHarness
<1>3. CASE Finish
  BY <1>3, FinishKeepsHarness
<1>4. CASE Report
  <2>1. rc \in {0, 2}
    BY <1>4 DEF Report, HarnessInv
  <2> QED
    BY <1>4, <2>1 DEF Report, HarnessInv, NothingYet, promotion
<1>5. CASE CallDecide
  <2>1. /\ pc = "gate" /\ pc' = pc /\ bound' = bound /\ done' = done /\ failures' = failures
        /\ left' = left /\ rc' \in {0, 2} /\ head' = head /\ verdict'.decision = "none"
    BY <1>5 DEF CallDecide, NoVerdict, tree
  <2> QED
    BY <2>1 DEF HarnessInv, NothingYet
<1>6. ASSUME UNCHANGED harness, head' \in 1..(MaxCommits + 1),
             verdict'.decision \in {"none", "PROMOTE", "BLOCKED"}
      PROVE  HarnessInv'
  <2>1. /\ cases' = cases /\ fault' = fault /\ pc' = pc /\ bound' = bound /\ left' = left
        /\ done' = done /\ failures' = failures /\ rc' = rc
    BY <1>6 DEF harness
  <2>2. \A k : EvaluatedFor(k)' = EvaluatedFor(k) /\ Over(k)' = Over(k)
    BY <2>1 DEF EvaluatedFor, Over, NoteAt, EntryAt, TripleAt, Seen
  <2>3. Started' = Started
    BY <2>1 DEF Started, Complete, SparseCovers
  <2> QED
    BY <1>6, <2>1, <2>2, <2>3 DEF HarnessInv, NothingYet
<1>7. CASE ReadSha \/ ReadDirty \/ ReadPolicy \/ ReadQueue \/ Decide \/ DecideRaises
  <2>1. UNCHANGED harness /\ head' = head
    BY <1>7 DEF ReadSha, ReadDirty, ReadPolicy, ReadQueue, Decide, DecideRaises, Reads, tree
  <2>2. verdict' = verdict \/ verdict'.decision \in {"PROMOTE", "BLOCKED"}
    BY <1>7 DEF ReadSha, ReadDirty, ReadPolicy, ReadQueue, Decide, DecideRaises, Reads
  <2> QED
    BY <1>6, <2>1, <2>2 DEF HarnessInv
<1>8. CASE EditTree \/ Approve \/ CommitTree \/ Restore \/ UNCHANGED vars
  <2>1. UNCHANGED harness /\ verdict' = verdict
    BY <1>8 DEF EditTree, Approve, CommitTree, Restore, vars, promotion
  <2>2. head' = head \/ (head <= MaxCommits /\ head' = head + 1)
    BY <1>8 DEF EditTree, Approve, CommitTree, Restore, vars, tree
  <2>3. head' \in 1..(MaxCommits + 1)
    BY <2>2, AcceptanceAssumption DEF HarnessInv
  <2> QED
    BY <1>6, <2>1, <2>3 DEF HarnessInv
<1> QED
  BY <1>1, <1>2, <1>3, <1>4, <1>5, <1>7, <1>8 DEF Next

\* The type invariant, of the harness and of the tree.
LEMMA HarnessTyped ==
    ASSUME HarnessInv, GateInv
    PROVE  TypeOK
<1>1. bound \subseteq cases
  BY DEF HarnessInv, NothingYet, Started
<1>2. ASSUME NEW f \in failures PROVE f.case \in cases /\ f.note \in Notes
  <2>1. pc # "gate" /\ \E k \in 0..Len(SeedGroups) : EvaluatedFor(k)
    BY <1>2, AcceptanceAssumption DEF HarnessInv, NothingYet
  <2>2. PICK k \in 0..Len(SeedGroups) : EvaluatedFor(k)
    BY <2>1
  <2>3. PICK c \in cases, i \in 1..k : f = EntryAt(c, i) /\ NoteAt(c, i) # "ok"
    BY <1>2, <2>2 DEF EvaluatedFor
  <2>4. i \in DOMAIN SeedGroups
    BY AcceptanceAssumption
  <2>5. Right(c, Mishap(c, SeedGroups[i][2]), c \in bound, NoteAt(c, i))
    BY <2>1, <2>4, NoteAtRight
  <2>6. NoteAt(c, i) \in Notes
    BY <2>3, <2>5 DEF Right, Notes
  <2>7. f.case = c /\ f.note = NoteAt(c, i)
    BY <2>3 DEF EntryAt
  <2> QED
    BY <2>6, <2>7
<1>3. \A f \in {kept, work} : f \in [policy : SUBSET Words, queue : SUBSET Words, approval : 0..head]
  BY DEF GateInv, RecordIsOlder, Files
<1>4. rc \in {0, 2, NoCode}
  BY DEF HarnessInv
<1>5. /\ gate.at \in {"none", "sha", "dirty", "policy", "queue", "approval"}
      /\ gate.sha \in 0..head /\ gate.dirty \in BOOLEAN /\ gate.clean \in 0..head
  BY DEF GateInv, GateReads
<1> QED
  BY <1>1, <1>2, <1>3, <1>4, <1>5 DEF TypeOK, HarnessInv

\* Every failure is named, and every mishap that is no legal mask fails.
LEMMA HarnessNames ==
    ASSUME HarnessInv
    PROVE  MishapIsNamed
<1>1. CASE pc \in {"inventory", "gate"} \/ NothingYet
  BY <1>1 DEF HarnessInv, NothingYet, MishapIsNamed
<1>2. CASE pc # "gate" /\ \E k \in 0..Len(SeedGroups) : EvaluatedFor(k)
  <2>1. PICK k \in 0..Len(SeedGroups) : EvaluatedFor(k)
    BY <1>2
  <2>2. 1..k \subseteq DOMAIN SeedGroups
    BY AcceptanceAssumption
  <2>3. ASSUME NEW f \in failures
        PROVE  \/ f.case = fault.case /\ f.at[2] = fault.seed /\ f.note \in Intended(f.case, fault.what)
               \/ f.note = "builder drift" /\ f.case.built = "other"
    <3>1. PICK c \in cases, i \in 1..k : f = EntryAt(c, i) /\ NoteAt(c, i) # "ok"
      BY <2>1, <2>3 DEF EvaluatedFor
    <3>2. f.case = c /\ f.at = SeedGroups[i] /\ f.note = NoteAt(c, i)
      BY <3>1 DEF EntryAt
    <3>3. Formed(c) /\ Right(c, Mishap(c, SeedGroups[i][2]), c \in bound, NoteAt(c, i))
      BY <1>2, <2>2, NoteAtRight
    <3>4. CASE c \in bound /\ c.built # "declared"
      <4>1. NoteAt(c, i) = "builder drift"
        BY <3>3, <3>4 DEF Right
      <4>2. c.built = "other"
        <5>1. PICK d \in Manifest : c = Other(d)
          BY <1>2, <3>4, ManifestsFormed DEF HarnessInv, CasesFormed
        <5>2. Formed(d)
          BY ManifestFormed
        <5> QED
          BY <5>1, <5>2 DEF Other, Formed
      <4> QED
        BY <3>2, <4>1, <4>2
    <3>5. CASE ~(c \in bound /\ c.built # "declared")
      <4>1. ~Excused(c, Mishap(c, SeedGroups[i][2])) /\ NoteAt(c, i) \in Intended(c, Mishap(c, SeedGroups[i][2]))
        BY <3>1, <3>3, <3>5 DEF Right
      <4>2. fault.case = c /\ fault.seed = SeedGroups[i][2] /\ Mishap(c, SeedGroups[i][2]) = fault.what
        BY <4>1 DEF Mishap, Excused
      <4> QED
        BY <3>2, <4>1, <4>2
    <3> QED
      BY <3>4, <3>5
  <2>4. ASSUME NEW t \in done, t[1] = fault.case, t[3] = fault.seed,
               ~(t[1].kind = "selection" /\ fault.what = "ref -inf")
        PROVE  \E f \in failures : f.case = fault.case /\ f.at = <<t[2], t[3]>>
    <3>1. PICK c \in cases, i \in 1..k : t = TripleAt(c, i)
      BY <2>1 DEF EvaluatedFor
    <3>2. i \in DOMAIN SeedGroups /\ SeedGroups[i] = <<SeedGroups[i][1], SeedGroups[i][2]>>
      BY <2>2, AcceptanceAssumption
    <3>3. t[1] = c /\ <<t[2], t[3]>> = SeedGroups[i] /\ t[3] = SeedGroups[i][2]
      BY <3>1, <3>2 DEF TripleAt
    <3>4. Formed(c) /\ Right(c, Mishap(c, SeedGroups[i][2]), c \in bound, NoteAt(c, i))
      BY <1>2, <3>2, NoteAtRight
    <3>5. Mishap(c, SeedGroups[i][2]) = fault.what
      BY <2>4, <3>3 DEF Mishap
    <3>6. fault.what # "none"
      <4>1. fault # NoFault
        <5>1. NoFault.case.op = "none"
          BY DEF NoFault, Case
        <5>2. c.op # "none"
          BY <3>4 DEF Formed, RequiredCoverage
        <5> QED
          BY <2>4, <3>3, <5>1, <5>2
      <4>2. PICK d \in cases : \E w \in Mishaps(d) : fault.what = w
        BY <1>2, <4>1 DEF HarnessInv, FaultsOf
      <4> QED
        BY <4>2 DEF Mishaps
    <3>7. NoteAt(c, i) # "ok"
      BY <2>4, <3>3, <3>4, <3>5, <3>6 DEF Right, Excused, Notes
    <3>8. EntryAt(c, i) \in failures
      BY <2>1, <3>7 DEF EvaluatedFor
    <3>9. EntryAt(c, i).case = c /\ EntryAt(c, i).at = SeedGroups[i]
      BY DEF EntryAt
    <3> QED
      BY <2>4, <3>3, <3>8, <3>9
  <2> QED
    BY <2>3, <2>4 DEF MishapIsNamed
<1> QED
  BY <1>1, <1>2, AcceptanceAssumption DEF HarnessInv

\* The coordinate of a case, in the form of those owed.
CoordOf(c) == <<c.op, c.path[1], c.path[2], c.dist, c.m>>

\* The joint coordinates the code requires are owed, and name a single kind.
LEMMA RequiredIsOwed ==
    ASSUME NEW c, Formed(c), Coord(c) \in RequiredJointCoords
    PROVE  CoordOf(c) \in Owed /\ c.kind \in {"logits_select", "continuous"}
<1>1. CASE Coord(c) \in {<<"indexer_logits", <<"tiled/signed", 0>>, t, n>> : t \in Dists, n \in IndexerM}
  <2>1. PICK t \in Dists, n \in IndexerM : Coord(c) = <<"indexer_logits", <<"tiled/signed", 0>>, t, n>>
    BY <1>1
  <2>2. c.op = "indexer_logits" /\ c.path[1] = "tiled/signed" /\ c.path[2] = 0 /\ c.dist = t /\ c.m = n
    BY <2>1 DEF Coord
  <2>3. CoordOf(c) = <<"indexer_logits", "tiled/signed", 0, t, n>>
    BY <2>2 DEF CoordOf
  <2>4. c.kind = "logits_select"
    BY <2>2 DEF Formed, RequiredCoverage
  <2> QED
    BY <2>3, <2>4 DEF Owed
<1>2. CASE Coord(c) \in {<<"compressor", <<"pool", s>>, t, 0>> : s \in Shapes, t \in Dists}
  <2>1. PICK s \in Shapes, t \in Dists : Coord(c) = <<"compressor", <<"pool", s>>, t, 0>>
    BY <1>2
  <2>2. c.op = "compressor" /\ c.path[1] = "pool" /\ c.path[2] = s /\ c.dist = t /\ c.m = 0
    BY <2>1 DEF Coord
  <2>3. CoordOf(c) = <<"compressor", "pool", s, t, 0>>
    BY <2>2 DEF CoordOf
  <2>4. c.kind = "continuous"
    <3>1. c.kind \in {"continuous", "continuous_masked"}
      BY <2>2 DEF Formed, RequiredCoverage
    <3>2. c.kind # "continuous_masked"
      BY <2>2, AcceptanceAssumption DEF Formed
    <3> QED
      BY <3>1, <3>2
  <2> QED
    BY <2>3, <2>4 DEF Owed
<1> QED
  BY <1>1, <1>2 DEF RequiredJointCoords

\* With exit 0 every case was evaluated under every seed, passed, and is
\* built as declared where it is bound.
LEMMA ZeroQualifies ==
    ASSUME HarnessInv, pc = "report", rc = 0
    PROVE  Qualified
<1>1. Started /\ EvaluatedFor(Len(SeedGroups)) /\ failures = {}
  BY DEF HarnessInv
<1>2. /\ SeedGroups \in Seq(STRING \X Nat)
      /\ DOMAIN SeedGroups = 1..Len(SeedGroups)
      /\ \A i \in DOMAIN SeedGroups : SeedGroups[i] = <<SeedGroups[i][1], SeedGroups[i][2]>>
  BY AcceptanceAssumption
<1>3. Complete(cases) /\ CasesFormed(cases)
  BY <1>1, ManifestsFormed DEF Started, HarnessInv
<1>4. PICK i0 \in DOMAIN SeedGroups : SeedGroups[i0][1] = "calibration"
  BY <1>3 DEF Complete
<1>5. ASSUME NEW c \in cases, NEW i \in DOMAIN SeedGroups
      PROVE  /\ TripleAt(c, i) \in done /\ NoteAt(c, i) = "ok"
             /\ Right(c, Mishap(c, SeedGroups[i][2]), c \in bound, NoteAt(c, i))
  BY <1>1, <1>2, NoteAtRight DEF EvaluatedFor
<1>6. ASSUME NEW c \in bound PROVE c \in cases /\ c.built = "declared"
  <2>1. c \in cases
    BY <1>1 DEF Started
  <2>2. NoteAt(c, i0) = "ok" /\ Right(c, Mishap(c, SeedGroups[i0][2]), c \in bound, NoteAt(c, i0))
    BY <1>5, <2>1
  <2> QED
    BY <2>1, <2>2 DEF Right
<1>7. ASSUME NEW c \in cases, c.built = "declared", NEW i \in DOMAIN SeedGroups
      PROVE  EvaluatedAt(CoordOf(c), i)
  <2>1. TripleAt(c, i) \in done
    BY <1>5
  <2>2. TripleAt(c, i)[1] = c /\ <<TripleAt(c, i)[2], TripleAt(c, i)[3]>> = SeedGroups[i]
    BY <1>2 DEF TripleAt
  <2> QED
    BY <1>7, <2>1, <2>2 DEF EvaluatedAt, CoordOf
<1>8. ASSUME NEW o \in Owed, NEW i \in DOMAIN SeedGroups PROVE EvaluatedAt(o, i)
  <2>1. CASE o \in {<<"indexer_logits", "tiled/signed", 0, t, n>> : t \in Dists, n \in IndexerM}
    <3>1. PICK t \in Dists, n \in IndexerM : o = <<"indexer_logits", "tiled/signed", 0, t, n>>
      BY <2>1
    <3>2. <<"indexer_logits", <<"tiled/signed", 0>>, t, n>> \in RequiredJointCoords
      BY DEF RequiredJointCoords
    <3>3. PICK c \in cases : Coord(c) = <<"indexer_logits", <<"tiled/signed", 0>>, t, n>>
      BY <1>3, <3>2 DEF Complete
    <3>4. c \in bound
      BY <1>1, <3>2, <3>3 DEF Started
    <3>5. CoordOf(c) = o
      BY <3>1, <3>3 DEF Coord, CoordOf
    <3> QED
      BY <1>6, <1>7, <3>4, <3>5
  <2>2. CASE o \in {<<"compressor", "pool", s, t, 0>> : s \in Shapes, t \in Dists}
    <3>1. PICK s \in Shapes, t \in Dists : o = <<"compressor", "pool", s, t, 0>>
      BY <2>2
    <3>2. <<"compressor", <<"pool", s>>, t, 0>> \in RequiredJointCoords
      BY DEF RequiredJointCoords
    <3>3. PICK c \in cases : Coord(c) = <<"compressor", <<"pool", s>>, t, 0>>
      BY <1>3, <3>2 DEF Complete
    <3>4. c \in bound
      BY <1>1, <3>2, <3>3 DEF Started
    <3>5. CoordOf(c) = o
      BY <3>1, <3>3 DEF Coord, CoordOf
    <3> QED
      BY <1>6, <1>7, <3>4, <3>5
  <2>3. CASE o \in {<<"sparse", p, n, "normal", 0>> : p \in RequiredSparsePaths, n \in SparseM}
    <3>1. PICK p \in RequiredSparsePaths, n \in SparseM : o = <<"sparse", p, n, "normal", 0>>
      BY <2>3
    <3>2. PICK c \in cases : c.kind = "continuous_sparse" /\ c.path[1] = p /\ c.path[2] = n
      BY <1>3 DEF Complete, SparseCovers
    <3>3. c.op = "sparse" /\ c.dist = "normal" /\ c.m = 0
      BY <1>3, <3>2 DEF CasesFormed, Formed, RequiredCoverage
    <3>4. c.built = "declared"
      BY <1>3, <3>3 DEF CasesFormed
    <3>5. CoordOf(c) = o
      BY <3>1, <3>2, <3>3 DEF CoordOf
    <3> QED
      BY <1>7, <3>4, <3>5
  <2> QED
    BY <2>1, <2>2, <2>3 DEF Owed
<1>9. ASSUME NEW i \in DOMAIN SeedGroups
      PROVE  \E m \in Bf16M : EvaluatedAt(<<"indexer_logits", "bf16kv/signed", 0, "normal", m>>, i)
  <2>1. <<"bf16kv/signed", 0>> \in {c.path : c \in {x \in cases : x.op = "indexer_logits"}}
    BY <1>3 DEF Complete, RequiredIndexerPaths
  <2>2. PICK c \in cases : c.op = "indexer_logits" /\ c.path = <<"bf16kv/signed", 0>>
    BY <2>1
  <2>3. c.path[1] = "bf16kv/signed" /\ c.path[2] = 0
    BY <2>2
  <2>4. c.dist = "normal" /\ c.m \in Bf16M
    BY <1>3, <2>2, <2>3 DEF CasesFormed, Formed
  <2>5. c.built = "declared"
    BY <1>3, <2>2, <2>3 DEF CasesFormed
  <2>6. CoordOf(c) = <<"indexer_logits", "bf16kv/signed", 0, "normal", c.m>>
    BY <2>2, <2>3, <2>4 DEF CoordOf
  <2>7. EvaluatedAt(CoordOf(c), i)
    BY <1>7, <2>5
  <2> QED
    BY <2>4, <2>6, <2>7
<1>10. ASSUME NEW e \in OwedKinds PROVE e \in {<<t[1].op, t[1].kind>> : t \in done}
  <2>1. e \in RequiredCoverage
    BY ManifestFormed DEF OwedKinds, Formed
  <2>2. PICK c \in cases : e = <<c.op, c.kind>>
    BY <1>3, <2>1 DEF Complete
  <2>3. TripleAt(c, i0) \in done /\ TripleAt(c, i0)[1] = c
    BY <1>5 DEF TripleAt
  <2> QED
    BY <2>2, <2>3
<1>11. fault = NoFault \/ (fault.case.kind = "selection" /\ fault.what = "ref -inf")
  <2> SUFFICES ASSUME fault # NoFault
               PROVE  fault.case.kind = "selection" /\ fault.what = "ref -inf"
    OBVIOUS
  <2>1. cases = Manifest /\ fault \in FaultsOf(cases)
    BY DEF HarnessInv
  <2>2. PICK c \in cases, i \in DOMAIN SeedGroups : \E w \in Mishaps(c) :
               fault = [case |-> c, seed |-> SeedGroups[i][2], what |-> w]
    BY <2>1 DEF FaultsOf
  <2>3. fault.case = c /\ fault.seed = SeedGroups[i][2] /\ fault.what \in Mishaps(c)
    BY <2>2
  <2>4. c.built = "declared"
    BY <2>1, ManifestFormed
  <2>5. Right(c, fault.what, c \in bound, "ok")
    BY <1>5, <2>3 DEF Mishap
  <2>6. Excused(c, fault.what)
    BY <2>4, <2>5 DEF Right, Notes
  <2>7. fault.what # "none"
    BY <2>3 DEF Mishaps
  <2> QED
    BY <2>3, <2>6, <2>7 DEF Excused
<1> QED
  BY <1>8, <1>9, <1>10, <1>11 DEF Qualified

\* What is qualified left no failure: of its mishaps there is none that is
\* not excused, and a bound case that is built otherwise would leave its
\* coordinate without a declared case.
LEMMA QualifiedIsZero ==
    ASSUME HarnessInv, pc = "report", Qualified
    PROVE  rc = 0
<1>1. done # {}
  <2>1. Case("sinkhorn", <<"fused", 0>>, "continuous_tuple3", "normal", 0) \in Manifest
    BY DEF Manifest
  <2>2. <<"sinkhorn", "continuous_tuple3">> \in {<<c.op, c.kind>> : c \in Manifest}
    <3>1. PICK c \in Manifest : c = Case("sinkhorn", <<"fused", 0>>, "continuous_tuple3", "normal", 0)
      BY <2>1
    <3>2. c.op = "sinkhorn" /\ c.kind = "continuous_tuple3"
      BY <3>1 DEF Case
    <3> QED
      BY <3>2
  <2>3. <<"sinkhorn", "continuous_tuple3">> \in OwedKinds
    BY <2>2 DEF OwedKinds
  <2> QED
    BY <2>3 DEF Qualified
<1>2. Started /\ EvaluatedFor(Len(SeedGroups)) /\ rc = IF failures = {} THEN 0 ELSE 2
  BY <1>1 DEF HarnessInv, NothingYet
<1>3. /\ DOMAIN SeedGroups = 1..Len(SeedGroups) /\ CasesFormed(cases)
  BY AcceptanceAssumption, ManifestsFormed DEF HarnessInv
<1>4. ASSUME NEW f \in failures PROVE FALSE
  <2>1. PICK c \in cases, i \in DOMAIN SeedGroups : NoteAt(c, i) # "ok"
    BY <1>2, <1>3, <1>4 DEF EvaluatedFor
  <2>2. Formed(c) /\ Right(c, Mishap(c, SeedGroups[i][2]), c \in bound, NoteAt(c, i))
    BY NoteAtRight
  <2>3. CASE c \in bound /\ c.built # "declared"
    <3>1. Coord(c) \in RequiredJointCoords
      BY <1>2, <2>3 DEF Started
    <3>2. PICK d \in Manifest : d \notin cases /\ c = Other(d)
      BY <1>3, <2>3 DEF CasesFormed
    <3>3. Formed(d) /\ d.built = "declared"
      BY ManifestFormed
    <3>4. c.op = d.op /\ c.path = d.path /\ c.kind = d.kind /\ c.dist = d.dist /\ c.m = d.m
      BY <3>2, <3>3 DEF Other, Formed
    <3>5. CoordOf(c) \in Owed /\ c.kind \in {"logits_select", "continuous"}
      BY <2>2, <3>1, RequiredIsOwed
    <3>6. PICK t \in done : t[1].built = "declared" /\ CoordOf(t[1]) = CoordOf(c)
      BY <3>5 DEF Qualified, EvaluatedAt, CoordOf
    <3>7. PICK e \in cases : e = t[1]
      BY <1>2 DEF EvaluatedFor, TripleAt
    <3>8. e.op = c.op /\ e.path[1] = c.path[1] /\ e.path[2] = c.path[2] /\ e.dist = c.dist /\ e.m = c.m
      BY <3>6, <3>7 DEF CoordOf
    <3>9. Formed(e) /\ e.built = "declared"
      BY <1>3, <3>6, <3>7 DEF CasesFormed
    <3>10. e.path = c.path
      BY <2>2, <3>8, <3>9 DEF Formed
    <3>11. Coord(e) = Coord(c)
      BY <3>8, <3>10 DEF Coord
    <3>12. e.kind = c.kind
      <4>1. e.kind \in {"logits_select", "continuous"}
        BY <3>1, <3>9, <3>11, RequiredIsOwed
      <4> QED
        BY <2>2, <3>5, <3>8, <3>9, <4>1 DEF Formed, RequiredCoverage
    <3>13. e = d
      BY <3>3, <3>4, <3>8, <3>9, <3>10, <3>12 DEF Formed
    <3> QED
      BY <3>2, <3>13
  <2>4. CASE ~(c \in bound /\ c.built # "declared")
    <3>1. ~Excused(c, Mishap(c, SeedGroups[i][2]))
      BY <2>1, <2>2, <2>4 DEF Right
    <3>2. fault.case = c /\ Mishap(c, SeedGroups[i][2]) = fault.what /\ fault.what # "none"
      BY <3>1 DEF Mishap, Excused
    <3>3. fault # NoFault
      BY <3>2 DEF NoFault
    <3> QED
      BY <3>1, <3>2, <3>3 DEF Qualified, Excused
  <2> QED
    BY <2>3, <2>4
<1> QED
  BY <1>2, <1>4

\* The cases of two kinds there is one of.
LEMMA OneOfAKind ==
    ASSUME NEW c \in Manifest
    PROVE  /\ c.kind = "composed" => c = Case("sparse", <<"composed", 0>>, "composed", "normal", 0)
           /\ c.kind = "continuous_tuple3"
                 => c = Case("sinkhorn", <<"fused", 0>>, "continuous_tuple3", "normal", 0)
<1>1. CASE c \in IndexerCases
  BY <1>1 DEF IndexerCases, Case
<1>2. CASE c \in TopkCases
  BY <1>2 DEF TopkCases, Case
<1>3. CASE c \in CompressorCases
  BY <1>3 DEF CompressorCases, Case
<1>4. CASE c \in SparseCases
  BY <1>4 DEF SparseCases, Case
<1>5. CASE c = Case("sinkhorn", <<"fused", 0>>, "continuous_tuple3", "normal", 0)
  BY <1>5 DEF Case
<1>6. CASE c \in {Case("combine", <<"tiled", 0>>, "continuous", d, 0) : d \in Dists}
  BY <1>6 DEF Case
<1> QED
  BY <1>1, <1>2, <1>3, <1>4, <1>5, <1>6 DEF Manifest

\* With exit 0 what is missing is a case that nothing asks for: for each of
\* the others a coordinate, a path or a kind is asked for that no other case
\* has, declared.
LEMMA ZeroMissesUnasked ==
    ASSUME HarnessInv, pc = "report", rc = 0
    PROVE  Manifest \ cases \subseteq Unasked
<1> SUFFICES ASSUME NEW c \in Manifest, c \notin Unasked
             PROVE  c \in cases
  OBVIOUS
<1>1. Formed(c) /\ c.built = "declared"
  BY ManifestFormed
<1>2. Complete(cases) /\ CasesFormed(cases)
  BY ManifestsFormed DEF HarnessInv, Started
<1>3. ASSUME NEW x \in cases, x.built = "declared", x.op = c.op, x.path[1] = c.path[1],
             x.path[2] = c.path[2], x.kind = c.kind, x.dist = c.dist, x.m = c.m
      PROVE  c \in cases
  <2>1. Formed(x)
    BY <1>2 DEF CasesFormed
  <2>2. x = c
    BY <1>1, <1>3, <2>1 DEF Formed
  <2> QED BY <2>2
<1>4. ASSUME CoordOf(c) \in Owed
      PROVE  \E x \in cases : x.built = "declared" /\ CoordOf(x) = CoordOf(c)
  <2>1. PICK i \in DOMAIN SeedGroups : SeedGroups[i][1] = "calibration"
    BY <1>2 DEF Complete
  <2>2. PICK t \in done : t[1].built = "declared" /\ CoordOf(t[1]) = CoordOf(c)
    <3>1. EvaluatedAt(CoordOf(c), i)
      BY <1>4, <2>1, ZeroQualifies DEF Qualified
    <3> QED BY <3>1, Zenon DEF EvaluatedAt, CoordOf
  <2>3. t[1] \in cases
    BY DEF HarnessInv, EvaluatedFor, TripleAt
  <2> QED BY <2>2, <2>3
<1>5. CASE c \in IndexerCases
  <2>1. CASE \E d \in Dists, m \in IndexerM :
                c = Case("indexer_logits", <<"tiled/signed", 0>>, "logits_select", d, m)
    <3>1. CoordOf(c) \in Owed /\ c.op = "indexer_logits" /\ c.kind = "logits_select"
      BY <2>1 DEF Case, CoordOf, Owed
    <3>2. PICK x \in cases : x.built = "declared" /\ CoordOf(x) = CoordOf(c)
      BY <1>4, <3>1
    <3>3. x.op = c.op /\ x.path[1] = c.path[1] /\ x.path[2] = c.path[2] /\ x.dist = c.dist /\ x.m = c.m
      BY <3>2 DEF CoordOf
    <3>4. x.kind = "logits_select"
      BY <1>2, <3>1, <3>3 DEF CasesFormed, Formed, RequiredCoverage
    <3> QED BY <1>3, <3>1, <3>2, <3>3, <3>4
  <2>2. CASE \E m \in Bf16M :
                c = Case("indexer_logits", <<"bf16kv/signed", 0>>, "logits_select", "normal", m)
    <3>1. /\ c.op = "indexer_logits" /\ c.path[1] = "bf16kv/signed" /\ c.path[2] = 0
          /\ c.kind = "logits_select" /\ c.dist = "normal"
      BY <2>2 DEF Case
    <3>2. \A m \in Bf16M : m = c.m
      BY <3>1 DEF Unasked
    <3>3. <<"bf16kv/signed", 0>> \in {x.path : x \in {y \in cases : y.op = "indexer_logits"}}
      BY <1>2 DEF Complete, RequiredIndexerPaths
    <3>4. PICK x \in cases : x.op = "indexer_logits" /\ x.path = <<"bf16kv/signed", 0>>
      BY <3>3
    <3>5. x.path[1] = "bf16kv/signed" /\ x.path[2] = 0
      BY <3>4
    <3>6. x.dist = "normal" /\ x.m \in Bf16M /\ x.kind = "logits_select"
      BY <1>2, <3>4, <3>5 DEF CasesFormed, Formed, RequiredCoverage
    <3>7. x.built = "declared"
      BY <1>2, <3>4, <3>5 DEF CasesFormed
    <3> QED BY <1>3, <3>1, <3>2, <3>4, <3>5, <3>6, <3>7
  <2> QED BY <1>5, <2>1, <2>2 DEF IndexerCases
<1>6. CASE c \in CompressorCases
  <2>1. c.op = "compressor"
    BY <1>6 DEF CompressorCases, Case
  <2>2. PICK p \in {"pool", "fp32intrin"}, s \in Shapes, d \in Dists :
            c = Case("compressor", <<p, s>>, "continuous", d, 0)
    <3>1. c.kind # "continuous_masked"
      BY DEF Unasked
    <3> QED BY <1>6, <3>1 DEF CompressorCases, Case
  <2>3. /\ c.path[1] = p /\ c.path[2] = s /\ c.kind = "continuous" /\ c.dist = d /\ c.m = 0
    BY <2>2 DEF Case
  <2>4. p = "pool"
    BY <2>1, <2>3 DEF Unasked
  <2>5. CoordOf(c) \in Owed
    BY <2>1, <2>3, <2>4 DEF CoordOf, Owed
  <2>6. PICK x \in cases : x.built = "declared" /\ CoordOf(x) = CoordOf(c)
    BY <1>4, <2>5
  <2>7. x.op = c.op /\ x.path[1] = c.path[1] /\ x.path[2] = c.path[2] /\ x.dist = c.dist /\ x.m = c.m
    BY <2>6 DEF CoordOf
  <2>8. x.kind = "continuous"
    <3>1. Formed(x)
      BY <1>2 DEF CasesFormed
    <3>2. x.kind \in {"continuous", "continuous_masked"}
      BY <2>1, <2>7, <3>1 DEF Formed, RequiredCoverage
    <3>3. x.kind # "continuous_masked"
      BY <2>3, <2>7, <3>1, AcceptanceAssumption DEF Formed
    <3> QED BY <3>2, <3>3
  <2> QED BY <1>3, <2>3, <2>6, <2>7, <2>8
<1>7. CASE c \in SparseCases
  <2>1. CASE \E p \in DOMAIN SparseSweep : \E n \in SparseSweep[p] :
                c = Case("sparse", <<p, n>>, "continuous_sparse", "normal", 0)
    <3>1. /\ c.op = "sparse" /\ c.kind = "continuous_sparse" /\ c.dist = "normal" /\ c.m = 0
      BY <2>1 DEF Case
    <3>2. c.path[1] \in RequiredSparsePaths /\ c.path[2] \in SparseM
      BY <3>1 DEF Unasked
    <3>3. PICK x \in cases : x.kind = "continuous_sparse" /\ x.path[1] = c.path[1] /\ x.path[2] = c.path[2]
      BY <1>2, <3>2 DEF Complete, SparseCovers
    <3>4. x.op = "sparse" /\ x.dist = "normal" /\ x.m = 0
      BY <1>2, <3>3 DEF CasesFormed, Formed, RequiredCoverage
    <3>5. x.built = "declared"
      BY <1>2, <3>4 DEF CasesFormed
    <3> QED BY <1>3, <3>1, <3>3, <3>4, <3>5
  <2>2. CASE c = Case("sparse", <<"composed", 0>>, "composed", "normal", 0)
    <3>1. <<"sparse", "composed">> \in {<<x.op, x.kind>> : x \in cases}
      BY <1>2 DEF Complete, RequiredCoverage
    <3>2. PICK x \in cases : x.op = "sparse" /\ x.kind = "composed"
      BY <3>1
    <3>3. x \in Manifest
      BY <1>2, <3>2 DEF CasesFormed
    <3> QED BY <2>2, <3>2, <3>3, OneOfAKind
  <2> QED BY <1>7, <2>1, <2>2 DEF SparseCases
<1>8. CASE c = Case("sinkhorn", <<"fused", 0>>, "continuous_tuple3", "normal", 0)
  <2>1. <<"sinkhorn", "continuous_tuple3">> \in {<<x.op, x.kind>> : x \in cases}
    BY <1>2 DEF Complete, RequiredCoverage
  <2>2. PICK x \in cases : x.op = "sinkhorn" /\ x.kind = "continuous_tuple3"
    BY <2>1
  <2>3. x \in Manifest
    BY <1>2, <2>2 DEF CasesFormed
  <2> QED BY <1>8, <2>2, <2>3, OneOfAKind
<1>9. CASE c.op \in {"indexer_topk", "combine"}
  BY <1>9 DEF Unasked
<1> QED
  <2>1. c \in TopkCases => c.op = "indexer_topk"
    BY DEF TopkCases, Case
  <2>2. c \in {Case("combine", <<"tiled", 0>>, "continuous", d, 0) : d \in Dists} => c.op = "combine"
    BY DEF Case
  <2> QED BY <1>5, <1>6, <1>7, <1>8, <1>9, <2>1, <2>2 DEF Manifest

\* The exit code is 0 exactly if every coordinate owed was evaluated as
\* declared under every seed and nothing went wrong, with 0 no case is
\* missing but those that nothing asks for, and the failures name
\* what went wrong: for every sweep, set of shapes and sequence of seeds.
THEOREM ExitCodeIsHonest == Spec => []ExitIsHonest
<1>1. HarnessInv /\ GateInv => ExitIsHonest
  <2> SUFFICES ASSUME HarnessInv, GateInv PROVE ExitIsHonest
    OBVIOUS
  <2>1. ZeroIfQualified
    BY ZeroQualifies, QualifiedIsZero DEF ZeroIfQualified
  <2>2. OnlyUnaskedIsMissed
    BY ZeroMissesUnasked DEF OnlyUnaskedIsMissed
  <2> QED
    BY <2>1, <2>2, HarnessTyped, HarnessNames DEF ExitIsHonest
<1>2. Init => HarnessInv /\ GateInv
  BY HarnessInit, GateInit
<1>3. HarnessInv /\ GateInv /\ [Next]_vars => (HarnessInv /\ GateInv)'
  BY HarnessStep, GateStep
<1> QED
  BY <1>1, <1>2, <1>3, PTL DEF Spec

-----------------------------------------------------------------------------
(* The review loop of a gate. *)

\* What output, a review file and feedback can hold.
Reviews ==
    {Nothing}
    \cup [kind : {"no block", "malformed", "invalid", "PASS", "FAIL", "SURFACE"},
          surface : BOOLEAN, run : 1..MaxRuns, round : 1..MaxIterations]

\* The entries of one run: rounds 1, 2, ..., all but the last FAIL.
Story(s) ==
    /\ s \in Seq(Entry)
    /\ \A i \in 1..Len(s) : s[i].round = i /\ (i < Len(s) => s[i].status = "FAIL")

\* What the ledger and the trail can hold.
RunRecords ==
    [run : 1..MaxRuns, rounds : {s \in Seq(Entry) : Story(s)},
     outcome : {"open", "PASS", "SURFACE"}]

\* Where the loop is; and the values of what it reads.
Control ==
    /\ run \in 0..MaxRuns /\ rnd \in 0..MaxIterations
    /\ step \in {"off", "execute", "review", "parse", "decide", "finish", "close"}
    /\ exit \in {"none", "running", "raised", "0", "2"}
    /\ step # "off" => run > 0 /\ rnd > 0 /\ exit = "running"
    /\ output \in Reviews /\ files \in [0..MaxIterations -> Reviews] /\ feedback \in Reviews

\* The files and the review at hand: who wrote them, and for which round.
ReviewsOK ==
    /\ opt.output = "per round" =>
          \A i \in 1..MaxIterations : files[i] # Nothing => files[i].round = i
    /\ opt.output = "none" => \A i \in 0..MaxIterations : files[i] = Nothing
    /\ step \in {"parse", "decide", "finish", "close"} =>
          output # Nothing /\ output.run = run /\ output.round = rnd
    /\ FeedbackIsLast

\* The entries of this run are those of its rounds: up to the one before while
\* the round is open, with the verdict of this one once it is decided.
RoundsOK ==
    /\ Story(rounds)
    /\ step \in {"execute", "review", "parse"} =>
          Len(rounds) = rnd - 1 /\ \A i \in 1..Len(rounds) : rounds[i].status = "FAIL"
    /\ step \in {"decide", "finish", "close"} =>
          Len(rounds) = rnd /\ rounds[rnd].status = Status(VerdictFrom)
    /\ step \in {"finish", "close"} => Ends # "none"

\* The ledger and the trail of this run, or of one before.
FilesOK ==
    /\ ledger # Nothing => ledger \in RunRecords /\ ledger.run <= run
    /\ trail # Nothing => trail \in RunRecords /\ trail.run <= run
    /\ step \in {"execute", "review", "parse", "decide", "finish"} /\ ledger # Nothing =>
          ledger.run < run
    /\ step = "close" => ledger = [run |-> run, rounds |-> rounds, outcome |-> Ends]
    /\ step \in {"execute", "review", "parse"} /\ trail # Nothing =>
          trail.run < run \/ (trail.run = run /\ trail.rounds = rounds /\ trail.outcome = "open")
    /\ step \in {"decide", "finish", "close"} =>
          trail = [run |-> run, rounds |-> rounds, outcome |-> "open"]
    /\ ledger # Nothing =>
          /\ trail # Nothing /\ trail.run >= ledger.run
          /\ IF trail.run = ledger.run
             THEN trail.rounds = ledger.rounds /\ trail.outcome \in {"open", ledger.outcome}
             ELSE trail.outcome = "open"
    /\ ExitTellsLedger

\* The inductive invariant of the loop.
LoopInv == Control /\ ReviewsOK /\ RoundsOK /\ FilesOK

\* A ledger that is written is not taken for none.
LEMMA RecordIsSomething ==
    ASSUME NEW r, NEW s, NEW o
    PROVE  [run |-> r, rounds |-> s, outcome |-> o] # Nothing
<1>1. "run" \in DOMAIN [run |-> r, rounds |-> s, outcome |-> o]
  OBVIOUS
<1>2. "run" \notin DOMAIN Nothing
  BY DEF Nothing
<1> QED
  BY <1>1, <1>2

\* The verdict is a function of the round and its reviews.
LEMMA VerdictStays ==
    ASSUME UNCHANGED <<opt, rnd, output, files>>
    PROVE  /\ VerdictFrom' = VerdictFrom
           /\ Ends' = Ends
           /\ Outcome' = Outcome
<1>1. VerdictFrom' = VerdictFrom
  BY DEF VerdictFrom, ReviewFile, FileOf, HasBlock
<1>2. Outcome' = Outcome
  BY <1>1 DEF Outcome, Status, AsksUser
<1> QED
  BY <1>1, <1>2 DEF Ends

\* A run ends as passed on a PASS, and goes on only on a FAIL that asks for
\* nobody and before the last round.
LEMMA VerdictDecides ==
    /\ Status(VerdictFrom) \in {"PASS", "FAIL", "SURFACE"}
    /\ Ends \in {"none", "PASS", "SURFACE"}
    /\ Ends = "PASS" => VerdictFrom.kind = "PASS"
    /\ Ends = "none" =>
          /\ VerdictFrom.kind = "FAIL" /\ ~VerdictFrom.surface
          /\ Status(VerdictFrom) = "FAIL" /\ rnd < MaxIterations
<1> DEFINE v == VerdictFrom
<1>1. /\ Status(v) \in {"PASS", "FAIL", "SURFACE"}
      /\ Status(v) = "PASS" => v.kind = "PASS"
      /\ Status(v) = "FAIL" => v.kind = "FAIL"
  BY DEF Status, Statuses
<1>2. /\ Outcome \in {"none", "PASS", "SURFACE"}
      /\ Outcome = "PASS" => Status(v) = "PASS"
      /\ Outcome = "none" => Status(v) = "FAIL" /\ ~AsksUser(v)
  BY <1>1 DEF Outcome
<1>3. v.kind = "FAIL" /\ ~AsksUser(v) => ~v.surface
  BY DEF AsksUser, Statuses
<1> QED
  BY <1>1, <1>2, <1>3 DEF Ends

\* The review file of the round is one of the files.
LEMMA FileIsReview ==
    ASSUME Control, step # "off"
    PROVE  /\ FileOf(rnd) \in 0..MaxIterations
           /\ ReviewFile \in Reviews
<1>1. rnd \in 1..MaxIterations /\ 0 \in 0..MaxIterations
  BY ReviewLoopAssumption DEF Control
<1>2. FileOf(rnd) \in 0..MaxIterations
  BY <1>1, ReviewLoopAssumption DEF FileOf
<1>3. ReviewFile \in Reviews
  BY <1>2 DEF Control, ReviewFile, Reviews
<1> QED
  BY <1>2, <1>3

\* A review bears the run and the round it is written in.
LEMMA ReviewIsWritten ==
    ASSUME NEW b \in Blocks, run \in 1..MaxRuns, rnd \in 1..MaxIterations
    PROVE  /\ Review(b, run, rnd) \in Reviews
           /\ Review(b, run, rnd) # Nothing
           /\ Review(b, run, rnd).run = run
           /\ Review(b, run, rnd).round = rnd
<1>1. Review(b, run, rnd) \in Reviews
  BY DEF Review, Blocks, Reviews, Statuses
<1>2. Review(b, run, rnd) # Nothing
  BY DEF Review, Blocks, Nothing, Statuses
<1> QED
  BY <1>1, <1>2 DEF Review

\* Without review_output there is no review file to read.
LEMMA NoFile == opt.output = "none" => ReviewFile = Nothing
  BY DEF ReviewFile

\* LoopInv holds at first,
LEMMA LoopBegins == LoopInit => LoopInv
<1> SUFFICES ASSUME LoopInit PROVE LoopInv
  OBVIOUS
<1> USE ReviewLoopAssumption
<1>0. /\ run = 0 /\ step = "off" /\ rnd = 0 /\ exit = "none"
      /\ output = Nothing /\ files = [i \in 0..MaxIterations |-> Nothing]
      /\ feedback = Nothing /\ rounds = <<>>
      /\ ledger = Nothing /\ trail = Nothing
  BY DEF LoopInit
<1>1. Control
  BY <1>0 DEF Control, Reviews
<1>2. ReviewsOK
  <2>1. \A i \in 0..MaxIterations : files[i] = Nothing
    BY <1>0
  <2>2. \A i \in 1..MaxIterations : i \in 0..MaxIterations
    OBVIOUS
  <2> QED BY <1>0, <2>1, <2>2 DEF ReviewsOK, FeedbackIsLast
<1>3. RoundsOK
  BY <1>0 DEF RoundsOK, Story
<1>4. FilesOK
  BY <1>0 DEF FilesOK, ExitTellsLedger
<1> QED
  BY <1>1, <1>2, <1>3, <1>4 DEF LoopInv

\* is kept by every step,
LEMMA LoopGoesOn ==
    ASSUME LoopInv, [LoopNext]_loopVars
    PROVE  LoopInv'
<1> USE ReviewLoopAssumption
<1>1. ASSUME UNCHANGED loopVars PROVE LoopInv'
  <2>1. Control' BY <1>1 DEF loopVars, LoopInv, Control
  <2>2. ReviewsOK' BY <1>1 DEF loopVars, LoopInv, ReviewsOK, FeedbackIsLast
  <2>3. RoundsOK' BY <1>1, VerdictStays DEF loopVars, LoopInv, RoundsOK, Status
  <2>4. FilesOK' BY <1>1, VerdictStays DEF loopVars, LoopInv, FilesOK, ExitTellsLedger
  <2> QED BY <2>1, <2>2, <2>3, <2>4 DEF LoopInv
<1>2. CASE Disabled
  <2> USE <1>2 DEF Disabled, LoopInv
  <2>1. Control' BY DEF Control
  <2>2. ReviewsOK' BY DEF ReviewsOK, FeedbackIsLast
  <2>3. RoundsOK' BY DEF RoundsOK
  <2>4. FilesOK' BY DEF FilesOK, ExitTellsLedger, Control, RunRecords
  <2> QED BY <2>1, <2>2, <2>3, <2>4
<1>3. CASE Start
  <2>0. /\ run < MaxRuns /\ run' = run + 1 /\ step' = "execute" /\ rnd' = 1
        /\ rounds' = <<>> /\ feedback' = Nothing /\ exit' = "running"
        /\ UNCHANGED <<opt, output, files, ledger, trail>> /\ step = "off"
    BY <1>3 DEF Start
  <2> USE <2>0 DEF LoopInv
  <2>5. run' \in 1..MaxRuns /\ rnd' \in 1..MaxIterations
    BY DEF Control
  <2>6. feedback' \in Reviews
    BY DEF Reviews
  <2>7. output' \in Reviews /\ files' \in [0..MaxIterations -> Reviews]
    BY DEF Control
  <2>1. Control'
    <3> HIDE <2>0
    <3>1. step' = "execute" /\ exit' = "running"
      BY <2>0
    <3>2. run' \in 0..MaxRuns /\ rnd' \in 0..MaxIterations /\ run' > 0 /\ rnd' > 0
      BY <2>5
    <3>3. feedback' \in Reviews
      BY <2>6
    <3> QED BY <2>7, <3>1, <3>2, <3>3 DEF Control
  <2>2. ReviewsOK'
    <3>1. FeedbackIsLast'
      BY DEF FeedbackIsLast
    <3> QED BY <3>1 DEF ReviewsOK
  <2>3. RoundsOK' BY DEF RoundsOK, Story
  <2>4. FilesOK' BY DEF FilesOK, ExitTellsLedger, Control, RunRecords
  <2> QED BY <2>1, <2>2, <2>3, <2>4
<1>4. CASE Execute
  <2> USE <1>4 DEF Execute, LoopInv
  <2>1. Control' BY DEF Control
  <2>2. ReviewsOK' BY DEF ReviewsOK, FeedbackIsLast
  <2>3. RoundsOK' BY DEF RoundsOK
  <2>4. FilesOK' BY DEF FilesOK, ExitTellsLedger
  <2> QED BY <2>1, <2>2, <2>3, <2>4
<1>5. CASE ReviewByAgent
  <2> USE <1>5 DEF ReviewByAgent, LoopInv
  <2>0. rnd \in 1..MaxIterations /\ run \in 1..MaxRuns
    BY DEF Control
  <2>5. \A b \in Blocks : Review(b, run, rnd) \in Reviews
    BY <2>0, ReviewIsWritten
  <2>6. \A b \in Blocks : /\ Review(b, run, rnd) # Nothing
                               /\ Review(b, run, rnd).run = run
                               /\ Review(b, run, rnd).round = rnd
    BY <2>0, ReviewIsWritten
  <2>7. FileOf(rnd) \in 0..MaxIterations
    BY FileIsReview
  <2>1. Control' BY <2>5, <2>7 DEF Control
  <2>2. ReviewsOK'
    <3>1. (opt.output = "per round" =>
          \A i \in 1..MaxIterations : files[i] # Nothing => files[i].round = i)'
      <4> SUFFICES ASSUME opt.output = "per round", NEW i \in 1..MaxIterations,
                          files'[i] # Nothing
                   PROVE  files'[i].round = i
        OBVIOUS
      <4>1. files[i] # Nothing => files[i].round = i
        BY DEF ReviewsOK
      <4>2. files \in [0..MaxIterations -> Reviews] /\ FileOf(rnd) = rnd
        BY DEF Control, FileOf
      <4>3. \/ files' = files
            \/ \E b \in Blocks : files' = [files EXCEPT ![rnd] = Review(b, run, rnd)]
        <5> HIDE <1>5
        <5>1. \/ files' = files
              \/ \E b \in Blocks :
                    files' = [files EXCEPT ![FileOf(rnd)] = Review(b, run, rnd)]
          BY <1>5 DEF ReviewByAgent
        <5>2. FileOf(rnd) = rnd
          BY <4>2
        <5>3. ASSUME NEW b \in Blocks,
                     files' = [files EXCEPT ![FileOf(rnd)] = Review(b, run, rnd)]
              PROVE  files' = [files EXCEPT ![rnd] = Review(b, run, rnd)]
          BY ONLY <5>2, <5>3
        <5> QED BY <5>1, <5>3
      <4>4. ASSUME NEW b \in Blocks,
                   files' = [files EXCEPT ![rnd] = Review(b, run, rnd)]
            PROVE  files'[i].round = i
        <5>1. CASE i = rnd
          BY ONLY <4>2, <4>4, <5>1, <2>0, <2>6, ReviewLoopAssumption
        <5>2. CASE i # rnd
          <6>1. files'[i] = files[i]
            BY ONLY <4>2, <4>4, <5>2, <2>0, ReviewLoopAssumption
          <6> QED BY <6>1, <4>1
        <5> QED BY <5>1, <5>2
      <4> QED BY <4>1, <4>3, <4>4
    <3>2. (opt.output = "none" => \A i \in 0..MaxIterations : files[i] = Nothing)'
      BY DEF ReviewsOK
    <3> QED BY <3>1, <3>2, <2>6 DEF ReviewsOK, FeedbackIsLast
  <2>3. RoundsOK' BY DEF RoundsOK
  <2>4. FilesOK' BY DEF FilesOK, ExitTellsLedger
  <2> QED BY <2>1, <2>2, <2>3, <2>4
<1>6. CASE ReviewByHuman
  <2>0. rnd \in 1..MaxIterations /\ run \in 1..MaxRuns
    <3>1. step # "off"
      BY <1>6 DEF ReviewByHuman
    <3> QED BY <3>1 DEF Control, LoopInv
  <2> USE <1>6 DEF ReviewByHuman, LoopInv
  <2>5. \A b \in Blocks : Review(b, run, rnd) \in Reviews
    BY <2>0, ReviewIsWritten
  <2>6. \A b \in Blocks : /\ Review(b, run, rnd) # Nothing
                               /\ Review(b, run, rnd).run = run
                               /\ Review(b, run, rnd).round = rnd
    BY <2>0, ReviewIsWritten
  <2>1. Control' BY <2>5 DEF Control
  <2>2. ReviewsOK' BY <2>6 DEF ReviewsOK, FeedbackIsLast
  <2>3. RoundsOK' BY DEF RoundsOK
  <2>4. FilesOK' BY DEF FilesOK, ExitTellsLedger
  <2> QED BY <2>1, <2>2, <2>3, <2>4
<1>7. CASE Parse
  <2> USE <1>7 DEF Parse, LoopInv
  <2> DEFINE e == [round |-> rnd, status |-> Status(VerdictFrom)]
  <2>1. Control' BY DEF Control
  <2>2. ReviewsOK' BY DEF ReviewsOK, FeedbackIsLast
  <2>5. rnd \in 1..MaxIterations /\ run \in 1..MaxRuns
    BY DEF Control
  <2>6. e \in Entry
    BY <2>5, VerdictDecides DEF Entry, Statuses
  <2>7. /\ rounds \in Seq(Entry) /\ Len(rounds) = rnd - 1
        /\ \A i \in 1..Len(rounds) : rounds[i].round = i /\ rounds[i].status = "FAIL"
    BY DEF RoundsOK, Story
  <2>8. /\ rounds' \in Seq(Entry) /\ Len(rounds') = rnd /\ rounds'[rnd] = e
        /\ \A i \in 1..(rnd - 1) : rounds'[i] = rounds[i]
    BY <2>5, <2>6, <2>7
  <2>9. Story(rounds')
    BY <2>5, <2>7, <2>8 DEF Story
  <2>3. RoundsOK'
    <3> HIDE DEF e
    <3>1. Status(VerdictFrom)' = Status(VerdictFrom)
      BY VerdictStays DEF Status
    <3>2. e.status = Status(VerdictFrom)
      BY DEF e
    <3> QED BY <2>8, <2>9, <3>1, <3>2 DEF RoundsOK
  <2>4. FilesOK'
    <3>1. trail' = [run |-> run, rounds |-> rounds', outcome |-> "open"]
      OBVIOUS
    <3>2. trail' \in RunRecords /\ trail' # Nothing
      BY <2>5, <2>8, <2>9, <3>1, RecordIsSomething DEF RunRecords
    <3>3. trail'.run = run /\ trail'.rounds = rounds' /\ trail'.outcome = "open"
      BY <3>1
    <3> QED BY <2>5, <3>1, <3>2, <3>3 DEF FilesOK, ExitTellsLedger, RunRecords
  <2> QED BY <2>1, <2>2, <2>3, <2>4
<1>8. CASE Conclude
  <2> USE <1>8 DEF Conclude, LoopInv
  <2>5. rnd \in 1..MaxIterations /\ run \in 1..MaxRuns
    BY DEF Control
  <2>6. /\ output # Nothing /\ output.run = run /\ output.round = rnd /\ output \in Reviews
        /\ ReviewFile \in Reviews
    BY FileIsReview DEF ReviewsOK, Control
  <2>7. CASE Ends = "none"
    <3>1. /\ step' = "execute" /\ rnd' = rnd + 1 /\ rnd < MaxIterations
          /\ feedback' = IF ReviewFile # Nothing THEN ReviewFile ELSE output
          /\ Status(VerdictFrom) = "FAIL"
      BY <2>7, VerdictDecides
    <3>2. Control' BY <2>5, <2>6, <3>1 DEF Control
    <3>3. ReviewsOK'
      <4>1. FeedbackIsLast'
        BY NoFile, <2>5, <2>6, <3>1 DEF FeedbackIsLast
      <4> QED BY <4>1, <3>1 DEF ReviewsOK
    <3>4. RoundsOK'
      <4>1. Story(rounds) /\ Len(rounds) = rnd /\ rounds[rnd].status = "FAIL"
        BY <3>1 DEF RoundsOK
      <4>2. \A i \in 1..Len(rounds) : rounds[i].status = "FAIL"
        BY <4>1, <2>5 DEF Story
      <4> QED BY <2>5, <3>1, <4>1, <4>2 DEF RoundsOK
    <3>5. FilesOK'
      <4>1. trail.run = run /\ trail.rounds = rounds /\ trail.outcome = "open"
        BY DEF FilesOK
      <4> QED BY <4>1, <3>1 DEF FilesOK, ExitTellsLedger
    <3> QED BY <3>2, <3>3, <3>4, <3>5
  <2>8. CASE Ends # "none"
    <3>1. step' = "finish" /\ UNCHANGED <<rnd, feedback>>
      BY <2>8
    <3>2. Control' BY <3>1 DEF Control
    <3>3. ReviewsOK' BY <3>1 DEF ReviewsOK, FeedbackIsLast
    <3>4. RoundsOK' BY <2>8, <3>1, VerdictStays DEF RoundsOK, Status
    <3>5. FilesOK' BY <3>1 DEF FilesOK, ExitTellsLedger
    <3> QED BY <3>2, <3>3, <3>4, <3>5
  <2> QED BY <2>7, <2>8
<1>9. CASE WriteLedger
  <2> USE <1>9 DEF WriteLedger, LoopInv
  <2>1. Control' BY DEF Control
  <2>2. ReviewsOK' BY DEF ReviewsOK, FeedbackIsLast
  <2>3. RoundsOK' BY VerdictStays DEF RoundsOK, Status
  <2>4. FilesOK'
    <3>1. run \in 1..MaxRuns /\ Story(rounds) /\ rounds \in Seq(Entry)
      BY DEF Control, RoundsOK, Story
    <3>2. Ends \in {"PASS", "SURFACE"} /\ Ends' = Ends
      BY VerdictStays, VerdictDecides DEF RoundsOK
    <3>3. ledger' = [run |-> run, rounds |-> rounds, outcome |-> Ends]
      OBVIOUS
    <3>4. ledger' \in RunRecords
      BY <3>1, <3>2, <3>3 DEF RunRecords
    <3>5. ledger'.run = run /\ ledger'.rounds = rounds
      BY <3>3
    <3>6. trail = [run |-> run, rounds |-> rounds, outcome |-> "open"] /\ trail # Nothing
      BY RecordIsSomething DEF FilesOK
    <3>7. trail.run = run /\ trail.rounds = rounds /\ trail.outcome = "open"
      BY <3>6
    <3> QED BY <3>1, <3>2, <3>3, <3>4, <3>5, <3>6, <3>7 DEF FilesOK, ExitTellsLedger
  <2> QED BY <2>1, <2>2, <2>3, <2>4
<1>10. CASE WriteTrail
  <2> USE <1>10 DEF WriteTrail, LoopInv
  <2>1. Control' BY DEF Control
  <2>2. ReviewsOK' BY DEF ReviewsOK, FeedbackIsLast
  <2>3. RoundsOK' BY DEF RoundsOK
  <2>4. FilesOK'
    <3>1. run \in 1..MaxRuns /\ Story(rounds) /\ rounds \in Seq(Entry)
      BY DEF Control, RoundsOK, Story
    <3>2. Ends \in {"PASS", "SURFACE"}
      BY VerdictDecides DEF RoundsOK
    <3>3. trail' = [run |-> run, rounds |-> rounds, outcome |-> Ends]
      OBVIOUS
    <3>4. trail' \in RunRecords /\ trail' # Nothing
      BY <3>1, <3>2, <3>3, RecordIsSomething DEF RunRecords
    <3>5. trail'.run = run /\ trail'.rounds = rounds /\ trail'.outcome = Ends
      BY <3>3
    <3>6. ledger' = ledger /\ ledger = [run |-> run, rounds |-> rounds, outcome |-> Ends]
      BY DEF FilesOK
    <3>7. ledger.run = run /\ ledger.rounds = rounds /\ ledger.outcome = Ends
      BY <3>6
    <3>8. ExitTellsLedger'
      BY <3>2, <3>6, <3>7 DEF ExitTellsLedger
    <3>9. ledger # Nothing => ledger \in RunRecords /\ ledger.run <= run
      BY DEF FilesOK
    <3> QED BY <3>1, <3>4, <3>5, <3>6, <3>7, <3>8, <3>9 DEF FilesOK
  <2> QED BY <2>1, <2>2, <2>3, <2>4
<1>11. CASE Raise
  <2> USE <1>11 DEF Raise, LoopInv
  <2>1. Control' BY DEF Control
  <2>2. ReviewsOK' BY DEF ReviewsOK, FeedbackIsLast
  <2>3. RoundsOK' BY DEF RoundsOK
  <2>4. FilesOK' BY DEF FilesOK, ExitTellsLedger
  <2> QED BY <2>1, <2>2, <2>3, <2>4
<1> QED
  BY <1>1, <1>2, <1>3, <1>4, <1>5, <1>6, <1>7, <1>8, <1>9, <1>10, <1>11 DEF LoopNext, Agent

\* and tells that the records agree, that a PASS was given, and when the user
\* is asked.
LEMMA LoopInvTells ==
    ASSUME LoopInv
    PROVE  RecordsAgree /\ PassIsGiven /\ UserIsAsked
<1> USE ReviewLoopAssumption DEF LoopInv
<1>1. \A f \in {ledger, trail} : f # Nothing =>
        f \in RunRecords /\ f.run <= run
  BY DEF FilesOK
<1>2. LoopTypeOK
  <2>1. \A i \in 1..Len(rounds) : rounds[i] \in Entry
    BY DEF RoundsOK, Story
  <2>2. \A f \in {ledger, trail} : f # Nothing =>
          f.run \in 1..run /\ f.outcome \in {"open", "PASS", "SURFACE"}
    BY <1>1 DEF RunRecords, Control
  <2> QED BY <2>1, <2>2 DEF LoopTypeOK, Control
<1>3. FilesTellOneStory
  BY <1>1 DEF FilesOK, FilesTellOneStory, RunRecords, Story
<1>4. PassIsGiven
  <2> SUFFICES ASSUME step = "close", Ends = "PASS"
      PROVE /\ VerdictFrom.kind = "PASS"
            /\ HasBlock(output) \/ opt.output = "none" =>
                   VerdictFrom.run = run /\ VerdictFrom.round = rnd
            /\ opt.output = "per round" => VerdictFrom.round = rnd
    BY DEF PassIsGiven
  <2>1. VerdictFrom.kind = "PASS"
    BY VerdictDecides
  <2>2. output.run = run /\ output.round = rnd
    BY DEF ReviewsOK
  <2>3. VerdictFrom # Nothing
    BY <2>1 DEF Nothing
  <2>4. opt.output = "none" => VerdictFrom = output
    BY <2>3 DEF VerdictFrom, ReviewFile
  <2>5. HasBlock(output) => VerdictFrom = output
    BY DEF VerdictFrom
  <2>6. opt.output = "per round" /\ ~HasBlock(output) => VerdictFrom = files[rnd]
    BY DEF VerdictFrom, ReviewFile, FileOf
  <2>7. rnd \in 1..MaxIterations
    BY DEF Control
  <2>8. opt.output = "per round" => VerdictFrom.round = rnd
    BY <2>2, <2>3, <2>5, <2>6, <2>7 DEF ReviewsOK
  <2> QED BY <2>1, <2>2, <2>4, <2>5, <2>8
<1>5. UserIsAsked
  <2> SUFFICES ASSUME step = "close"
      PROVE  Ends = "SURFACE" <=>
                /\ VerdictFrom.kind # "PASS"
                /\ \/ VerdictFrom.kind # "FAIL" \/ VerdictFrom.surface
                   \/ rnd = MaxIterations
    BY DEF UserIsAsked
  <2>1. rnd \in 1..MaxIterations /\ Ends # "none"
    BY DEF Control, RoundsOK
  <2> QED
    BY <2>1 DEF Ends, Outcome, Status, AsksUser, Statuses
<1> QED
  BY <1>2, <1>3, <1>4, <1>5 DEF RecordsAgree, FilesOK, ReviewsOK

\* Whatever the reviewers write, time out or leave behind, for any number of
\* rounds and runs.
LEMMA LoopInvariant == LoopSpec => []LoopInv
<1>1. LoopInit => LoopInv
  BY LoopBegins
<1>2. LoopInv /\ [LoopNext]_loopVars => LoopInv'
  BY LoopGoesOn
<1> QED
  BY <1>1, <1>2, PTL DEF LoopSpec

\* Ledger, trail, exit code and the feedback of the next round are of the same
\* run and the same rounds, a run that died in between included.
THEOREM ReviewRecordsAgree == LoopSpec => []RecordsAgree
<1>1. LoopInv => RecordsAgree
  BY LoopInvTells
<1> QED
  BY <1>1, LoopInvariant, PTL

\* The loop ends as passed only on a PASS, of this round when the reviewer's
\* output has a verdict; begins a round more only on a FAIL; and asks the user
\* whenever the verdict, or the last round, does, but for a PASS.
THEOREM ReviewVerdictIsObeyed == LoopSpec => VerdictIsObeyed
<1>1. LoopInv => PassIsGiven /\ UserIsAsked
  BY LoopInvTells
<1>2. [LoopNext]_loopVars =>
        [step = "decide" /\ step' = "execute" =>
          VerdictFrom.kind = "FAIL" /\ ~VerdictFrom.surface]_loopVars
  <2> SUFFICES ASSUME LoopNext, step = "decide", step' = "execute"
               PROVE  VerdictFrom.kind = "FAIL" /\ ~VerdictFrom.surface
    OBVIOUS
  <2>1. Conclude
    BY DEF LoopNext, Agent, Disabled, Start, Execute, ReviewByAgent,
           ReviewByHuman, Parse, WriteLedger, WriteTrail, Raise
  <2>2. Ends = "none"
    BY <2>1 DEF Conclude
  <2> QED BY <2>2, VerdictDecides
<1> QED
  BY <1>1, <1>2, LoopInvariant, PTL DEF LoopSpec, VerdictIsObeyed, OnlyFailGoesOn

=============================================================================
