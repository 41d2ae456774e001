--------------------------- MODULE Gsm8kRunProofs ---------------------------
(***************************************************************************)
(* The files of a sharded run stay exact, and no saved work is lost,       *)
(* whatever kills its jobs and whichever of its files they resume from; an *)
(* accepted combination counts every question once, and a tail that is     *)
(* dealt out loses none: for every number of questions, shards, chunks and *)
(* tail tasks.                                                             *)
(***************************************************************************)
EXTENDS Gsm8kRun, TLAPS, WellFoundedInduction, FiniteSetTheorems, SequenceTheorems

-----------------------------------------------------------------------------
(* Natural numbers. *)

\* Floor division by a positive number.
LEMMA DivMod ==
    ASSUME NEW n \in Nat, NEW d \in Nat \ {0}
    PROVE  /\ n = (n \div d) * d + (n % d)
           /\ n % d \in 0..(d - 1)
           /\ n \div d \in Nat
  OBVIOUS

\* Multiples of d are at least d apart.
LEMMA MultiplesApart ==
    ASSUME NEW d \in Nat \ {0}, NEW a \in Int, NEW b \in Int, a < b
    PROVE  a * d + d <= b * d
  OBVIOUS

\* Quotient and remainder are unique.
LEMMA DivUnique ==
    ASSUME NEW n \in Nat, NEW d \in Nat \ {0},
           NEW q \in Int, NEW e \in 0..(d - 1), n = q * d + e
    PROVE  n \div d = q /\ n % d = e
<1> DEFINE Q == n \div d
<1>1. Q \in Nat /\ n % d \in 0..(d - 1) /\ n = Q * d + (n % d)
  OBVIOUS
<1> HIDE DEF Q
<1>2. (Q < q => Q * d + d <= q * d) /\ (q < Q => q * d + d <= Q * d)
  BY <1>1, MultiplesApart
<1>3. Q = q
  BY <1>1, <1>2
<1> QED
  BY <1>1, <1>3 DEF Q

\* A nonempty set of naturals has a least element: what the proofs use in
\* place of induction.
LEMMA LeastElement ==
    ASSUME NEW T \in SUBSET Nat, T # {}
    PROVE  \E x \in T : \A y \in T : x <= y
<1> DEFINE Lt == {p \in Nat \X Nat : p[1] < p[2]}
<1>1. OpToRel(<, Nat) = Lt
  BY Zenon DEF OpToRel
<1>2. IsWellFoundedOn(Lt, Nat)
  BY <1>1, NatLessThanWellFounded, Zenon
<1> HIDE DEF Lt
<1>3. PICK x \in T : \A y \in T : ~(<<y, x>> \in Lt)
  BY <1>2, WFMin, Zenon
<1>4. \A y \in T : ~(y < x)
  BY <1>3 DEF Lt
<1> QED
  BY <1>4

-----------------------------------------------------------------------------
(* Sequences of questions, their grades and their slices.                  *)

Questions == Seq(Nat)

Distinct(qs) == \A i, j \in DOMAIN qs : qs[i] = qs[j] => i = j

\* The indices of the questions graded g.
Graded(qs, g) == {i \in 1..Len(qs) : Grade[qs[i]] = g}

LEMMA CountIs ==
  ASSUME NEW qs \in Questions, NEW g
  PROVE  /\ Count(qs, g) = Cardinality(Graded(qs, g))
         /\ IsFiniteSet(Graded(qs, g))
         /\ Count(qs, g) \in 0..Len(qs)
<1>1. Len(qs) \in Nat /\ DOMAIN qs = 1..Len(qs)
  BY LenProperties DEF Questions
<1>2. Count(qs, g) = Cardinality(Graded(qs, g))
  BY <1>1 DEF Count, Graded
<1>3. IsFiniteSet(1..Len(qs)) /\ Cardinality(1..Len(qs)) = Len(qs)
  <2> DEFINE l == Len(qs)
  <2>1. l \in Nat
    BY <1>1
  <2> HIDE DEF l
  <2>2. IsFiniteSet(1..l) /\ Cardinality(1..l) = IF 1 > l THEN 0 ELSE l - 1 + 1
    BY <2>1, FS_Interval
  <2>3. Cardinality(1..l) = l
    BY <2>1, <2>2
  <2> QED
    BY <2>2, <2>3 DEF l
<1>4. Graded(qs, g) \in SUBSET (1..Len(qs))
  BY DEF Graded
<1>5. IsFiniteSet(Graded(qs, g)) /\ Cardinality(Graded(qs, g)) <= Len(qs)
  BY <1>3, <1>4, FS_Subset
<1>6. Cardinality(Graded(qs, g)) \in Nat
  BY <1>5, FS_CardinalityType
<1> QED
  BY <1>1, <1>2, <1>5, <1>6

LEMMA CountEmpty == \A g : Count(<<>>, g) = 0
<1> TAKE g
<1>1. Count(<<>>, g) \in 0..0
  BY CountIs, EmptySeq DEF Questions
<1> QED
  BY <1>1

\* The grades of two chunks add up.
LEMMA CountJoin ==
  ASSUME NEW x \in Questions, NEW y \in Questions, NEW g
  PROVE  Count(x \o y, g) = Count(x, g) + Count(y, g)
<1> DEFINE m == Len(x)
           n == Len(y)
           A == Graded(x, g)
           B == Graded(y, g)
           C == {m + i : i \in B}
<1>1. m \in Nat /\ n \in Nat
  BY LenProperties DEF Questions
<1>2. /\ x \o y \in Questions
      /\ Len(x \o y) = m + n
      /\ \A i \in 1..(m + n) : (x \o y)[i] = IF i <= m THEN x[i] ELSE y[i - m]
  BY ConcatProperties DEF Questions
<1>3. Graded(x \o y, g) = A \cup C
  <2>1. ASSUME NEW i \in Graded(x \o y, g) PROVE i \in A \cup C
    <3>1. i \in 1..(m + n) /\ Grade[(x \o y)[i]] = g
      BY <1>2 DEF Graded
    <3>2. CASE i <= m
      BY <1>1, <1>2, <3>1, <3>2 DEF Graded
    <3>3. CASE i > m
      <4>1. i - m \in B /\ i = m + (i - m)
        BY <1>1, <1>2, <3>1, <3>3 DEF Graded
      <4> QED
        BY <4>1
    <3> QED
      BY <1>1, <3>1, <3>2, <3>3
  <2>2. ASSUME NEW i \in A PROVE i \in Graded(x \o y, g)
    BY <1>1, <1>2 DEF Graded
  <2>3. ASSUME NEW i \in B PROVE m + i \in Graded(x \o y, g)
    <3>1. i \in 1..n /\ Grade[y[i]] = g
      BY DEF Graded
    <3>2. m + i \in 1..(m + n) /\ ~(m + i <= m) /\ (m + i) - m = i
      BY <1>1, <3>1
    <3>3. (x \o y)[m + i] = y[i]
      BY <1>2, <3>2
    <3> QED
      BY <1>2, <3>1, <3>2, <3>3 DEF Graded
  <2> QED
    BY <2>1, <2>2, <2>3
<1>4. A \cap C = {}
  BY <1>1 DEF Graded
<1>5. IsFiniteSet(A) /\ IsFiniteSet(B)
  BY CountIs
<1>6. IsFiniteSet(C) /\ Cardinality(C) = Cardinality(B)
  <2> DEFINE f == [i \in B |-> m + i]
  <2>1. B \subseteq Nat
    BY <1>1 DEF Graded
  <2>2. f \in [B -> C]
    OBVIOUS
  <2>3. f \in Injection(B, C)
    BY <1>1, <2>1, <2>2 DEF Injection, IsInjective
  <2>4. f \in Surjection(B, C)
    BY <2>2 DEF Surjection
  <2>5. ExistsBijection(B, C)
    BY <2>3, <2>4 DEF ExistsBijection, Bijection
  <2> QED
    BY <1>5, <2>5, FS_Bijection
<1> HIDE DEF m, n, A, B, C
<1>7. Cardinality(A \cup C) = Cardinality(A) + Cardinality(C) - Cardinality(A \cap C)
  BY <1>5, <1>6, FS_Union
<1>8. Cardinality(A \cap C) = 0
  BY <1>4, FS_EmptySet
<1>9. Cardinality(A) \in Nat /\ Cardinality(C) \in Nat
  BY <1>5, <1>6, FS_CardinalityType
<1>10. Cardinality(A \cup C) = Cardinality(A) + Cardinality(B)
  BY <1>6, <1>7, <1>8, <1>9
<1> QED
  BY <1>2, <1>3, <1>10, CountIs DEF A, B

-----------------------------------------------------------------------------
(* Numbers in order: Ordered(S) exists for a finite set of naturals.       *)

IsOrder(qs, S) ==
    /\ qs \in [1..Cardinality(S) -> S]
    /\ \A i, j \in DOMAIN qs : i < j => qs[i] < qs[j]

LEMMA OrderExists ==
  ASSUME NEW n \in Nat, NEW S \in SUBSET (0..(n - 1))
  PROVE  \E qs : IsOrder(qs, S)
<1> DEFINE Bad == {m \in Nat : \E U \in SUBSET (0..(m - 1)) : ~\E qs : IsOrder(qs, U)}
<1>1. SUFFICES Bad = {}
  BY <1>1
<1>2. SUFFICES ASSUME Bad # {} PROVE FALSE
  OBVIOUS
<1>3. PICK m \in Bad : \A k \in Bad : m <= k
  BY <1>2, LeastElement
<1>4. PICK U \in SUBSET (0..(m - 1)) : ~\E qs : IsOrder(qs, U)
  BY <1>3
<1>5. m # 0
  <2> SUFFICES ASSUME m = 0 PROVE FALSE
    OBVIOUS
  <2>0. U = {}
    <3>1. 0..(m - 1) = {}
      OBVIOUS
    <3> QED
      BY <1>4, <3>1
  <2>1. U = {} /\ Cardinality(U) = 0
    BY <2>0, FS_EmptySet
  <2>2. <<>> \in [1..0 -> U] /\ DOMAIN <<>> = {}
    BY <2>1
  <2>3. IsOrder(<<>>, U)
    BY <2>1, <2>2 DEF IsOrder
  <2> QED
    BY <1>4, <2>3
<1> DEFINE l == m - 1
           V == U \ {l}
<1>6. m \in Nat /\ l \in Nat
  BY <1>3, <1>5
<1>7. V \in SUBSET (0..(l - 1))
  BY <1>4, <1>6
<1>8. l \notin Bad
  BY <1>3, <1>6
<1>9. PICK vs : IsOrder(vs, V)
  <2> HIDE DEF V, l
  <2> QED
    BY <1>6, <1>7, <1>8
<1>10. IsFiniteSet(V) /\ Cardinality(V) \in Nat
  <2>1. IsFiniteSet(0..(l - 1))
    BY <1>6, FS_Interval
  <2>2. IsFiniteSet(V)
    BY <1>7, <2>1, FS_Subset
  <2> QED
    BY <2>2, FS_CardinalityType
<1>11. CASE l \notin U
  <2>1. V = U
    BY <1>11
  <2> QED
    BY <1>4, <1>9, <2>1
<1>12. CASE l \in U
  <2> DEFINE c == Cardinality(V)
             us == [i \in 1..(c + 1) |-> IF i <= c THEN vs[i] ELSE l]
  <2>1. U = V \cup {l} /\ l \notin V
    BY <1>12
  <2>2. Cardinality(U) = c + 1
    <3> HIDE DEF V, l
    <3> QED
      BY <1>10, <2>1, FS_AddElement
  <2>3. vs \in [1..c -> V] /\ \A i, j \in 1..c : i < j => vs[i] < vs[j]
    BY <1>9 DEF IsOrder
  <2>a. \A v \in V : v \in Nat /\ v < l
    BY <1>6, <1>7
  <2> HIDE DEF V, l, c
  <2>4. c \in Nat
    BY <1>10 DEF c
  <2>5. us \in [1..(c + 1) -> U]
    BY <2>1, <2>3, <2>4
  <2>6. ASSUME NEW i \in 1..(c + 1), NEW j \in 1..(c + 1), i < j PROVE us[i] < us[j]
    <3>1. i <= c /\ us[i] = vs[i] /\ vs[i] \in V
      BY <2>3, <2>4, <2>6
    <3>2. CASE j <= c
      BY <2>3, <2>4, <2>6, <3>1, <3>2
    <3>3. CASE ~(j <= c)
      BY <1>6, <2>a, <2>4, <3>1, <3>3
    <3> QED
      BY <3>2, <3>3
  <2>7. IsOrder(us, U)
    BY <2>2, <2>5, <2>6 DEF IsOrder
  <2> QED
    BY <1>4, <2>7
<1> QED
  BY <1>11, <1>12

\* Ordered(S), which Remaining uses, is a sequence that repeats nothing.
LEMMA OrderedIs ==
  ASSUME NEW n \in Nat, NEW S \in SUBSET (0..(n - 1))
  PROVE  Ordered(S) \in Questions /\ Distinct(Ordered(S))
<1>1. PICK qs : IsOrder(qs, S)
  BY OrderExists
<1> DEFINE c == Cardinality(S)
           os == Ordered(S)
<1>2. /\ os \in [1..c -> S]
      /\ \A i, j \in DOMAIN os : i < j => os[i] < os[j]
  BY <1>1 DEF Ordered, IsOrder
<1>3. c \in Nat
  <2>1. IsFiniteSet(0..(n - 1))
    BY FS_Interval
  <2> QED
    BY <2>1, FS_Subset, FS_CardinalityType
<1>4. S \subseteq Nat
  OBVIOUS
<1> HIDE DEF c, os
<1>5. os \in [1..c -> Nat]
  BY <1>2, <1>4
<1>6. os \in Questions
  BY <1>3, <1>5 DEF Questions
<1>7. Distinct(os)
  <2>1. SUFFICES ASSUME NEW i \in 1..c, NEW j \in 1..c, os[i] = os[j], i # j PROVE FALSE
    BY <1>5 DEF Distinct
  <2>2. i < j \/ j < i
    BY <1>3, <2>1
  <2>3. os[i] < os[j] \/ os[j] < os[i]
    BY <1>2, <2>2
  <2> QED
    BY <1>5, <2>1, <2>3
<1> QED
  BY <1>6, <1>7 DEF os

\* A part of a sequence.
LEMMA Part ==
  ASSUME NEW qs \in Questions, NEW a \in Nat, NEW b \in Nat, a <= b, b <= Len(qs)
  PROVE  /\ SubSeq(qs, a + 1, b) \in Questions
         /\ Len(SubSeq(qs, a + 1, b)) = b - a
         /\ \A i \in 1..(b - a) : SubSeq(qs, a + 1, b)[i] = qs[a + i]
<1>1. Len(qs) \in Nat /\ \A i \in 1..Len(qs) : qs[i] \in Nat
  BY LenProperties DEF Questions
<1>2. \A i \in (a + 1)..b : qs[i] \in Nat
  BY <1>1
<1>3. a + 1 \in Int /\ b \in Int
  OBVIOUS
<1>4. /\ SubSeq(qs, a + 1, b) \in Seq(Nat)
      /\ Len(SubSeq(qs, a + 1, b)) = IF a + 1 <= b THEN b - (a + 1) + 1 ELSE 0
      /\ \A i \in 1..(b - (a + 1) + 1) : SubSeq(qs, a + 1, b)[i] = qs[(a + 1) + i - 1]
  BY <1>2, <1>3, SubSeqProperties
<1>5. b - (a + 1) + 1 = b - a
  OBVIOUS
<1>6. \A i \in 1..(b - a) : (a + 1) + i - 1 = a + i
  OBVIOUS
<1>7. Len(SubSeq(qs, a + 1, b)) = b - a
  BY <1>4
<1> QED
  BY <1>4, <1>5, <1>6, <1>7 DEF Questions

\* Two parts that meet are one.
LEMMA PartJoin ==
  ASSUME NEW qs \in Questions, NEW a \in Nat, NEW b \in Nat, NEW c \in Nat,
         a <= b, b <= c, c <= Len(qs)
  PROVE  SubSeq(qs, a + 1, b) \o SubSeq(qs, b + 1, c) = SubSeq(qs, a + 1, c)
<1> DEFINE x == SubSeq(qs, a + 1, b)
           y == SubSeq(qs, b + 1, c)
           z == SubSeq(qs, a + 1, c)
<1>0. Len(qs) \in Nat
  BY LenProperties DEF Questions
<1>1. x \in Questions /\ Len(x) = b - a /\ \A i \in 1..(b - a) : x[i] = qs[a + i]
  BY <1>0, Part
<1>2. y \in Questions /\ Len(y) = c - b /\ \A i \in 1..(c - b) : y[i] = qs[b + i]
  BY <1>0, Part
<1>3. z \in Questions /\ Len(z) = c - a /\ \A i \in 1..(c - a) : z[i] = qs[a + i]
  BY <1>0, Part
<1> HIDE DEF x, y, z
<1>4. /\ x \o y \in Questions
      /\ Len(x \o y) = Len(x) + Len(y)
      /\ \A i \in 1..(Len(x) + Len(y)) : (x \o y)[i] = IF i <= Len(x) THEN x[i] ELSE y[i - Len(x)]
  BY <1>1, <1>2, ConcatProperties DEF Questions
<1>5. Len(x \o y) = Len(z)
  BY <1>1, <1>2, <1>3, <1>4
<1>6. ASSUME NEW i \in 1..Len(x \o y) PROVE (x \o y)[i] = z[i]
  <2>1. i \in 1..(c - a)
    BY <1>3, <1>5
  <2>2. CASE i <= b - a
    BY <1>1, <1>2, <1>3, <1>4, <2>1, <2>2
  <2>3. CASE ~(i <= b - a)
    <3>1. i - (b - a) \in 1..(c - b) /\ b + (i - (b - a)) = a + i
      BY <2>1, <2>3
    <3> QED
      BY <1>1, <1>2, <1>3, <1>4, <2>1, <2>3, <3>1
  <2> QED
    BY <2>2, <2>3
<1>7. x \o y = z
  BY <1>3, <1>4, <1>5, <1>6, SeqEqual DEF Questions
<1> QED
  BY <1>7 DEF x, y, z

-----------------------------------------------------------------------------
(* The inductive invariant.                                                *)

OptOK ==
    /\ opt.n \in Nat /\ opt.chunk \in Nat \ {0} /\ opt.shards \in 1..MaxShards
    /\ opt.tail \in 0..(MaxShards - opt.shards)
    /\ opt.gens \in BOOLEAN

Counts == [done : Nat, correct : Nat, invalid : Nat]

Results == [file : {TRUE}, contract : BOOLEAN, done : Nat, total : Nat, correct : Nat, invalid : Nat]

Jobs == [pc : {"ask", "out", "gens"}, todo : SUBSET Nat, done : Nat, correct : Nat, invalid : Nat,
         gens : Questions, asked : Questions]

Shapes ==
    /\ out \in [Shard -> {NoFile} \cup Results]
    /\ gens \in [Shard -> {NoGens} \cup Questions]
    /\ job \in [Shard -> {NoJob} \cup Jobs]

\* Tasks of the tail have neither files nor jobs before there is a tail, and
\* questions in sequence, none twice, afterwards.
TailOK ==
    \/ /\ tail = NoTail
       /\ \A s \in Shard : s >= opt.shards => out[s] = NoFile /\ gens[s] = NoGens /\ job[s] = NoJob
    \/ /\ tail # NoTail
       /\ DOMAIN tail.ids = opt.shards..(opt.shards + opt.tail - 1)
       /\ \A t \in DOMAIN tail.ids : tail.ids[t] \in Questions /\ Distinct(tail.ids[t])

\* Where a chunk ends.
Aligned(s, n) == n \in 0..Total(s) /\ (n % opt.chunk = 0 \/ n = Total(s))

\* What holds of the files and the job of every task, spoilt or not: of its
\* result o, its answers g and its job j.
FilesSane(s, o, g) ==
    /\ o.file => /\ o.done \in 0..Total(s)
                 /\ o.correct \in 0..o.done
                 /\ o.invalid \in 0..o.done
    /\ g # NoGens => opt.gens /\ Len(g) \in 1..Total(s)

JobSane(s, g, j) ==
    j # NoJob =>
        /\ \E p \in Nat : Aligned(s, p) /\ j.todo = Starts(s, p) /\ j.done <= p
        /\ j.correct \in 0..j.done /\ j.invalid \in 0..j.done
        /\ opt.gens => IF j.gens = <<>> THEN g = NoGens ELSE g = j.gens
        /\ IF j.pc = "ask"
           THEN Len(j.gens) <= j.done
           ELSE /\ Len(j.asked) \in 1..opt.chunk
                /\ Len(j.gens) + Len(j.asked) <= j.done
                /\ ToSet(j.asked) \subseteq ToSet(Ids(s))
        /\ j.pc = "gens" => opt.gens

\* The questions a job had asked before the chunk it is about to save.
Behind(j) == IF j.pc = "ask" THEN j.done ELSE j.done - Len(j.asked)

\* A record r of task s counts its first questions.
Scored(s, r) ==
    /\ r.correct = Count(Slice(s, 0, r.done), "right")
    /\ r.invalid = Count(Slice(s, 0, r.done), "invalid")

\* What holds of them unless the answers are spoilt.
FilesSound(s, o, g) ==
    /\ o.file => Aligned(s, o.done) /\ Scored(s, o)
    /\ g # NoGens => /\ g = Slice(s, 0, Len(g))
                     /\ Aligned(s, Len(g))
                     /\ o.file
                     /\ o.done \in Len(g)..(Len(g) + opt.chunk)

JobSound(s, o, g, j) ==
    j # NoJob =>
        /\ Aligned(s, j.done) /\ Aligned(s, Behind(j))
        /\ j.todo = Starts(s, j.done)
        /\ Scored(s, j)
        /\ j.pc # "ask" => j.asked = Slice(s, Behind(j), j.done)
        /\ g # NoGens => Len(g) = Behind(j)
        /\ g = NoGens /\ j.pc # "gens" => Behind(j) = IF o.file THEN o.done ELSE 0
        /\ j.pc = "gens" => o.file /\ o.done = j.done

SpoiltBy(s, g) == g # NoGens /\ g[1] # Ids(s)[1]

TaskOK(s, o, g, j) ==
    /\ FilesSane(s, o, g) /\ JobSane(s, g, j)
    /\ ~SpoiltBy(s, g) => FilesSound(s, o, g) /\ JobSound(s, o, g, j)

ReaderOK ==
    reader # NoReader =>
        \E require, left, got :
            /\ reader = [pc |-> "read", require |-> require, left |-> left, got |-> got]
            /\ left \subseteq Shard /\ DOMAIN got \subseteq Shard

RunInv == OptOK /\ Shapes /\ TailOK /\ ReaderOK /\ \A s \in Shard : TaskOK(s, out[s], gens[s], job[s])

-----------------------------------------------------------------------------
(* The questions of a task. *)

LEMMA IdsIs ==
  ASSUME OptOK, TailOK, NEW s \in Shard
  PROVE  Ids(s) \in Questions /\ Distinct(Ids(s)) /\ Total(s) \in Nat
<1>1. s \in Nat
  BY Gsm8kRunAssumption DEF Shard
<1>2. CASE s < opt.shards
  <2> DEFINE p == Per
             o == Offset(s)
             end == IF o + p < opt.n THEN o + p ELSE opt.n
             k == IF o < end THEN end - o ELSE 0
  <2>1. p \in Nat /\ o \in Nat
    <3>1. opt.n + opt.shards - 1 \in Nat /\ opt.shards \in Nat \ {0}
      BY DEF OptOK
    <3>2. p \in Nat
      BY <3>1, DivMod DEF Per
    <3> HIDE DEF p
    <3>3. s * p \in Nat
      BY <1>1, <3>2
    <3> QED
      BY <3>2, <3>3 DEF Offset, p
  <2>2. k \in Nat /\ Ids(s) = [j \in 1..k |-> o + j - 1]
    BY <1>2, <2>1 DEF Ids, OptOK
  <2> HIDE DEF p, o, end, k
  <2>3. Ids(s) \in [1..k -> Nat]
    BY <2>1, <2>2
  <2>4. Ids(s) \in Questions
    BY <2>2, <2>3 DEF Questions
  <2>5. Distinct(Ids(s))
    BY <2>1, <2>2 DEF Distinct
  <2> QED
    BY <2>4, <2>5, LenProperties DEF Questions, Total
<1>3. CASE ~(s < opt.shards) /\ tail # NoTail /\ s \in DOMAIN tail.ids
  <2>1. Ids(s) = tail.ids[s]
    BY <1>3 DEF Ids
  <2> QED
    BY <1>3, <2>1, LenProperties DEF TailOK, Questions, Total
<1>4. CASE ~(s < opt.shards) /\ ~(tail # NoTail /\ s \in DOMAIN tail.ids)
  <2>1. Ids(s) = <<>>
    BY <1>4 DEF Ids
  <2> QED
    BY <2>1, EmptySeq DEF Questions, Distinct, Total
<1> QED
  BY <1>2, <1>3, <1>4

LEMMA ToSetIs ==
  ASSUME NEW qs \in Questions
  PROVE  \A q : q \in ToSet(qs) <=> \E i \in 1..Len(qs) : qs[i] = q
<1>1. DOMAIN qs = 1..Len(qs)
  BY LenProperties DEF Questions
<1> QED
  BY <1>1 DEF ToSet

\* A slice of them.
LEMMA SliceIs ==
  ASSUME OptOK, TailOK, NEW s \in Shard, NEW a \in Nat, NEW b \in Nat, a <= b, b <= Total(s)
  PROVE  /\ Slice(s, a, b) \in Questions
         /\ Len(Slice(s, a, b)) = b - a
         /\ \A i \in 1..(b - a) : Slice(s, a, b)[i] = Ids(s)[a + i]
BY IdsIs, Part DEF Slice, Total

LEMMA SliceWithin ==
  ASSUME OptOK, TailOK, NEW s \in Shard, NEW a \in Nat, NEW b \in Nat, a <= b, b <= Total(s)
  PROVE  ToSet(Slice(s, a, b)) \subseteq ToSet(Ids(s))
<1>1. /\ Ids(s) \in Questions /\ Total(s) \in Nat /\ Slice(s, a, b) \in Questions
      /\ Len(Slice(s, a, b)) = b - a
      /\ \A i \in 1..(b - a) : Slice(s, a, b)[i] = Ids(s)[a + i]
  BY IdsIs, SliceIs
<1>2. \A i \in 1..(b - a) : a + i \in 1..Len(Ids(s))
  BY <1>1 DEF Total
<1>3. ASSUME NEW q \in ToSet(Slice(s, a, b)) PROVE q \in ToSet(Ids(s))
  <2>1. PICK i \in 1..Len(Slice(s, a, b)) : Slice(s, a, b)[i] = q
    BY <1>1, <1>3, ToSetIs
  <2>2. a + i \in 1..Len(Ids(s)) /\ Ids(s)[a + i] = q
    BY <1>1, <1>2, <2>1
  <2> QED
    BY <1>1, <2>2, ToSetIs
<1> QED
  BY <1>3

LEMMA SliceAll ==
  ASSUME OptOK, TailOK, NEW s \in Shard
  PROVE  Slice(s, 0, Total(s)) = Ids(s)
<1>1. Ids(s) \in Questions /\ Total(s) = Len(Ids(s)) /\ Total(s) \in Nat
  BY IdsIs DEF Total
<1>2. /\ Slice(s, 0, Total(s)) \in Questions /\ Len(Slice(s, 0, Total(s))) = Total(s)
      /\ \A i \in 1..Total(s) : Slice(s, 0, Total(s))[i] = Ids(s)[i]
  <2>1. 0 <= Total(s) /\ Total(s) <= Total(s) /\ Total(s) - 0 = Total(s)
    BY <1>1
  <2>2. /\ Slice(s, 0, Total(s)) \in Questions
        /\ Len(Slice(s, 0, Total(s))) = Total(s) - 0
        /\ \A i \in 1..(Total(s) - 0) : Slice(s, 0, Total(s))[i] = Ids(s)[0 + i]
    BY <1>1, <2>1, SliceIs
  <2>3. \A i \in 1..Total(s) : 0 + i = i
    BY <1>1
  <2> QED
    BY <2>1, <2>2, <2>3
<1> QED
  <2>1. Slice(s, 0, Total(s)) \in Seq(Nat) /\ Ids(s) \in Seq(Nat)
    BY <1>1, <1>2 DEF Questions
  <2> QED
    BY <1>1, <1>2, <2>1, SeqEqual

LEMMA SliceJoin ==
  ASSUME OptOK, TailOK, NEW s \in Shard, NEW a \in Nat, NEW b \in Nat, NEW c \in Nat,
         a <= b, b <= c, c <= Total(s)
  PROVE  Slice(s, a, b) \o Slice(s, b, c) = Slice(s, a, c)
BY IdsIs, PartJoin DEF Slice, Total

LEMMA CountSlice ==
  ASSUME OptOK, TailOK, NEW s \in Shard, NEW a \in Nat, NEW b \in Nat, NEW c \in Nat,
         a <= b, b <= c, c <= Total(s), NEW g
  PROVE  Count(Slice(s, a, c), g) = Count(Slice(s, a, b), g) + Count(Slice(s, b, c), g)
<1>0. Total(s) \in Nat /\ b <= Total(s)
  BY IdsIs
<1>1. Slice(s, a, b) \in Questions
  BY <1>0, SliceIs
<1>2. Slice(s, b, c) \in Questions
  BY SliceIs
<1>3. Slice(s, a, b) \o Slice(s, b, c) = Slice(s, a, c)
  BY SliceJoin
<1>4. Count(Slice(s, a, b) \o Slice(s, b, c), g) = Count(Slice(s, a, b), g) + Count(Slice(s, b, c), g)
  BY <1>1, <1>2, CountJoin
<1> QED
  BY <1>3, <1>4

\* The chunks of length c in 0..(t-1) that do not start before p, where one
\* starts, are the one at p and those that do not start before it ends.
ChunksAt(t, c, p) == {a \in 0..(t - 1) : a % c = 0 /\ a >= p}

ChunkEnd(t, c, p) == IF p + c < t THEN p + c ELSE t

LEMMA ChunksFrom ==
  ASSUME NEW t \in Nat, NEW c \in Nat \ {0}, NEW p \in 0..t, p % c = 0 \/ p = t,
         ChunksAt(t, c, p) # {}
  PROVE  /\ p \in ChunksAt(t, c, p) /\ \A b \in ChunksAt(t, c, p) : b \in Nat /\ p <= b
         /\ ChunkEnd(t, c, p) \in 0..t /\ ChunkEnd(t, c, p) - p \in 1..c
         /\ ChunkEnd(t, c, p) % c = 0 \/ ChunkEnd(t, c, p) = t
         /\ ChunksAt(t, c, p) \ {p} = ChunksAt(t, c, ChunkEnd(t, c, p))
<1> DEFINE S == {a \in 0..(t - 1) : a % c = 0 /\ a >= p}
           stop == IF p + c < t THEN p + c ELSE t
<1>0. S # {}
  BY DEF ChunksAt
<1>1. p < t /\ p % c = 0
  <2>1. p # t
    BY <1>0
  <2> QED
    BY <2>1
<1>2. p \in S /\ \A b \in S : b \in Nat /\ p <= b
  BY <1>1
<1>3. stop \in 0..t /\ stop - p \in 1..c
  BY <1>1
<1>4. (p + c) % c = 0
  <2>0. p \in Nat
    OBVIOUS
  <2>1. p = (p \div c) * c + (p % c) /\ p \div c \in Nat
    BY <2>0, DivMod
  <2> DEFINE q == (p \div c) + 1
  <2>2. q \in Int /\ p + c = q * c + 0
    BY <1>1, <2>1
  <2> HIDE DEF q
  <2>3. p + c \in Nat /\ 0 \in 0..(c - 1)
    BY <1>1
  <2> QED
    BY <2>2, <2>3, DivUnique
<1>5. stop % c = 0 \/ stop = t
  BY <1>4
<1>6. \A a \in S : a # p => a >= p + c
  <2> SUFFICES ASSUME NEW a \in S, a # p PROVE a >= p + c
    OBVIOUS
  <2>1. a \in Nat /\ p \in Nat /\ a % c = 0 /\ p < a
    BY <1>2
  <2> DEFINE x == a \div c
             y == p \div c
  <2>2. a = x * c /\ x \in Nat
    <3>1. a = x * c + (a % c) /\ x \in Nat
      BY <2>1, DivMod
    <3> QED
      BY <2>1, <3>1
  <2>3. p = y * c /\ y \in Nat
    <3>1. p = y * c + (p % c) /\ y \in Nat
      BY <2>1, DivMod
    <3> QED
      BY <1>1, <3>1
  <2> HIDE DEF x, y
  <2>4. y < x
    <3>1. SUFFICES ASSUME x < y PROVE FALSE
      BY <2>1, <2>2, <2>3
    <3>2. x * c + c <= y * c
      BY <2>2, <2>3, <3>1, MultiplesApart
    <3> QED
      BY <2>1, <2>2, <2>3, <3>2
  <2>5. y * c + c <= x * c
    BY <2>2, <2>3, <2>4, MultiplesApart
  <2> QED
    BY <2>2, <2>3, <2>5
<1>7. S \ {p} = {a \in 0..(t - 1) : a % c = 0 /\ a >= stop}
  <2>1. ASSUME NEW a \in 0..(t - 1), a % c = 0 PROVE (a >= p /\ a # p) <=> a >= stop
    <3>1. CASE a >= p /\ a # p
      <4>1. a \in S
        BY <2>1, <3>1
      <4>2. a >= p + c
        BY <1>6, <3>1, <4>1
      <4> QED
        BY <3>1, <4>2
    <3>2. CASE ~(a >= p /\ a # p)
      BY <1>3, <3>2
    <3> QED
      BY <3>1, <3>2
  <2> QED
    BY <2>1
<1> QED
  BY <1>2, <1>3, <1>5, <1>7 DEF ChunksAt, ChunkEnd

\* The chunks to be asked start where the last one ended.
LEMMA NextChunk ==
  ASSUME OptOK, TailOK, NEW s \in Shard, NEW p \in Nat, Aligned(s, p), Starts(s, p) # {},
         NEW start, start = CHOOSE a \in Starts(s, p) : \A b \in Starts(s, p) : a <= b,
         NEW stop, stop = IF start + opt.chunk < Total(s) THEN start + opt.chunk ELSE Total(s)
  PROVE  /\ start = p
         /\ stop \in Nat /\ stop - start \in 1..opt.chunk /\ Aligned(s, stop)
         /\ Starts(s, p) \ {start} = Starts(s, stop)
<1>1. Total(s) \in Nat /\ opt.chunk \in Nat \ {0}
  BY IdsIs DEF OptOK
<1>2. p \in 0..Total(s) /\ (p % opt.chunk = 0 \/ p = Total(s))
  BY DEF Aligned
<1> DEFINE t == Total(s)
           c == opt.chunk
           S == ChunksAt(t, c, p)
           to == ChunkEnd(t, c, p)
<1>3. \A x \in Nat : Starts(s, x) = ChunksAt(t, c, x)
  BY DEF Starts, ChunksAt
<1>4. S # {} /\ start = CHOOSE a \in S : \A b \in S : a <= b
  BY <1>3
<1>5. t \in Nat /\ c \in Nat \ {0} /\ p \in 0..t /\ (p % c = 0 \/ p = t)
  BY <1>1, <1>2
<1>6. /\ p \in S /\ \A b \in S : b \in Nat /\ p <= b
      /\ to \in 0..t /\ to - p \in 1..c /\ (to % c = 0 \/ to = t)
      /\ S \ {p} = ChunksAt(t, c, to)
  <2> HIDE DEF t, c
  <2> QED
    BY <1>4, <1>5, ChunksFrom
<1> HIDE DEF S
<1>7. start \in S /\ \A b \in S : start <= b
  <2>1. \E a \in S : \A b \in S : a <= b
    BY <1>6
  <2> QED
    BY <1>4, <2>1
<1>8. start = p
  <2>1. start \in Nat /\ start <= p /\ p <= start
    BY <1>6, <1>7
  <2> QED
    BY <2>1
<1>9. stop = to
  BY <1>8 DEF ChunkEnd
<1> HIDE DEF to, t, c
<1>10. to \in Nat
  BY <1>5, <1>6
<1>11. Starts(s, p) \ {p} = Starts(s, to)
  BY <1>3, <1>6, <1>10 DEF S
<1> QED
  BY <1>6, <1>8, <1>9, <1>10, <1>11 DEF t, c, Aligned

\* A resumed job skips to the next start of a chunk.
LEMMA SkipToStart ==
  ASSUME OptOK, TailOK, NEW s \in Shard, NEW d \in 0..Total(s)
  PROVE  \E p \in Nat : Aligned(s, p) /\ Starts(s, d) = Starts(s, p) /\ d <= p
<1> DEFINE T == {p \in 0..Total(s) : d <= p /\ (p % opt.chunk = 0 \/ p = Total(s))}
<1>1. Total(s) \in Nat /\ opt.chunk \in Nat \ {0}
  BY IdsIs DEF OptOK
<1>2. Total(s) \in T /\ T \in SUBSET Nat
  BY <1>1
<1>3. PICK p \in T : \A q \in T : p <= q
  BY <1>2, LeastElement
<1>4. Starts(s, d) = Starts(s, p)
  BY <1>1, <1>3 DEF Starts
<1> QED
  BY <1>1, <1>3, <1>4 DEF Aligned

-----------------------------------------------------------------------------
(* Steps of one task. *)

\* What a task is made of does not change while the layout and the tail do not.
LEMMA Frozen ==
  ASSUME NEW s, UNCHANGED <<opt, tail>>
  PROVE  Ids(s)' = Ids(s) /\ Total(s)' = Total(s)
BY DEF Ids, Offset, Per, Total

\* A task whose questions, files and job stay is as sound as before.
LEMMA Untouched ==
  ASSUME NEW s \in Shard, NEW o, NEW g, NEW j, TaskOK(s, o, g, j),
         UNCHANGED opt, Ids(s)' = Ids(s)
  PROVE  TaskOK(s, o, g, j)'
<1>1. SpoiltBy(s, g)' = SpoiltBy(s, g) /\ Total(s)' = Total(s)
  BY DEF SpoiltBy, Total
<1>2. /\ \A n : Aligned(s, n)' = Aligned(s, n)
      /\ \A p : Starts(s, p)' = Starts(s, p)
      /\ \A a, b : Slice(s, a, b)' = Slice(s, a, b)
  BY <1>1 DEF Aligned, Starts, Slice
<1>3. \A r : Scored(s, r) => Scored(s, r)'
  BY <1>2 DEF Scored
<1>4. FilesSane(s, o, g)'
  BY <1>1 DEF TaskOK, FilesSane
<1>5. JobSane(s, g, j)'
  BY <1>1, <1>2 DEF TaskOK, JobSane
<1>6. ASSUME FilesSound(s, o, g) PROVE FilesSound(s, o, g)'
  BY <1>1, <1>2, <1>3, <1>6 DEF FilesSound
<1>7. ASSUME JobSound(s, o, g, j) PROVE JobSound(s, o, g, j)'
  BY <1>1, <1>2, <1>3, <1>7 DEF JobSound
<1> QED
  BY <1>1, <1>4, <1>5, <1>6, <1>7 DEF TaskOK

\* It is enough to look at the task that takes the step.
LEMMA OneTask ==
  ASSUME RunInv, NEW s \in Shard, UNCHANGED <<opt, tail, reader>>,
         NEW o \in {NoFile} \cup Results, out' = [out EXCEPT ![s] = o],
         NEW g \in {NoGens} \cup Questions, gens' = [gens EXCEPT ![s] = g],
         NEW j \in {NoJob} \cup Jobs, job' = [job EXCEPT ![s] = j],
         tail = NoTail => s < opt.shards,
         TaskOK(s, o, g, j)
  PROVE  RunInv'
<1>1. OptOK' /\ ReaderOK'
  BY DEF RunInv, OptOK, ReaderOK
<1>2. Shapes'
  BY DEF RunInv, Shapes
<1>3. /\ \A t \in Shard \ {s} : out'[t] = out[t] /\ gens'[t] = gens[t] /\ job'[t] = job[t]
      /\ out'[s] = o /\ gens'[s] = g /\ job'[s] = j
  BY DEF RunInv, Shapes
<1>4. TailOK'
  <2>1. CASE tail = NoTail
    <3>1. ASSUME NEW t \in Shard, t >= opt.shards
          PROVE  out'[t] = NoFile /\ gens'[t] = NoGens /\ job'[t] = NoJob
      <4>1. t # s
        BY <2>1, <3>1, Gsm8kRunAssumption DEF Shard, RunInv, OptOK
      <4>2. out[t] = NoFile /\ gens[t] = NoGens /\ job[t] = NoJob
        BY <2>1, <3>1 DEF RunInv, TailOK
      <4> QED
        BY <1>3, <4>1, <4>2
    <3> QED
      BY <2>1, <3>1 DEF TailOK
  <2>2. CASE tail # NoTail
    BY <2>2 DEF RunInv, TailOK
  <2> QED
    BY <2>1, <2>2
<1>5. \A t \in Shard : Ids(t)' = Ids(t)
  BY Frozen
<1>6. ASSUME NEW t \in Shard, t # s PROVE TaskOK(t, out[t], gens[t], job[t])'
  <2>1. PICK a, b, c : a = out[t] /\ b = gens[t] /\ c = job[t]
    OBVIOUS
  <2>2. TaskOK(t, a, b, c)
    BY <2>1 DEF RunInv
  <2>3. TaskOK(t, a, b, c)'
    BY <1>5, <2>2, Untouched
  <2>4. out'[t] = a /\ gens'[t] = b /\ job'[t] = c
    BY <1>3, <1>6, <2>1
  <2> QED
    BY <2>3, <2>4
<1>7. TaskOK(s, out[s], gens[s], job[s])'
  <2>1. TaskOK(s, o, g, j)'
    BY <1>5, Untouched
  <2> QED
    BY <1>3, <2>1
<1> QED
  BY <1>1, <1>2, <1>4, <1>6, <1>7 DEF RunInv

\* The shapes of a task's files and job.
LEMMA ShapesOf ==
  ASSUME RunInv, NEW s \in Shard
  PROVE  /\ out[s] \in {NoFile} \cup Results /\ gens[s] \in {NoGens} \cup Questions
         /\ job[s] \in {NoJob} \cup Jobs
         /\ out = [out EXCEPT ![s] = out[s]] /\ gens = [gens EXCEPT ![s] = gens[s]]
         /\ job = [job EXCEPT ![s] = job[s]]
         /\ out[s].file => out[s] \in Results
         /\ job[s].pc \in {"ask", "out", "gens"} => job[s] \in Jobs /\ job[s] # NoJob
         /\ tail = NoTail /\ job[s] # NoJob => s < opt.shards
         /\ OptOK /\ TailOK /\ TaskOK(s, out[s], gens[s], job[s])
         /\ Total(s) \in Nat
<1>1. s \in Nat /\ opt.shards \in Nat
  BY Gsm8kRunAssumption DEF Shard, RunInv, OptOK
<1>2. Total(s) \in Nat
  BY IdsIs DEF RunInv
<1> QED
  BY <1>1, <1>2 DEF RunInv, Shapes, TailOK, NoFile, NoJob

\* An answers file is not the mark of none.
LEMMA NoGensIsNone == NoGens \notin Questions
<1>1. SUFFICES ASSUME NoGens \in Questions PROVE FALSE
  OBVIOUS
<1>2. NoGens[1] \in Nat /\ NoGens[1] = -1
  BY <1>1, ElementOfSeq DEF NoGens, Questions
<1> QED
  BY <1>2

LEMMA SliceEmpty ==
  ASSUME NEW s PROVE Slice(s, 0, 0) = <<>>
BY SubSeqEmpty DEF Slice

\* A job that is killed or that ends leaves the files as they are.
LEMMA EndKeeps ==
  ASSUME RunInv, NEW s \in Shard, Exit(s) \/ Kill(s)
  PROVE  RunInv'
<1>1. /\ UNCHANGED <<opt, out, gens, reader, tail>>
      /\ job[s] # NoJob /\ job' = [job EXCEPT ![s] = NoJob]
  BY DEF Exit, Kill, NoJob
<1>2. TaskOK(s, out[s], gens[s], NoJob)
  BY ShapesOf DEF TaskOK, JobSane, JobSound
<1> QED
  BY <1>1, <1>2, ShapesOf, OneTask

\* An empty shard's result counts nothing.
LEMMA LaunchEmptyKeeps ==
  ASSUME RunInv, NEW s \in Shard, LaunchEmpty(s)
  PROVE  RunInv'
<1> DEFINE o == [file |-> TRUE, contract |-> FALSE, done |-> 0,
                 total |-> 0, correct |-> 0, invalid |-> 0]
<1>1. /\ UNCHANGED <<opt, gens, job, reader, tail>>
      /\ job[s] = NoJob /\ Total(s) = 0 /\ out' = [out EXCEPT ![s] = o]
      /\ s \in Tasks
  BY DEF LaunchEmpty
<1>2. o \in Results
  BY DEF Results
<1>3. gens[s] = NoGens
  BY <1>1, ShapesOf DEF TaskOK, FilesSane
<1>4. Aligned(s, 0)
  BY <1>1 DEF Aligned
<1>5. Scored(s, o)
  BY SliceEmpty, CountEmpty DEF Scored
<1>6. TaskOK(s, o, gens[s], job[s])
  BY <1>1, <1>3, <1>4, <1>5 DEF TaskOK, FilesSane, FilesSound, JobSane, JobSound
<1>7. tail = NoTail => s < opt.shards
  BY <1>1, ShapesOf DEF Tasks, OptOK
<1> HIDE DEF o
<1> QED
  BY <1>1, <1>2, <1>6, <1>7, ShapesOf, OneTask


\* What a job resumes from, spoilt or not.
LEMMA ResumeIs ==
  ASSUME RunInv, NEW s \in Shard
  PROVE  LET r == Resume(s)
         IN  /\ r.done \in 0..Total(s)
             /\ r.correct \in 0..r.done /\ r.invalid \in 0..r.done
             /\ r.gens \in Questions /\ Len(r.gens) <= r.done
             /\ opt.gens => IF r.gens = <<>> THEN gens[s] = NoGens ELSE gens[s] = r.gens
             /\ ~SpoiltBy(s, gens[s]) =>
                   /\ Aligned(s, r.done) /\ Scored(s, r)
                   /\ gens[s] # NoGens => Len(gens[s]) = r.done
                   /\ gens[s] = NoGens => r.done = IF out[s].file THEN out[s].done ELSE 0
<1>0. /\ FilesSane(s, out[s], gens[s]) /\ Total(s) \in Nat
      /\ ~SpoiltBy(s, gens[s]) => FilesSound(s, out[s], gens[s])
  BY ShapesOf DEF TaskOK
<1>1. CASE opt.gens /\ gens[s] # NoGens
  <2>1. gens[s] \in Questions /\ Len(gens[s]) \in 1..Total(s)
    BY <1>0, <1>1, ShapesOf DEF FilesSane
  <2>2. Resume(s) = [done |-> Len(gens[s]), correct |-> Count(gens[s], "right"),
                     invalid |-> Count(gens[s], "invalid"), gens |-> gens[s]]
    BY <1>1 DEF Resume
  <2>3. gens[s] # <<>>
    BY <2>1, EmptySeq
  <2>4. Count(gens[s], "right") \in 0..Len(gens[s]) /\ Count(gens[s], "invalid") \in 0..Len(gens[s])
    BY <2>1, CountIs
  <2>5. ASSUME ~SpoiltBy(s, gens[s])
        PROVE  Aligned(s, Len(gens[s])) /\ gens[s] = Slice(s, 0, Len(gens[s]))
    BY <1>0, <1>1, <2>5 DEF FilesSound
  <2>6. ASSUME ~SpoiltBy(s, gens[s]) PROVE Scored(s, Resume(s))
    BY <2>2, <2>5, <2>6 DEF Scored
  <2> QED
    BY <1>0, <1>1, <2>1, <2>2, <2>3, <2>4, <2>5, <2>6
<1>2. CASE ~(opt.gens /\ gens[s] # NoGens) /\ out[s].file
  <2>1. Resume(s) = [done |-> out[s].done, correct |-> out[s].correct,
                     invalid |-> out[s].invalid, gens |-> <<>>]
    BY <1>2 DEF Resume
  <2>2. gens[s] = NoGens
    BY <1>0, <1>2 DEF FilesSane
  <2>3. <<>> \in Questions /\ Len(<<>>) = 0
    BY EmptySeq DEF Questions
  <2>4. out[s].done \in 0..Total(s) /\ out[s].correct \in 0..out[s].done
        /\ out[s].invalid \in 0..out[s].done
    BY <1>0, <1>2 DEF FilesSane
  <2>5. ASSUME ~SpoiltBy(s, gens[s]) PROVE Aligned(s, out[s].done) /\ Scored(s, Resume(s))
    BY <1>0, <1>2, <2>1, <2>5 DEF FilesSound, Scored
  <2> QED
    BY <1>2, <2>1, <2>2, <2>3, <2>4, <2>5
<1>3. CASE ~(opt.gens /\ gens[s] # NoGens) /\ ~out[s].file
  <2>1. Resume(s) = [done |-> 0, correct |-> 0, invalid |-> 0, gens |-> <<>>]
    BY <1>3 DEF Resume
  <2>2. gens[s] = NoGens
    BY <1>0, <1>3 DEF FilesSane
  <2>3. <<>> \in Questions /\ Len(<<>>) = 0
    BY EmptySeq DEF Questions
  <2>4. Aligned(s, 0)
    BY <1>0, ShapesOf DEF Aligned, OptOK
  <2>5. Scored(s, Resume(s))
    BY <2>1, SliceEmpty, CountEmpty DEF Scored
  <2> QED
    BY <1>0, <1>3, <2>1, <2>2, <2>3, <2>4, <2>5
<1> QED
  BY <1>1, <1>2, <1>3

\* A launched job starts from what it resumes.
LEMMA LaunchKeeps ==
  ASSUME RunInv, NEW s \in Shard, Launch(s)
  PROVE  RunInv'
<1> DEFINE r == Resume(s)
           j == [pc |-> "ask", todo |-> Starts(s, r.done), done |-> r.done, correct |-> r.correct,
                 invalid |-> r.invalid, gens |-> r.gens, asked |-> <<>>]
<1>1. /\ UNCHANGED <<opt, out, gens, reader, tail>>
      /\ job' = [job EXCEPT ![s] = j] /\ r.done < Total(s)
  BY DEF Launch
<1>2. /\ r.done \in 0..Total(s)
      /\ r.correct \in 0..r.done /\ r.invalid \in 0..r.done
      /\ r.gens \in Questions /\ Len(r.gens) <= r.done
      /\ opt.gens => IF r.gens = <<>> THEN gens[s] = NoGens ELSE gens[s] = r.gens
      /\ ~SpoiltBy(s, gens[s]) =>
            /\ Aligned(s, r.done) /\ Scored(s, r)
            /\ gens[s] # NoGens => Len(gens[s]) = r.done
            /\ gens[s] = NoGens => r.done = IF out[s].file THEN out[s].done ELSE 0
  BY ResumeIs
<1> HIDE DEF r
<1>3. Total(s) \in Nat /\ OptOK /\ TailOK /\ TaskOK(s, out[s], gens[s], job[s])
  BY ShapesOf
<1>4. j \in Jobs
  <2>1. Starts(s, r.done) \in SUBSET Nat
    BY <1>3 DEF Starts
  <2>2. <<>> \in Questions
    BY EmptySeq DEF Questions
  <2> QED
    BY <1>2, <1>3, <2>1, <2>2 DEF Jobs
<1>5. JobSane(s, gens[s], j)
  <2>1. PICK p \in Nat : Aligned(s, p) /\ Starts(s, r.done) = Starts(s, p) /\ r.done <= p
    BY <1>2, <1>3, SkipToStart
  <2> QED
    BY <1>2, <2>1 DEF JobSane
<1>6. ASSUME ~SpoiltBy(s, gens[s]) PROVE JobSound(s, out[s], gens[s], j)
  <2>1. Scored(s, j) /\ Behind(j) = r.done
    BY <1>2, <1>6 DEF Scored, Behind
  <2> QED
    BY <1>2, <1>6, <2>1 DEF JobSound
<1>7. TaskOK(s, out[s], gens[s], j)
  BY <1>3, <1>5, <1>6 DEF TaskOK
<1>8. tail = NoTail => s < opt.shards
  <2>1. SUFFICES ASSUME tail = NoTail, ~(s < opt.shards) PROVE FALSE
    OBVIOUS
  <2>2. Ids(s) = <<>>
    BY <2>1 DEF Ids
  <2>3. Total(s) = 0
    BY <2>2, EmptySeq DEF Total
  <2> QED
    BY <1>1, <1>2, <2>3
<1> HIDE DEF j
<1> QED
  BY <1>1, <1>4, <1>7, <1>8, ShapesOf, OneTask

\* The next chunk is counted once, after the ones before it.
LEMMA AskKeeps ==
  ASSUME RunInv, NEW s \in Shard, Ask(s)
  PROVE  RunInv'
<1> DEFINE start == CHOOSE a \in job[s].todo : \A b \in job[s].todo : a <= b
           stop  == IF start + opt.chunk < Total(s) THEN start + opt.chunk ELSE Total(s)
           qs    == Slice(s, start, stop)
           i     == job[s]
           j     == [pc |-> "out", todo |-> i.todo \ {start}, done |-> i.done + Len(qs),
                     correct |-> i.correct + Count(qs, "right"),
                     invalid |-> i.invalid + Count(qs, "invalid"), gens |-> i.gens, asked |-> qs]
<1>1. i \in Jobs /\ i # NoJob /\ i.pc = "ask" /\ i.todo # {}
  <2>1. i.pc = "ask" /\ i.todo # {}
    BY DEF Ask
  <2> QED
    BY <2>1, ShapesOf
<1>2. /\ UNCHANGED <<opt, out, gens, reader, tail>>
      /\ job' = [job EXCEPT ![s] = j]
  BY DEF Ask
<1>3. Total(s) \in Nat /\ OptOK /\ TailOK /\ TaskOK(s, out[s], gens[s], i)
  BY ShapesOf
<1>4. PICK p \in Nat : Aligned(s, p) /\ i.todo = Starts(s, p) /\ i.done <= p
  BY <1>1, <1>3 DEF TaskOK, JobSane
<1>5. /\ start = p /\ stop \in Nat /\ stop - p \in 1..opt.chunk
      /\ Aligned(s, stop) /\ i.todo \ {start} = Starts(s, stop)
  BY <1>1, <1>3, <1>4, NextChunk
<1> HIDE DEF start, stop
<1>6. p < stop /\ stop <= Total(s)
  BY <1>3, <1>4, <1>5 DEF Aligned, OptOK
<1>7. qs \in Questions /\ Len(qs) = stop - p
  <2>1. qs = Slice(s, p, stop)
    BY <1>5
  <2>2. p <= stop
    BY <1>5, <1>6
  <2> HIDE DEF qs
  <2> QED
    BY <1>3, <1>5, <1>6, <2>1, <2>2, SliceIs
<1>8. Count(qs, "right") \in 0..Len(qs) /\ Count(qs, "invalid") \in 0..Len(qs)
  BY <1>7, CountIs
<1>9. /\ i.done \in Nat /\ i.gens \in Questions
      /\ i.correct \in 0..i.done /\ i.invalid \in 0..i.done /\ Len(i.gens) <= i.done
      /\ opt.gens => IF i.gens = <<>> THEN gens[s] = NoGens ELSE gens[s] = i.gens
      /\ Len(i.gens) \in Nat
  BY <1>1, <1>3, LenProperties DEF TaskOK, JobSane, Jobs, Questions
<1> HIDE DEF qs, i
<1>10. j \in Jobs
  <2>1. Starts(s, stop) \in SUBSET Nat
    BY <1>3 DEF Starts
  <2> QED
    BY <1>5, <1>6, <1>7, <1>8, <1>9, <2>1 DEF Jobs
<1>11. JobSane(s, gens[s], j)
  <2>1. /\ j.done = i.done + Len(qs) /\ j.asked = qs /\ j.gens = i.gens
        /\ j.correct = i.correct + Count(qs, "right")
        /\ j.invalid = i.invalid + Count(qs, "invalid")
    OBVIOUS
  <2>2. j.done <= stop /\ j.correct \in 0..j.done /\ j.invalid \in 0..j.done
    <3> HIDE DEF j
    <3>1. Len(qs) \in Nat /\ Len(qs) = stop - p /\ p \in Nat /\ stop \in Nat
      BY <1>5, <1>6, <1>7
    <3>2. j.done \in Nat /\ j.done <= stop
      BY <1>4, <1>9, <2>1, <3>1
    <3>3. j.correct \in 0..j.done
      BY <1>8, <1>9, <2>1, <3>1
    <3>4. j.invalid \in 0..j.done
      BY <1>8, <1>9, <2>1, <3>1
    <3> QED
      BY <3>2, <3>3, <3>4
  <2>3. Len(j.asked) \in 1..opt.chunk /\ Len(j.gens) + Len(j.asked) <= j.done
    <3> HIDE DEF j
    <3> QED
      BY <1>5, <1>6, <1>7, <1>9, <2>1
  <2>4. ToSet(j.asked) \subseteq ToSet(Ids(s))
    <3>1. p <= stop
      BY <1>5, <1>6
    <3>2. ToSet(Slice(s, p, stop)) \subseteq ToSet(Ids(s))
      BY <1>3, <1>5, <1>6, <3>1, SliceWithin
    <3> QED
      BY <1>5, <3>2 DEF qs
  <2> QED
    BY <1>5, <1>9, <2>2, <2>3, <2>4 DEF JobSane
<1>12. ASSUME ~SpoiltBy(s, gens[s]) PROVE JobSound(s, out[s], gens[s], j)
  <2>1. /\ Aligned(s, i.done) /\ i.todo = Starts(s, i.done) /\ Scored(s, i)
        /\ gens[s] # NoGens => Len(gens[s]) = i.done
        /\ gens[s] = NoGens => i.done = IF out[s].file THEN out[s].done ELSE 0
    BY <1>1, <1>3, <1>12 DEF TaskOK, JobSound, Behind
  <2>2. p = i.done
    <3>1. start = i.done
      BY <1>1, <1>3, <1>9, <2>1, NextChunk DEF start, i
    <3> QED
      BY <1>5, <3>1
  <2>3. j.done = stop /\ Slice(s, i.done, stop) = qs
    <3>1. i.done + (stop - p) = stop
      BY <1>5, <2>2
    <3> QED
      BY <1>5, <1>7, <2>2, <3>1 DEF qs
  <2>4. Scored(s, j)
    <3>1. \A g : Count(Slice(s, 0, stop), g) = Count(Slice(s, 0, i.done), g) + Count(qs, g)
      BY <1>3, <1>5, <1>6, <1>9, <2>2, <2>3, CountSlice
    <3> QED
      BY <2>1, <2>3, <3>1 DEF Scored
  <2>5. Behind(j) = i.done
    <3>1. j.pc = "out" /\ j.done = i.done + Len(qs) /\ j.asked = qs
      OBVIOUS
    <3>2. Len(qs) \in Nat /\ i.done \in Nat
      BY <1>5, <1>6, <1>7, <1>9
    <3> HIDE DEF j
    <3> QED
      BY <3>1, <3>2 DEF Behind
  <2> QED
    BY <1>5, <2>1, <2>3, <2>4, <2>5 DEF JobSound
<1>13. TaskOK(s, out[s], gens[s], j)
  BY <1>3, <1>11, <1>12 DEF TaskOK
<1>14. tail = NoTail => s < opt.shards
  BY <1>1, ShapesOf DEF i
<1> HIDE DEF j
<1> QED
  BY <1>2, <1>10, <1>13, <1>14, ShapesOf, OneTask


\* A job with a chunk to save.
LEMMA SavingJob ==
  ASSUME RunInv, NEW s \in Shard, job[s].pc \in {"out", "gens"}
  PROVE  LET i == job[s]
         IN  /\ i \in Jobs /\ i # NoJob /\ (tail = NoTail => s < opt.shards)
             /\ opt.gens \in BOOLEAN /\ opt.chunk \in Nat \ {0} /\ Total(s) \in Nat
             /\ \E p \in Nat : Aligned(s, p) /\ i.todo = Starts(s, p) /\ i.done <= p
             /\ i.done \in Nat /\ i.done <= Total(s)
             /\ i.correct \in 0..i.done /\ i.invalid \in 0..i.done
             /\ opt.gens => IF i.gens = <<>> THEN gens[s] = NoGens ELSE gens[s] = i.gens
             /\ i.gens \in Questions /\ i.asked \in Questions
             /\ Len(i.gens) \in Nat /\ Len(i.asked) \in Nat
             /\ 1 <= Len(i.asked) /\ Len(i.asked) <= opt.chunk
             /\ Len(i.gens) + Len(i.asked) <= i.done /\ Len(i.gens) <= i.done
             /\ Len(i.gens) + Len(i.asked) \in 1..Total(s)
             /\ i.pc = "gens" => opt.gens
             /\ ToSet(i.asked) \subseteq ToSet(Ids(s))
<1> DEFINE i == job[s]
<1>1. i \in Jobs /\ i # NoJob /\ (tail = NoTail => s < opt.shards)
  BY ShapesOf
<1>2. opt.gens \in BOOLEAN /\ opt.chunk \in Nat \ {0} /\ Total(s) \in Nat
  BY ShapesOf DEF OptOK
<1>3. JobSane(s, gens[s], i)
  BY ShapesOf DEF TaskOK
<1>4. i.pc # "ask"
  OBVIOUS
<1> HIDE DEF i
<1>5. /\ i.done \in Nat /\ i.gens \in Questions /\ i.asked \in Questions
      /\ Len(i.gens) \in Nat /\ Len(i.asked) \in Nat
  BY <1>1, LenProperties DEF Jobs, Questions
<1>6. PICK p \in Nat : Aligned(s, p) /\ i.todo = Starts(s, p) /\ i.done <= p
  BY <1>1, <1>3 DEF JobSane
<1>7. i.done <= Total(s)
  BY <1>2, <1>5, <1>6 DEF Aligned
<1>8. /\ Len(i.asked) \in 1..opt.chunk /\ Len(i.gens) + Len(i.asked) <= i.done
      /\ ToSet(i.asked) \subseteq ToSet(Ids(s))
  BY <1>1, <1>3, <1>4 DEF JobSane
<1>9. /\ i.correct \in 0..i.done /\ i.invalid \in 0..i.done
      /\ opt.gens => IF i.gens = <<>> THEN gens[s] = NoGens ELSE gens[s] = i.gens
      /\ i.pc = "gens" => opt.gens
  BY <1>1, <1>3 DEF JobSane
<1>10. 1 <= Len(i.asked) /\ Len(i.asked) <= opt.chunk
  BY <1>2, <1>5, <1>8
<1>11. Len(i.gens) <= i.done /\ Len(i.gens) + Len(i.asked) \in 1..Total(s)
  <2> DEFINE x == Len(i.gens)
             y == Len(i.asked)
  <2>1. x \in Nat /\ y \in Nat /\ 1 <= y /\ x + y <= i.done
    BY <1>5, <1>8, <1>10
  <2> HIDE DEF x, y
  <2>2. x <= i.done /\ x + y \in 1..Total(s)
    BY <1>2, <1>5, <1>7, <2>1
  <2> QED
    BY <2>2 DEF x, y
<1> QED
  BY <1>1, <1>2, <1>5, <1>6, <1>7, <1>8, <1>9, <1>10, <1>11 DEF i

\* The result is written for the chunk that was asked.
LEMMA WriteOutKeeps ==
  ASSUME RunInv, NEW s \in Shard, WriteOut(s)
  PROVE  RunInv'
<1> DEFINE i == job[s]
           o == [file |-> TRUE, contract |-> TRUE, done |-> i.done, total |-> Total(s),
                 correct |-> i.correct, invalid |-> i.invalid]
           j == [i EXCEPT !.pc = IF opt.gens THEN "gens" ELSE "ask"]
<1>1. /\ UNCHANGED <<opt, gens, reader, tail>>
      /\ out' = [out EXCEPT ![s] = o] /\ job' = [job EXCEPT ![s] = j] /\ i.pc = "out"
  BY DEF WriteOut
<1>2. TaskOK(s, out[s], gens[s], i)
  BY ShapesOf
<1>3. /\ i \in Jobs /\ i # NoJob /\ (tail = NoTail => s < opt.shards)
      /\ opt.gens \in BOOLEAN /\ opt.chunk \in Nat \ {0} /\ Total(s) \in Nat
      /\ i.done \in Nat /\ i.done <= Total(s)
      /\ i.correct \in 0..i.done /\ i.invalid \in 0..i.done
      /\ opt.gens => IF i.gens = <<>> THEN gens[s] = NoGens ELSE gens[s] = i.gens
      /\ Len(i.gens) \in Nat /\ Len(i.asked) \in Nat
      /\ 1 <= Len(i.asked) /\ Len(i.asked) <= opt.chunk
      /\ Len(i.gens) + Len(i.asked) <= i.done /\ Len(i.gens) <= i.done
      /\ ToSet(i.asked) \subseteq ToSet(Ids(s))
  BY <1>1, SavingJob
<1>4. PICK p \in Nat : Aligned(s, p) /\ i.todo = Starts(s, p) /\ i.done <= p
  BY <1>1, SavingJob
<1>5. ASSUME ~SpoiltBy(s, gens[s])
      PROVE  /\ Aligned(s, i.done) /\ Aligned(s, i.done - Len(i.asked))
             /\ i.todo = Starts(s, i.done) /\ Scored(s, i)
             /\ i.asked = Slice(s, i.done - Len(i.asked), i.done)
             /\ gens[s] # NoGens => Len(gens[s]) = i.done - Len(i.asked)
             /\ FilesSound(s, out[s], gens[s])
  BY <1>1, <1>2, <1>3, <1>5 DEF TaskOK, JobSound, Behind
<1>6. gens[s] # NoGens => opt.gens /\ Len(gens[s]) \in 1..Total(s)
  BY <1>2 DEF TaskOK, FilesSane
<1> HIDE DEF i
<1>7. /\ j \in Jobs /\ j # NoJob
      /\ j.pc = IF opt.gens THEN "gens" ELSE "ask"
      /\ j.todo = i.todo /\ j.done = i.done /\ j.correct = i.correct /\ j.invalid = i.invalid
      /\ j.gens = i.gens /\ j.asked = i.asked
  <2>1. j \in Jobs
    BY <1>3 DEF Jobs
  <2> QED
    BY <1>3, <2>1 DEF Jobs, NoJob
<1>8. o \in Results
  BY <1>3 DEF Results
<1> HIDE DEF j
<1>9. FilesSane(s, o, gens[s])
  BY <1>3, <1>6 DEF FilesSane
<1>10. JobSane(s, gens[s], j)
  <2>1. Len(j.asked) \in 1..opt.chunk
    BY <1>3, <1>7
  <2>2. Len(j.gens) <= j.done /\ Len(j.gens) + Len(j.asked) <= j.done
    BY <1>3, <1>7
  <2> QED
    BY <1>3, <1>4, <1>7, <2>1, <2>2 DEF JobSane
<1>11. ASSUME ~SpoiltBy(s, gens[s]) PROVE FilesSound(s, o, gens[s]) /\ JobSound(s, o, gens[s], j)
  <2>1. Scored(s, o) /\ Scored(s, j)
    BY <1>5, <1>7, <1>11 DEF Scored
  <2>2. ASSUME gens[s] # NoGens
        PROVE  /\ gens[s] = Slice(s, 0, Len(gens[s])) /\ Aligned(s, Len(gens[s]))
               /\ i.done \in Len(gens[s])..(Len(gens[s]) + opt.chunk)
    <3>1. gens[s] = Slice(s, 0, Len(gens[s])) /\ Aligned(s, Len(gens[s]))
      BY <1>5, <1>11, <2>2 DEF FilesSound
    <3>2. Len(gens[s]) = i.done - Len(i.asked) /\ Len(gens[s]) \in Nat
      BY <1>3, <1>5, <1>6, <1>11, <2>2
    <3> QED
      BY <1>3, <3>1, <3>2
  <2>3. FilesSound(s, o, gens[s])
    BY <1>5, <1>11, <2>1, <2>2 DEF FilesSound
  <2>4. CASE opt.gens
    <3>1. j.pc = "gens" /\ Behind(j) = i.done - Len(i.asked)
      BY <1>7, <2>4 DEF Behind
    <3>2. o.file /\ o.done = j.done
      BY <1>7
    <3> HIDE DEF o
    <3>3. /\ Aligned(s, j.done) /\ Aligned(s, Behind(j)) /\ j.todo = Starts(s, j.done)
          /\ j.asked = Slice(s, Behind(j), j.done)
      BY <1>5, <1>7, <1>11, <3>1
    <3>4. gens[s] # NoGens => Len(gens[s]) = Behind(j)
      BY <1>5, <1>11, <3>1
    <3> QED
      BY <1>7, <2>1, <2>3, <3>1, <3>2, <3>3, <3>4 DEF JobSound
  <2>5. CASE ~opt.gens
    <3>1. j.pc = "ask" /\ Behind(j) = i.done /\ gens[s] = NoGens
      BY <1>6, <1>7, <2>5 DEF Behind
    <3>2. o.file /\ o.done = i.done
      OBVIOUS
    <3> HIDE DEF o
    <3>3. Aligned(s, j.done) /\ Aligned(s, Behind(j)) /\ j.todo = Starts(s, j.done)
      BY <1>5, <1>7, <1>11, <3>1
    <3> QED
      BY <1>7, <2>1, <2>3, <3>1, <3>2, <3>3 DEF JobSound
  <2> QED
    BY <2>3, <2>4, <2>5
<1>12. TaskOK(s, o, gens[s], j)
  BY <1>9, <1>10, <1>11 DEF TaskOK
<1> HIDE DEF o
<1> QED
  BY <1>1, <1>3, <1>7, <1>8, <1>12, ShapesOf, OneTask

\* The answers are written for the chunk that was asked.  Where no answers
\* were before, they are the task's first only if no chunk went unanswered.
LEMMA WriteGensKeeps ==
  ASSUME RunInv, NEW s \in Shard, WriteGens(s)
  PROVE  RunInv'
<1> DEFINE i == job[s]
           g == i.gens \o i.asked
           j == [i EXCEPT !.pc = "ask", !.gens = g]
<1>1. /\ UNCHANGED <<opt, out, reader, tail>>
      /\ gens' = [gens EXCEPT ![s] = g] /\ i.pc = "gens"
      /\ job' = [job EXCEPT ![s].pc = "ask", ![s].gens = @ \o job[s].asked]
  BY DEF WriteGens
<1>2. i \in Jobs /\ i # NoJob
  BY <1>1, ShapesOf
<1>3. Total(s) \in Nat /\ OptOK /\ TailOK /\ TaskOK(s, out[s], gens[s], i)
  BY ShapesOf
<1>4. job' = [job EXCEPT ![s] = j]
  <2>1. [job EXCEPT ![s].pc = "ask", ![s].gens = @ \o job[s].asked]
        = [[job EXCEPT ![s].pc = "ask"] EXCEPT ![s].gens = @ \o job[s].asked]
    OBVIOUS
  <2>2. job \in [Shard -> {NoJob} \cup Jobs]
    BY DEF RunInv, Shapes
  <2>3. [[job EXCEPT ![s].pc = "ask"] EXCEPT ![s].gens = @ \o job[s].asked]
        = [job EXCEPT ![s] = [[job[s] EXCEPT !.pc = "ask"] EXCEPT !.gens = @ \o job[s].asked]]
    BY <2>2
  <2>4. [[i EXCEPT !.pc = "ask"] EXCEPT !.gens = @ \o i.asked] = j
    BY <1>2 DEF Jobs
  <2> QED
    BY <1>1, <2>1, <2>3, <2>4
<1>5. PICK p \in Nat : Aligned(s, p) /\ i.todo = Starts(s, p) /\ i.done <= p
  BY <1>1, SavingJob
<1>6. /\ opt.chunk \in Nat \ {0} /\ Total(s) \in Nat /\ opt.gens
      /\ i.done \in Nat /\ i.done <= Total(s)
      /\ i.correct \in 0..i.done /\ i.invalid \in 0..i.done
      /\ IF i.gens = <<>> THEN gens[s] = NoGens ELSE gens[s] = i.gens
      /\ Len(i.gens) \in Nat /\ Len(i.asked) \in Nat
      /\ 1 <= Len(i.asked) /\ Len(i.asked) <= opt.chunk
      /\ Len(i.gens) + Len(i.asked) <= i.done /\ Len(i.gens) + Len(i.asked) \in 1..Total(s)
      /\ i.gens \in Questions /\ i.asked \in Questions
  BY <1>1, SavingJob
<1>7. opt.chunk \in Nat \ {0} /\ (tail = NoTail => s < opt.shards)
  BY <1>1, SavingJob
<1>8. /\ g \in Questions /\ Len(g) = Len(i.gens) + Len(i.asked)
      /\ \A k \in 1..(Len(i.gens) + Len(i.asked)) :
            g[k] = IF k <= Len(i.gens) THEN i.gens[k] ELSE i.asked[k - Len(i.gens)]
  <2>1. i.gens \in Seq(Nat) /\ i.asked \in Seq(Nat)
    BY <1>6 DEF Questions
  <2> HIDE DEF i
  <2> QED
    BY <2>1, ConcatProperties DEF Questions
<1> HIDE DEF g
<1>9. Len(g) \in 1..Total(s) /\ Len(g) <= i.done
  <2> HIDE DEF i
  <2> QED
    BY <1>6, <1>8
<1>10. g # NoGens /\ g # <<>>
  <2>1. Len(g) # 0
    BY <1>6, <1>9
  <2> QED
    BY <1>8, <2>1, NoGensIsNone, EmptySeq
<1> HIDE DEF i
<1>11. /\ j \in Jobs /\ j # NoJob
       /\ j.pc = "ask" /\ j.gens = g
       /\ j.todo = i.todo /\ j.done = i.done /\ j.correct = i.correct /\ j.invalid = i.invalid
       /\ j.asked = i.asked
  <2>1. j \in Jobs
    BY <1>2, <1>8 DEF Jobs
  <2> QED
    BY <1>2, <2>1 DEF Jobs, NoJob
<1> HIDE DEF j
<1>12. FilesSane(s, out[s], g)
  BY <1>3, <1>6, <1>9 DEF TaskOK, FilesSane
<1>13. JobSane(s, g, j)
  BY <1>5, <1>6, <1>9, <1>10, <1>11 DEF JobSane
<1>14. ASSUME ~SpoiltBy(s, g) PROVE FilesSound(s, out[s], g) /\ JobSound(s, out[s], g, j)
  <2> DEFINE b == i.done - Len(i.asked)
  <2>1. ~SpoiltBy(s, gens[s]) /\ (i.gens = <<>> => b = 0)
    <3>1. CASE i.gens = <<>>
      <4>1. gens[s] = NoGens /\ ~SpoiltBy(s, gens[s])
        BY <1>6, <3>1 DEF SpoiltBy
      <4>2. Aligned(s, b) /\ i.asked = Slice(s, b, i.done)
        BY <1>1, <1>2, <1>3, <4>1 DEF TaskOK, JobSound, Behind, i
      <4>3. b \in Nat /\ b < i.done /\ i.done <= Total(s)
        BY <1>3, <1>6, <1>7, <4>2 DEF Aligned
      <4>4. i.asked[1] = Ids(s)[b + 1]
        <5>1. i.done \in Nat /\ b <= i.done /\ 1 \in 1..(i.done - b)
          BY <1>6, <4>3
        <5> HIDE DEF b
        <5>2. Slice(s, b, i.done)[1] = Ids(s)[b + 1]
          BY <1>3, <4>3, <5>1, SliceIs
        <5> QED
          BY <4>2, <5>2
      <4>5. g[1] = i.asked[1]
        <5>1. Len(i.gens) = 0
          BY <3>1, EmptySeq
        <5>2. 1 \in 1..(Len(i.gens) + Len(i.asked)) /\ ~(1 <= Len(i.gens)) /\ 1 - Len(i.gens) = 1
          BY <1>6, <5>1
        <5>3. g[1] = IF 1 <= Len(i.gens) THEN i.gens[1] ELSE i.asked[1 - Len(i.gens)]
          BY <1>8, <5>2
        <5> QED
          BY <5>2, <5>3
      <4>6. Ids(s)[b + 1] = Ids(s)[1]
        BY <1>10, <1>14, <4>4, <4>5 DEF SpoiltBy
      <4>7. DOMAIN Ids(s) = 1..Total(s) /\ Distinct(Ids(s))
        BY <1>3, IdsIs, LenProperties DEF Questions, Total
      <4>8. b + 1 \in 1..Total(s) /\ 1 \in 1..Total(s)
        BY <1>3, <1>6, <4>3
      <4>9. b + 1 = 1
        BY <4>6, <4>7, <4>8 DEF Distinct
      <4> QED
        BY <4>1, <4>3, <4>9
    <3>2. CASE i.gens # <<>>
      <4>1. gens[s] = i.gens
        BY <1>6, <3>2
      <4>2. Len(i.gens) \in Nat \ {0}
        BY <1>6, <3>2, EmptySeq DEF Questions
      <4>3. g[1] = i.gens[1]
        <5>0. 1 <= Len(i.gens)
          BY <4>2
        <5>1. 1 \in 1..(Len(i.gens) + Len(i.asked)) /\ 1 <= Len(i.gens)
          <6> DEFINE x == Len(i.gens)
                     y == Len(i.asked)
          <6>1. x \in Nat /\ y \in Nat /\ 1 <= x
            BY <1>6, <5>0
          <6> HIDE DEF x, y
          <6>2. 1 \in 1..(x + y) /\ 1 <= x
            BY <6>1
          <6> QED
            BY <6>2 DEF x, y
        <5>2. g[1] = IF 1 <= Len(i.gens) THEN i.gens[1] ELSE i.asked[1 - Len(i.gens)]
          BY <1>8, <5>1
        <5> QED
          BY <5>1, <5>2
      <4> QED
        BY <1>10, <1>14, <3>2, <4>1, <4>3 DEF SpoiltBy
    <3> QED
      BY <3>1, <3>2
  <2>2. /\ Aligned(s, i.done) /\ Aligned(s, b) /\ i.todo = Starts(s, i.done) /\ Scored(s, i)
        /\ i.asked = Slice(s, b, i.done)
        /\ gens[s] # NoGens => Len(gens[s]) = b
        /\ out[s].file /\ out[s].done = i.done
    BY <1>1, <1>2, <1>3, <2>1 DEF TaskOK, JobSound, Behind, i
  <2>3. FilesSound(s, out[s], gens[s])
    BY <1>3, <2>1 DEF TaskOK
  <2>4. b \in Nat /\ b <= i.done /\ i.done <= Total(s)
    BY <1>3, <1>6, <1>7, <2>2 DEF Aligned
  <2>5. i.gens = Slice(s, 0, b)
    <3>1. CASE i.gens = <<>>
      BY <2>1, <3>1, SliceEmpty
    <3>2. CASE i.gens # <<>>
      <4>1. gens[s] = i.gens /\ gens[s] # NoGens
        BY <1>6, <3>2, NoGensIsNone
      <4> QED
        BY <2>2, <2>3, <4>1 DEF FilesSound
    <3> QED
      BY <3>1, <3>2
  <2>6. g = Slice(s, 0, i.done)
    <3> HIDE DEF b
    <3>1. Slice(s, 0, b) \o Slice(s, b, i.done) = Slice(s, 0, i.done)
      <4>1. 0 \in Nat /\ b \in Nat /\ i.done \in Nat /\ 0 <= b /\ b <= i.done /\ i.done <= Total(s)
        BY <1>6, <2>4
      <4> QED
        BY <1>3, <4>1, SliceJoin
    <3> QED
      BY <2>2, <2>5, <3>1 DEF g
  <2>7. Len(g) = i.done
    <3>1. Len(Slice(s, 0, i.done)) = i.done - 0
      <4>1. 0 \in Nat /\ i.done \in Nat /\ 0 <= i.done /\ i.done <= Total(s)
        BY <1>6
      <4> QED
        BY <1>3, <4>1, SliceIs
    <3> QED
      BY <1>6, <2>6, <3>1
  <2>8. FilesSound(s, out[s], g)
    BY <1>3, <1>6, <1>7, <2>2, <2>3, <2>6, <2>7 DEF FilesSound
  <2>9. JobSound(s, out[s], g, j)
    <3>1. Behind(j) = i.done
      BY <1>11 DEF Behind
    <3>2. Scored(s, j)
      BY <1>11, <2>2 DEF Scored
    <3> QED
      BY <1>10, <1>11, <2>2, <2>7, <3>1, <3>2 DEF JobSound
  <2> QED
    BY <2>8, <2>9
<1>15. TaskOK(s, out[s], g, j)
  BY <1>12, <1>13, <1>14 DEF TaskOK
<1> QED
  BY <1>1, <1>4, <1>7, <1>8, <1>11, <1>15, ShapesOf, OneTask


\* A part of a sequence repeats nothing, where the sequence repeats nothing.
LEMMA PartDistinct ==
  ASSUME NEW qs \in Questions, Distinct(qs), NEW a \in Nat, NEW b \in Nat, b <= Len(qs)
  PROVE  SubSeq(qs, a + 1, b) \in Questions /\ Distinct(SubSeq(qs, a + 1, b))
<1> DEFINE x == SubSeq(qs, a + 1, b)
<1>1. CASE b < a + 1
  <2>1. x = <<>>
    BY <1>1, SubSeqEmpty
  <2>2. <<>> \in Questions /\ DOMAIN <<>> = {}
    BY EmptySeq DEF Questions
  <2>3. Distinct(<<>>)
    BY <2>2 DEF Distinct
  <2> QED
    BY <2>1, <2>2, <2>3
<1>2. CASE ~(b < a + 1)
  <2>1. x \in Questions /\ Len(x) = b - a /\ \A i \in 1..(b - a) : x[i] = qs[a + i]
    BY <1>2, Part
  <2> HIDE DEF x
  <2>2. DOMAIN x = 1..(b - a)
    BY <2>1, LenProperties DEF Questions
  <2>3. Len(qs) \in Nat /\ DOMAIN qs = 1..Len(qs)
    BY LenProperties DEF Questions
  <2>4. SUFFICES ASSUME NEW i \in 1..(b - a), NEW j \in 1..(b - a), x[i] = x[j] PROVE i = j
    BY <2>1, <2>2 DEF Distinct, x
  <2>5. qs[a + i] = qs[a + j]
    BY <2>1, <2>4
  <2>6. a + i \in 1..Len(qs) /\ a + j \in 1..Len(qs)
    BY <1>2, <2>3
  <2>7. a + i = a + j
    BY <2>3, <2>5, <2>6 DEF Distinct
  <2> QED
    BY <2>7
<1> QED
  BY <1>1, <1>2

\* So is each part that is dealt to a task of the tail.
LEMMA DealtIs ==
  ASSUME OptOK, opt.tail > 0, NEW qs \in Questions, Distinct(qs), NEW k \in Nat
  PROVE  Dealt(qs, k) \in Questions /\ Distinct(Dealt(qs, k))
<1> DEFINE t == opt.tail
           l == Len(qs)
           part == (l + t - 1) \div t
           a == k * part
           b == IF (k + 1) * part < l THEN (k + 1) * part ELSE l
<1>1. t \in Nat \ {0} /\ l \in Nat
  BY LenProperties, Gsm8kRunAssumption DEF OptOK, Questions
<1>2. part \in Nat
  <2>1. l + t - 1 \in Nat
    BY <1>1
  <2> HIDE DEF t, l
  <2> QED
    BY <1>1, <2>1, DivMod
<1>3. Dealt(qs, k) = SubSeq(qs, a + 1, b)
  BY DEF Dealt
<1> HIDE DEF part, l
<1>4. a \in Nat /\ (k + 1) * part \in Nat
  BY <1>2
<1>5. b \in Nat /\ b <= l
  BY <1>1, <1>4
<1> HIDE DEF a, b
<1> QED
  BY <1>3, <1>4, <1>5, PartDistinct DEF l

\* Sharing out a tail gives its tasks their questions, and changes no other's.
LEMMA ReshardKeeps ==
  ASSUME RunInv, NEW slow, Reshard(slow)
  PROVE  RunInv' /\ \A s \in Shard : Ids(s)' = Ids(s) \/ Total(s) = 0
<1>1. /\ UNCHANGED <<opt, out, gens, job, reader>> /\ opt.tail > 0 /\ tail = NoTail
      /\ slow # {} /\ OptOK
      /\ tail' = [slow |-> slow,
                  ids |-> [t \in opt.shards..(opt.shards + opt.tail - 1) |->
                             Dealt(Remaining(slow), t - opt.shards)],
                  had |-> [s \in slow |-> gens[s]]]
  BY DEF Reshard, RunInv
<1>2. tail' # NoTail
  <2>1. tail'.slow # NoTail.slow
    BY <1>1 DEF NoTail
  <2> QED
    BY <2>1
<1>3. Remaining(slow) \in Questions /\ Distinct(Remaining(slow))
  <2> DEFINE S == {q \in 0..(opt.n - 1) : \E s \in slow :
                     q \in ToSet(Ids(s)) \ IF gens[s] = NoGens THEN {} ELSE ToSet(gens[s])}
  <2>1. Remaining(slow) = Ordered(S)
    BY DEF Remaining
  <2>2. S \in SUBSET (0..(opt.n - 1)) /\ opt.n \in Nat
    BY <1>1 DEF OptOK
  <2> HIDE DEF S
  <2> QED
    BY <2>1, <2>2, OrderedIs
<1>4. /\ DOMAIN tail'.ids = opt.shards..(opt.shards + opt.tail - 1)
      /\ \A t \in DOMAIN tail'.ids : tail'.ids[t] \in Questions /\ Distinct(tail'.ids[t])
  <2>1. tail'.ids = [t \in opt.shards..(opt.shards + opt.tail - 1) |->
                       Dealt(Remaining(slow), t - opt.shards)]
    BY <1>1
  <2>2. ASSUME NEW t \in opt.shards..(opt.shards + opt.tail - 1)
        PROVE  /\ Dealt(Remaining(slow), t - opt.shards) \in Questions
               /\ Distinct(Dealt(Remaining(slow), t - opt.shards))
    <3>1. t - opt.shards \in Nat
      BY <1>1, Gsm8kRunAssumption DEF OptOK
    <3> QED
      BY <1>1, <1>3, <3>1, DealtIs
  <2> QED
    BY <2>1, <2>2
<1>5. OptOK' /\ Shapes' /\ ReaderOK'
  BY <1>1 DEF RunInv, OptOK, Shapes, ReaderOK
<1>6. TailOK'
  BY <1>1, <1>2, <1>4 DEF TailOK
<1>7. ASSUME NEW s \in Shard
      PROVE  /\ TaskOK(s, out[s], gens[s], job[s])'
             /\ Ids(s)' = Ids(s) \/ Total(s) = 0
  <2>1. CASE s < opt.shards
    <3>1. Ids(s)' = Ids(s)
      BY <1>1, <2>1 DEF Ids, Offset, Per
    <3>2. PICK o, g, j : o = out[s] /\ g = gens[s] /\ j = job[s]
      OBVIOUS
    <3>3. TaskOK(s, o, g, j)
      BY <3>2 DEF RunInv
    <3>4. TaskOK(s, o, g, j)'
      BY <1>1, <3>1, <3>3, Untouched
    <3> QED
      BY <1>1, <3>1, <3>2, <3>4
  <2>2. CASE ~(s < opt.shards)
    <3>1. s >= opt.shards
      BY <1>1, <2>2, Gsm8kRunAssumption DEF OptOK, Shard
    <3>2. out[s] = NoFile /\ gens[s] = NoGens /\ job[s] = NoJob
      BY <1>1, <3>1 DEF RunInv, TailOK
    <3>3. TaskOK(s, NoFile, NoGens, NoJob)'
      BY DEF TaskOK, FilesSane, JobSane, FilesSound, JobSound, NoFile
    <3>4. Ids(s) = <<>>
      BY <1>1, <2>2 DEF Ids
    <3>5. Total(s) = 0
      BY <3>4, EmptySeq DEF Total
    <3> QED
      BY <1>1, <3>2, <3>3, <3>5
  <2> QED
    BY <2>1, <2>2
<1> QED
  BY <1>5, <1>6, <1>7 DEF RunInv

\* A combine writes no file.
LEMMA CombineKeeps ==
  ASSUME RunInv,
         (\E r, glob : glob \in {"shards", "tail", "both"} /\ CombineStart(r, glob))
            \/ CombineRead \/ CombineEnd
  PROVE  RunInv'
<1>1. UNCHANGED <<opt, out, gens, job, tail>>
  BY DEF CombineStart, CombineRead, CombineEnd
<1>2. ReaderOK'
  <2>1. ASSUME NEW r, NEW glob \in {"shards", "tail", "both"}, CombineStart(r, glob)
        PROVE  ReaderOK'
    <3> DEFINE files == {s \in Matched(glob) : out[s].file}
               got == [s \in {} |-> NoFile]
    <3>1. files \subseteq Shard
      <4>1. opt.shards \in 1..MaxShards /\ opt.tail \in 0..(MaxShards - opt.shards) /\ MaxShards \in Nat
        BY Gsm8kRunAssumption DEF RunInv, OptOK
      <4>2. Tasks \subseteq Shard /\ 0..(opt.shards - 1) \subseteq Shard
        BY <4>1 DEF Tasks, Shard
      <4> QED
        BY <4>2 DEF Matched
    <3>2. DOMAIN got \subseteq Shard
      OBVIOUS
    <3>3. CASE reader' = reader
      BY <3>3 DEF RunInv, ReaderOK
    <3>4. CASE reader' = [pc |-> "read", require |-> r, left |-> files, got |-> got]
      <4> HIDE DEF files, got
      <4> QED
        BY <3>1, <3>2, <3>4 DEF ReaderOK
    <3> QED
      BY <2>1, <3>3, <3>4 DEF CombineStart
  <2>2. ASSUME CombineRead PROVE ReaderOK'
    <3>1. reader # NoReader
      BY <2>2 DEF CombineRead, NoReader
    <3>2. PICK require, left, got :
             /\ reader = [pc |-> "read", require |-> require, left |-> left, got |-> got]
             /\ left \subseteq Shard /\ DOMAIN got \subseteq Shard
      BY <3>1 DEF RunInv, ReaderOK
    <3>3. CASE reader' = NoReader
      BY <3>3 DEF ReaderOK
    <3>4. CASE reader' # NoReader
      <4> DEFINE s == CHOOSE a \in reader.left : \A b \in reader.left : a <= b
                 more == [x \in DOMAIN reader.got \cup {s} |-> IF x = s THEN out[s] ELSE reader.got[x]]
      <4>1. reader' = [reader EXCEPT !.left = @ \ {s}, !.got = more]
        BY <2>2, <3>4 DEF CombineRead
      <4>2. s \in Shard
        <5>1. left # {} /\ reader.left = left
          BY <2>2, <3>2 DEF CombineRead
        <5>2. PICK a \in left : \A b \in left : a <= b
          <6>1. left \in SUBSET Nat
            BY <3>2, Gsm8kRunAssumption DEF Shard
          <6> QED
            BY <5>1, <6>1, LeastElement
        <5> QED
          BY <3>2, <5>1, <5>2
      <4>3. DOMAIN more \subseteq Shard
        BY <3>2, <4>2
      <4> HIDE DEF s, more
      <4>4. reader' = [[reader EXCEPT !.left = @ \ {s}] EXCEPT !.got = more]
        BY <4>1
      <4>5. [reader EXCEPT !.left = @ \ {s}]
            = [pc |-> "read", require |-> require, left |-> left \ {s}, got |-> got]
        BY <3>2
      <4>6. reader' = [pc |-> "read", require |-> require, left |-> left \ {s}, got |-> more]
        BY <4>4, <4>5
      <4> QED
        BY <3>2, <4>3, <4>6 DEF ReaderOK
    <3> QED
      BY <3>3, <3>4
  <2>3. ASSUME CombineEnd PROVE ReaderOK'
    BY <2>3 DEF CombineEnd, ReaderOK
  <2> QED
    BY <2>1, <2>2, <2>3
<1>3. OptOK' /\ Shapes' /\ TailOK'
  BY <1>1 DEF RunInv, OptOK, Shapes, TailOK
<1>4. ASSUME NEW s \in Shard PROVE TaskOK(s, out[s], gens[s], job[s])'
  <2>1. PICK o, g, j : o = out[s] /\ g = gens[s] /\ j = job[s]
    OBVIOUS
  <2>2. TaskOK(s, o, g, j)
    BY <2>1 DEF RunInv
  <2>3. TaskOK(s, o, g, j)'
    BY <1>1, <2>2, Frozen, Untouched
  <2> QED
    BY <1>1, <2>1, <2>3
<1> QED
  BY <1>2, <1>3, <1>4 DEF RunInv


-----------------------------------------------------------------------------
(* Every step. *)

LEMMA InitRun == Init => RunInv
<1> SUFFICES ASSUME Init PROVE RunInv
  OBVIOUS
<1>1. PICK y \in Layouts, g \in BOOLEAN :
         opt = [n |-> y.n, shards |-> y.shards, chunk |-> y.chunk, tail |-> y.tail, gens |-> g]
  BY DEF Init
<1>2. OptOK
  BY <1>1, Gsm8kRunAssumption DEF OptOK
<1>3. /\ \A s \in Shard : out[s] = NoFile /\ gens[s] = NoGens /\ job[s] = NoJob
      /\ reader = NoReader /\ tail = NoTail
  BY DEF Init
<1>4. Shapes
  BY DEF Init, Shapes
<1>5. TailOK /\ ReaderOK
  BY <1>3 DEF TailOK, ReaderOK
<1>6. \A s : TaskOK(s, NoFile, NoGens, NoJob)
  BY DEF TaskOK, FilesSane, JobSane, FilesSound, JobSound, NoFile
<1> QED
  BY <1>2, <1>3, <1>4, <1>5, <1>6 DEF RunInv

LEMMA StutterRun == RunInv /\ UNCHANGED vars => RunInv'
<1> SUFFICES ASSUME RunInv, UNCHANGED vars PROVE RunInv'
  OBVIOUS
<1>1. OptOK' /\ Shapes' /\ TailOK' /\ ReaderOK'
  BY DEF RunInv, OptOK, Shapes, TailOK, ReaderOK, vars
<1>2. ASSUME NEW s \in Shard PROVE TaskOK(s, out[s], gens[s], job[s])'
  <2>1. PICK o, g, j : o = out[s] /\ g = gens[s] /\ j = job[s]
    OBVIOUS
  <2>2. TaskOK(s, o, g, j)
    BY <2>1 DEF RunInv
  <2>3. TaskOK(s, o, g, j)'
    BY <2>2, Frozen, Untouched DEF vars
  <2> QED
    BY <2>1, <2>3 DEF vars
<1> QED
  BY <1>1, <1>2 DEF RunInv

LEMMA NextRun == RunInv /\ [Next]_vars => RunInv'
<1> SUFFICES ASSUME RunInv, [Next]_vars PROVE RunInv'
  OBVIOUS
<1>1. ASSUME NEW s \in Shard, Launch(s) PROVE RunInv'
  BY <1>1, LaunchKeeps
<1>2. ASSUME NEW s \in Shard, LaunchEmpty(s) PROVE RunInv'
  BY <1>2, LaunchEmptyKeeps
<1>3. ASSUME NEW s \in Shard, Ask(s) PROVE RunInv'
  BY <1>3, AskKeeps
<1>4. ASSUME NEW s \in Shard, WriteOut(s) PROVE RunInv'
  BY <1>4, WriteOutKeeps
<1>5. ASSUME NEW s \in Shard, WriteGens(s) PROVE RunInv'
  BY <1>5, WriteGensKeeps
<1>6. ASSUME NEW s \in Shard, Exit(s) \/ Kill(s) PROVE RunInv'
  BY <1>6, EndKeeps
<1>7. ASSUME NEW r \in BOOLEAN, CombineStart(r, "shards") PROVE RunInv'
  BY <1>7, CombineKeeps
<1>8. ASSUME NEW glob \in {"tail", "both"}, CombineStart(TRUE, glob) PROVE RunInv'
  BY <1>8, CombineKeeps
<1>9. ASSUME CombineRead \/ CombineEnd PROVE RunInv'
  BY <1>9, CombineKeeps
<1>10. ASSUME NEW slow, Reshard(slow) PROVE RunInv'
  BY <1>10, ReshardKeeps
<1>11. ASSUME UNCHANGED vars PROVE RunInv'
  BY <1>11, StutterRun
<1> QED
  BY <1>1, <1>2, <1>3, <1>4, <1>5, <1>6, <1>7, <1>8, <1>9, <1>10, <1>11 DEF Next, JobStep

LEMMA RunInvariant == Spec => []RunInv
BY InitRun, NextRun, PTL DEF Spec

\* Both files of a task count each of its questions once and tell of the same
\* ones but for the last chunk, however often its jobs are killed, between
\* whichever two writes, and from whichever file they resume.
THEOREM FilesAreExact == Spec => []FilesExact
<1>1. RunInv => FilesExact
  <2> SUFFICES ASSUME RunInv PROVE FilesExact
    OBVIOUS
  <2>1. ASSUME NEW s \in Shard
        PROVE  /\ FilesSane(s, out[s], gens[s]) /\ JobSane(s, gens[s], job[s])
               /\ ~Spoilt(s) => FilesSound(s, out[s], gens[s])
               /\ Total(s) \in Nat /\ OptOK
               /\ job[s] # NoJob => job[s] \in Jobs
    BY ShapesOf DEF TaskOK, Spoilt, SpoiltBy
  <2>2. TypeOK
    <3>1. ASSUME NEW s \in Shard
          PROVE  /\ out[s].file => {out[s].done, out[s].correct, out[s].invalid} \subseteq 0..Total(s)
                 /\ gens[s] # NoGens => Len(gens[s]) <= Total(s)
                 /\ job[s] # NoJob => /\ job[s].pc \in {"ask", "out", "gens"}
                                     /\ job[s].done \in 0..Total(s)
      <4>1. out[s].file => {out[s].done, out[s].correct, out[s].invalid} \subseteq 0..Total(s)
        BY <2>1 DEF FilesSane
      <4>2. gens[s] # NoGens => Len(gens[s]) <= Total(s)
        BY <2>1 DEF FilesSane
      <4>3. ASSUME job[s] # NoJob
            PROVE  job[s].pc \in {"ask", "out", "gens"} /\ job[s].done \in 0..Total(s)
        <5>1. job[s].pc \in {"ask", "out", "gens"} /\ job[s].done \in Nat
          BY <2>1, <4>3 DEF Jobs
        <5>2. PICK p \in Nat : Aligned(s, p) /\ job[s].done <= p
          BY <2>1, <4>3 DEF JobSane
        <5> QED
          BY <2>1, <5>1, <5>2 DEF Aligned
      <4> QED
        BY <4>1, <4>2, <4>3
    <3>2. reader # NoReader => reader.left \subseteq Shard /\ DOMAIN reader.got \subseteq Shard
      BY DEF RunInv, ReaderOK
    <3> QED
      BY <3>1, <3>2 DEF TypeOK
  <2>3. ResultExact
    BY <2>1 DEF ResultExact, FilesSound, Scored
  <2>4. FilesAgree
    BY <2>1 DEF FilesAgree, FilesSound
  <2> QED
    BY <2>2, <2>3, <2>4 DEF FilesExact
<1> QED
  BY <1>1, RunInvariant, PTL

-----------------------------------------------------------------------------
(* No saved work is lost. *)

LEMMA ToSetJoin ==
  ASSUME NEW x \in Questions, NEW y \in Questions
  PROVE  ToSet(x \o y) = ToSet(x) \cup ToSet(y)
<1>1. Len(x) \in Nat /\ Len(y) \in Nat
  BY LenProperties DEF Questions
<1> DEFINE z == x \o y
<1>2. /\ z \in Questions /\ Len(z) = Len(x) + Len(y)
      /\ \A i \in 1..(Len(x) + Len(y)) : z[i] = IF i <= Len(x) THEN x[i] ELSE y[i - Len(x)]
  BY ConcatProperties DEF Questions
<1>3. \A q : q \in ToSet(z) <=> \E i \in 1..Len(z) : z[i] = q
  BY <1>2, ToSetIs
<1> HIDE DEF z
<1>4. ASSUME NEW q \in ToSet(z) PROVE q \in ToSet(x) \cup ToSet(y)
  <2>1. PICK i \in 1..Len(z) : z[i] = q
    BY <1>3, <1>4
  <2>2. CASE i <= Len(x)
    BY <1>1, <1>2, <2>1, <2>2, ToSetIs
  <2>3. CASE ~(i <= Len(x))
    <3>1. i - Len(x) \in 1..Len(y) /\ y[i - Len(x)] = q
      BY <1>1, <1>2, <2>1, <2>3
    <3> QED
      BY <3>1, ToSetIs
  <2> QED
    BY <2>2, <2>3
<1>5. ASSUME NEW q \in ToSet(x) PROVE q \in ToSet(z)
  <2>1. PICK i \in 1..Len(x) : x[i] = q
    BY <1>5, ToSetIs
  <2>2. i \in 1..Len(z) /\ z[i] = q
    BY <1>1, <1>2, <2>1
  <2> QED
    BY <1>3, <2>2
<1>6. ASSUME NEW q \in ToSet(y) PROVE q \in ToSet(z)
  <2>1. PICK i \in 1..Len(y) : y[i] = q
    BY <1>6, ToSetIs
  <2>2. i + Len(x) \in 1..Len(z) /\ ~(i + Len(x) <= Len(x)) /\ i + Len(x) - Len(x) = i
    BY <1>1, <1>2, <2>1
  <2>3. z[i + Len(x)] = q
    BY <1>1, <1>2, <2>1, <2>2
  <2> QED
    BY <1>3, <2>2, <2>3
<1>7. ToSet(z) = ToSet(x) \cup ToSet(y)
  BY <1>4, <1>5, <1>6
<1> QED
  BY <1>7 DEF z

\* A chunk that is not full is one that asks its first question again.
Batch(y, c) == [k \in 1..c |-> y[IF k <= Len(y) THEN k ELSE 1]]

LEMMA BatchIs ==
  ASSUME NEW y \in Questions, NEW c \in Nat, 1 <= Len(y), Len(y) <= c
  PROVE  /\ Batch(y, c) \in [1..c -> ToSet(y)]
         /\ {Batch(y, c)[k] : k \in 1..c} = ToSet(y)
<1>1. Len(y) \in Nat
  BY LenProperties DEF Questions
<1>2. \A k \in 1..c : y[IF k <= Len(y) THEN k ELSE 1] \in ToSet(y)
  <2>1. \A k \in 1..c : (IF k <= Len(y) THEN k ELSE 1) \in 1..Len(y)
    BY <1>1
  <2> QED
    BY <2>1, ToSetIs
<1>3. Batch(y, c) \in [1..c -> ToSet(y)]
  BY <1>2 DEF Batch
<1>4. \A k \in 1..Len(y) : k \in 1..c /\ Batch(y, c)[k] = y[k]
  BY <1>1 DEF Batch
<1>5. \A q \in ToSet(y) : \E k \in 1..c : Batch(y, c)[k] = q
  BY <1>4, ToSetIs
<1> QED
  BY <1>3, <1>5

LEMMA ToSetNone == ToSet(<<>>) = {}
  BY DEF ToSet

\* A task whose files and job stay is seen by Checkpoint as before.
LEMMA SameTask ==
  ASSUME NEW s, UNCHANGED <<opt, tail>>,
         out'[s] = out[s], gens'[s] = gens[s], job'[s] = job[s]
  PROVE  /\ ToSet(Ids(s))' = ToSet(Ids(s)) /\ Saved(s)' = Saved(s)
         /\ Lost(s)' = Lost(s) /\ Closed(s)' = Closed(s)
<1>1. Ids(s)' = Ids(s) /\ Total(s)' = Total(s)
  BY Frozen
<1>2. Saved(s)' = Saved(s)
  BY <1>1 DEF Saved, Slice
<1>3. Lost(s)' = Lost(s)
  BY <1>1 DEF Lost, Spoilt, FirstAnswersDue
<1>4. Closed(s)' = Closed(s)
  BY <1>1 DEF Closed, Resume
<1> QED
  BY <1>1, <1>2, <1>3, <1>4

LEMMA Booleans == \A s : Lost(s) \in BOOLEAN /\ Closed(s) \in BOOLEAN
  BY DEF Lost, Closed

\* So it is enough to look at the task that takes the step: it saves some of
\* its questions, or is closed, or loses its first answers, or none of these.
LEMMA OneShard ==
  ASSUME UNCHANGED <<opt, tail>>, NEW s \in Shard,
         \A t \in Shard \ {s} : out'[t] = out[t] /\ gens'[t] = gens[t] /\ job'[t] = job[t]
  PROVE  /\ /\ ~Closed(s) /\ Lost(s)' = Lost(s) /\ Closed(s)' = Closed(s)
            /\ \E batch \in [1..opt.chunk -> ToSet(Ids(s))] :
                  Saved(s)' = Saved(s) \cup {batch[i] : i \in 1..opt.chunk}
            => Ckpt!Save(s)
         /\ /\ ~Closed(s) /\ Closed(s)' /\ Saved(s)' = Saved(s) /\ Lost(s)' = Lost(s)
            /\ Saved(s) = ToSet(Ids(s)) \/ Lost(s)
            => Ckpt!Close(s)
         /\ /\ ~Closed(s) /\ ~Lost(s) /\ Lost(s)' /\ Saved(s) = {} /\ Saved(s)' = {}
            => Ckpt!Lose(s)
         /\ Saved(s)' = Saved(s) /\ Lost(s)' = Lost(s) /\ Closed(s)' = Closed(s)
            => UNCHANGED Ckpt!vars
<1> DEFINE owed == [t \in Shard |-> ToSet(Ids(t))]
           saved == [t \in Shard |-> Saved(t)]
           lost == [t \in Shard |-> Lost(t)]
           closed == [t \in Shard |-> Closed(t)]
<1>1. \A t \in Shard : ToSet(Ids(t))' = ToSet(Ids(t))
  BY Frozen
<1>2. \A t \in Shard \ {s} : Saved(t)' = Saved(t) /\ Lost(t)' = Lost(t) /\ Closed(t)' = Closed(t)
  BY SameTask
<1>3. owed' = owed /\ opt.chunk' = opt.chunk
  BY <1>1
<1>4. saved' = [saved EXCEPT ![s] = Saved(s)']
  BY <1>2
<1>5. lost' = [lost EXCEPT ![s] = Lost(s)']
  BY <1>2
<1>6. closed' = [closed EXCEPT ![s] = Closed(s)']
  BY <1>2
<1>7. owed[s] = ToSet(Ids(s)) /\ saved[s] = Saved(s) /\ lost[s] = Lost(s) /\ closed[s] = Closed(s)
  OBVIOUS
<1>8. /\ Saved(s)' = Saved(s) => saved' = saved
      /\ Lost(s)' = Lost(s) => lost' = lost
      /\ Closed(s)' = Closed(s) => closed' = closed
  BY <1>2
<1>9. Closed(s)' \in BOOLEAN /\ Lost(s)' \in BOOLEAN
  BY DEF Lost, Closed
<1>10. Closed(s) \in BOOLEAN /\ Lost(s) \in BOOLEAN
  BY Booleans
<1> HIDE DEF owed, saved, lost, closed
<1>11. ASSUME ~Closed(s), Lost(s)' = Lost(s), Closed(s)' = Closed(s),
              NEW batch \in [1..opt.chunk -> ToSet(Ids(s))],
              Saved(s)' = Saved(s) \cup {batch[i] : i \in 1..opt.chunk}
       PROVE  Ckpt!Save(s)
  <2>1. ~closed[s] /\ lost' = lost /\ closed' = closed
    BY <1>7, <1>8, <1>11
  <2>2. /\ batch \in [1..opt.chunk -> owed[s]]
        /\ saved' = [saved EXCEPT ![s] = @ \cup {batch[i] : i \in 1..opt.chunk}]
    BY <1>4, <1>7, <1>11
  <2>3. \E b \in [1..opt.chunk -> owed[s]] :
           saved' = [saved EXCEPT ![s] = @ \cup {b[i] : i \in 1..opt.chunk}]
    BY <2>2
  <2> QED
    BY <1>3, <2>1, <2>3 DEF Ckpt!Save, owed, saved, lost, closed
<1>12. ASSUME ~Closed(s), Closed(s)', Saved(s)' = Saved(s), Lost(s)' = Lost(s),
              Saved(s) = ToSet(Ids(s)) \/ Lost(s)
       PROVE  Ckpt!Close(s)
  <2>1. Closed(s)' = TRUE
    BY <1>9, <1>12
  <2>2. /\ ~closed[s] /\ (saved[s] = owed[s] \/ lost[s])
        /\ closed' = [closed EXCEPT ![s] = TRUE] /\ saved' = saved /\ lost' = lost
    BY <1>6, <1>7, <1>8, <1>12, <2>1
  <2> QED
    BY <1>3, <2>2 DEF Ckpt!Close, owed, saved, lost, closed
<1>13. ASSUME ~Closed(s), ~Lost(s), Lost(s)', Saved(s) = {}, Saved(s)' = {}
       PROVE  Ckpt!Lose(s)
  <2>1. Lost(s)' = TRUE
    BY <1>9, <1>13
  <2>2. /\ ~closed[s] /\ ~lost[s] /\ saved[s] = {}
        /\ lost' = [lost EXCEPT ![s] = TRUE] /\ saved' = saved
    BY <1>5, <1>7, <1>8, <1>13, <2>1
  <2>3. closed' \in {closed, [closed EXCEPT ![s] = TRUE]}
    <3>1. CASE Closed(s)'
      <4>1. Closed(s)' = TRUE
        BY <1>9, <3>1
      <4> QED
        BY <1>6, <4>1
    <3>2. CASE ~Closed(s)'
      <4>1. Closed(s)' = Closed(s)
        BY <1>9, <1>10, <1>13, <3>2
      <4> QED
        BY <1>8, <4>1
    <3> QED
      BY <3>1, <3>2
  <2> QED
    BY <1>3, <2>2, <2>3 DEF Ckpt!Lose, owed, saved, lost, closed
<1>14. ASSUME Saved(s)' = Saved(s), Lost(s)' = Lost(s), Closed(s)' = Closed(s)
       PROVE  UNCHANGED Ckpt!vars
  <2>1. saved' = saved /\ lost' = lost /\ closed' = closed
    BY <1>8, <1>14
  <2> QED
    BY <1>3, <2>1 DEF Ckpt!vars, owed, saved, lost, closed
<1> QED
  BY <1>11, <1>12, <1>13, <1>14

\* A step that writes no file and moves no job saves nothing.
LEMMA SavesNothing ==
  ASSUME UNCHANGED <<opt, out, gens, job, tail>>
  PROVE  UNCHANGED Ckpt!vars
<1>1. \A t : /\ ToSet(Ids(t))' = ToSet(Ids(t)) /\ Saved(t)' = Saved(t)
             /\ Lost(t)' = Lost(t) /\ Closed(t)' = Closed(t)
  BY SameTask
<1> QED
  BY <1>1 DEF Ckpt!vars

\* What has been saved, and what a launch would find, when no file is written.
LEMMA FilesStay ==
  ASSUME UNCHANGED <<opt, tail>>, NEW s \in Shard, out'[s] = out[s], gens'[s] = gens[s]
  PROVE  /\ Saved(s)' = Saved(s) /\ Spoilt(s)' = Spoilt(s)
         /\ Resume(s)' = Resume(s) /\ Total(s)' = Total(s)
         /\ FirstAnswersDue(s)' = FirstAnswersDue(s) => Lost(s)' = Lost(s)
<1>1. Ids(s)' = Ids(s) /\ Total(s)' = Total(s)
  BY Frozen
<1>2. Saved(s)' = Saved(s)
  BY <1>1 DEF Saved, Slice
<1>3. Spoilt(s)' = Spoilt(s)
  BY <1>1 DEF Spoilt
<1>4. Resume(s)' = Resume(s)
  BY DEF Resume
<1>5. FirstAnswersDue(s)' = FirstAnswersDue(s) => Lost(s)' = Lost(s)
  BY <1>3 DEF Lost
<1> QED
  BY <1>1, <1>2, <1>3, <1>4, <1>5

\* A shard that a launch finds complete has an answer to each question, or
\* has lost its first ones.
LEMMA CompleteIs ==
  ASSUME RunInv, NEW s \in Shard, Total(s) > 0, Resume(s).done >= Total(s)
  PROVE  \/ Saved(s) = ToSet(Ids(s))
         \/ Spoilt(s)
         \/ opt.gens /\ gens[s] = NoGens /\ out[s].file /\ out[s].done > 0
<1>1. /\ OptOK /\ TailOK /\ Total(s) \in Nat /\ FilesSane(s, out[s], gens[s])
      /\ ~SpoiltBy(s, gens[s]) => FilesSound(s, out[s], gens[s])
      /\ out[s].file => out[s] \in Results
  BY ShapesOf DEF TaskOK
<1>2. Slice(s, 0, Total(s)) = Ids(s)
  BY <1>1, SliceAll
<1>3. CASE opt.gens /\ gens[s] # NoGens
  <2>1. SUFFICES ASSUME ~Spoilt(s) PROVE Saved(s) = ToSet(Ids(s))
    OBVIOUS
  <2>2. ~SpoiltBy(s, gens[s])
    BY <2>1 DEF SpoiltBy, Spoilt
  <2>3. gens[s] = Slice(s, 0, Len(gens[s])) /\ Len(gens[s]) \in 1..Total(s)
    BY <1>1, <1>3, <2>2 DEF FilesSound, FilesSane
  <2>4. Len(gens[s]) >= Total(s)
    BY <1>3 DEF Resume
  <2>5. Len(gens[s]) = Total(s)
    BY <1>1, <2>3, <2>4
  <2>6. gens[s] = Ids(s)
    BY <1>2, <2>3, <2>5
  <2> QED
    BY <1>3, <2>6 DEF Saved
<1>4. CASE ~(opt.gens /\ gens[s] # NoGens) /\ out[s].file
  <2>1. Resume(s).done = out[s].done
    BY <1>4 DEF Resume
  <2>2. out[s].done \in 0..Total(s)
    BY <1>1, <1>4 DEF FilesSane
  <2>3. out[s].done = Total(s)
    BY <1>1, <2>1, <2>2
  <2>4. ~opt.gens => Saved(s) = ToSet(Ids(s))
    BY <1>2, <1>4, <2>3 DEF Saved
  <2> QED
    BY <1>1, <1>4, <2>3, <2>4
<1>5. CASE ~(opt.gens /\ gens[s] # NoGens) /\ ~out[s].file
  <2>1. Resume(s).done = 0
    BY <1>5 DEF Resume
  <2> QED
    BY <1>1, <2>1
<1> QED
  BY <1>3, <1>4, <1>5

LEMMA LaunchSaves ==
  ASSUME RunInv, NEW s \in Shard, Launch(s) \/ Ask(s)
  PROVE  UNCHANGED Ckpt!vars
<1>1. /\ UNCHANGED <<opt, out, gens, tail>>
      /\ \A t \in Shard \ {s} : job'[t] = job[t]
      /\ job[s].pc # "gens" /\ job'[s].pc \in {"ask", "out"}
  BY DEF Launch, Ask, RunInv, Shapes, NoJob
<1>2. ~FirstAnswersDue(s) /\ ~FirstAnswersDue(s)'
  BY <1>1 DEF FirstAnswersDue
<1>3. ~Closed(s)
  <2>1. CASE Launch(s)
    <3>1. Resume(s).done \in 0..Total(s) /\ Total(s) \in Nat
      BY ResumeIs, ShapesOf
    <3> QED
      BY <2>1, <3>1 DEF Closed, Launch
  <2>2. CASE Ask(s)
    BY <2>2 DEF Closed, Ask, NoJob
  <2> QED
    BY <2>1, <2>2
<1>4. ~Closed(s)'
  BY <1>1 DEF Closed, NoJob
<1>5. Saved(s)' = Saved(s)
  BY <1>1, FilesStay
<1>6. Lost(s)' = Lost(s)
  <2>1. FirstAnswersDue(s)' = FirstAnswersDue(s)
    BY <1>2 DEF FirstAnswersDue
  <2> QED
    BY <1>1, <2>1, FilesStay
<1>7. Closed(s)' = Closed(s)
  BY <1>3, <1>4 DEF Closed
<1> QED
  BY <1>1, <1>5, <1>6, <1>7, OneShard

LEMMA LaunchEmptySaves ==
  ASSUME RunInv, NEW s \in Shard, LaunchEmpty(s)
  PROVE  UNCHANGED Ckpt!vars
<1>1. UNCHANGED <<opt, gens, job, tail>> /\ Total(s) = 0 /\ ~out[s].file
  BY DEF LaunchEmpty
<1>2. out'[s].file /\ out'[s].done = 0 /\ \A t \in Shard \ {s} : out'[t] = out[t]
  BY DEF LaunchEmpty, RunInv, Shapes
<1>3. Total(s)' = 0 /\ gens[s] = NoGens
  BY <1>1, Frozen, ShapesOf DEF TaskOK, FilesSane
<1>4. ~Lost(s) /\ ~Lost(s)' /\ ~Closed(s) /\ ~Closed(s)'
  BY <1>1, <1>2, <1>3 DEF Lost, Spoilt, Closed
<1>5. Lost(s)' = Lost(s) /\ Closed(s)' = Closed(s)
  BY <1>4 DEF Lost, Closed
<1>6. Saved(s)' = {} /\ Saved(s) = {}
  <2>1. Slice(s, 0, 0)' = <<>>
    BY SubSeqEmpty DEF Slice
  <2> QED
    BY <1>1, <1>2, <1>3, <2>1, ToSetNone DEF Saved
<1> QED
  BY <1>1, <1>2, <1>5, <1>6, OneShard

\* A job that leaves its shard: it may be complete, or dies before the first
\* answers are saved.
LEMMA EndSaves ==
  ASSUME RunInv, NEW s \in Shard, Exit(s) \/ Kill(s)
  PROVE  Ckpt!Close(s) \/ Ckpt!Lose(s) \/ UNCHANGED Ckpt!vars
<1>1. /\ UNCHANGED <<opt, out, gens, tail>> /\ job[s] # NoJob /\ job'[s] = NoJob
      /\ \A t \in Shard \ {s} : job'[t] = job[t]
  BY DEF Exit, Kill, NoJob, RunInv, Shapes
<1>2. /\ Saved(s)' = Saved(s) /\ Spoilt(s)' = Spoilt(s)
      /\ Resume(s)' = Resume(s) /\ Total(s)' = Total(s)
  BY <1>1, FilesStay
<1>3. ~Closed(s) /\ ~FirstAnswersDue(s)'
  BY <1>1 DEF Closed, FirstAnswersDue, NoJob
<1>4. Lost(s)' <=> Spoilt(s) \/ (opt.gens /\ gens[s] = NoGens /\ out[s].file /\ out[s].done > 0)
  BY <1>1, <1>2, <1>3 DEF Lost
<1>5. CASE Lost(s)' = Lost(s)
  <2>1. CASE Closed(s)'
    <3>1. Total(s) > 0 /\ Resume(s).done >= Total(s)
      BY <1>2, <2>1 DEF Closed
    <3>2. Saved(s) = ToSet(Ids(s)) \/ Lost(s)'
      BY <1>4, <3>1, CompleteIs
    <3> QED
      BY <1>1, <1>2, <1>3, <1>5, <2>1, <3>2, OneShard
  <2>2. CASE ~Closed(s)'
    <3>1. Closed(s)' = Closed(s)
      BY <1>3, <2>2 DEF Closed
    <3> QED
      BY <1>1, <1>2, <1>5, <3>1, OneShard
  <2> QED
    BY <2>1, <2>2
<1>6. CASE Lost(s)' # Lost(s)
  <2>1. ~Lost(s) /\ Lost(s)'
    <3>1. Lost(s) => Lost(s)'
      BY <1>4 DEF Lost
    <3>2. Lost(s)' \in BOOLEAN
      BY DEF Lost
    <3> QED
      BY <1>6, <3>1, <3>2, Booleans
  <2>2. opt.gens /\ gens[s] = NoGens
    BY <1>4, <2>1 DEF Lost
  <2>3. Saved(s) = {} /\ Saved(s)' = {}
    BY <1>2, <2>2 DEF Saved
  <2> QED
    BY <1>1, <1>3, <2>1, <2>3, OneShard
<1> QED
  BY <1>5, <1>6

\* The task's first question is only in its first chunk.
LEMMA FirstIs ==
  ASSUME RunInv, NEW s \in Shard, job[s].pc \in {"out", "gens"}, gens[s] = NoGens
  PROVE  LET i == job[s]
             b == i.done - Len(i.asked)
         IN  /\ b \in Nat /\ b < i.done /\ i.done <= Total(s)
             /\ i.asked = Slice(s, b, i.done) /\ Len(i.asked) = i.done - b
             /\ i.asked[1] = Ids(s)[1] <=> b = 0
             /\ i.done = Len(i.asked) <=> b = 0
             /\ i.pc = "out" => b = IF out[s].file THEN out[s].done ELSE 0
             /\ i.pc = "gens" => out[s].file /\ out[s].done = i.done
<1> DEFINE i == job[s]
           b == i.done - Len(i.asked)
<1>1. /\ i \in Jobs /\ i # NoJob /\ Total(s) \in Nat
      /\ i.done \in Nat /\ i.done <= Total(s)
      /\ Len(i.asked) \in Nat /\ 1 <= Len(i.asked)
  BY SavingJob
<1>2. JobSound(s, out[s], gens[s], i) /\ OptOK /\ TailOK
  BY ShapesOf DEF TaskOK, SpoiltBy
<1>3. i.pc \in {"out", "gens"}
  OBVIOUS
<1> HIDE DEF i
<1>4. Behind(i) = b
  BY <1>3 DEF Behind
<1>5. /\ Aligned(s, b) /\ i.asked = Slice(s, b, i.done)
      /\ i.pc = "out" => b = IF out[s].file THEN out[s].done ELSE 0
      /\ i.pc = "gens" => out[s].file /\ out[s].done = i.done
  BY <1>1, <1>2, <1>3, <1>4 DEF JobSound
<1>6. b \in Nat /\ b < i.done /\ Len(i.asked) = i.done - b
  BY <1>1, <1>5 DEF Aligned
<1>7. i.done = Len(i.asked) <=> b = 0
  BY <1>1
<1>8. i.asked[1] = Ids(s)[b + 1]
  <2>1. 1 \in 1..(i.done - b) /\ b <= i.done
    BY <1>1, <1>6
  <2> HIDE DEF b
  <2>2. \A k \in 1..(i.done - b) : Slice(s, b, i.done)[k] = Ids(s)[b + k]
    BY <1>1, <1>2, <1>6, <2>1, SliceIs
  <2> QED
    BY <1>5, <2>1, <2>2
<1>9. i.asked[1] = Ids(s)[1] <=> b = 0
  <2>1. Ids(s) \in Questions /\ Distinct(Ids(s)) /\ DOMAIN Ids(s) = 1..Total(s)
    BY <1>2, IdsIs, LenProperties DEF Total, Questions
  <2>2. b + 1 \in 1..Total(s) /\ 1 \in 1..Total(s)
    BY <1>1, <1>6
  <2>3. Ids(s)[b + 1] = Ids(s)[1] => b + 1 = 1
    BY <2>1, <2>2 DEF Distinct
  <2> HIDE DEF b
  <2> QED
    BY <1>6, <1>8, <2>3
<1> HIDE DEF b
<1> QED
  BY <1>1, <1>5, <1>6, <1>7, <1>9 DEF i, b

\* Without answers files, the result saves the chunk.  With them it does not,
\* and the first result makes the first answers due.
LEMMA WriteOutSaves ==
  ASSUME RunInv, NEW s \in Shard, WriteOut(s)
  PROVE  Ckpt!Save(s) \/ UNCHANGED Ckpt!vars
<1> DEFINE i == job[s]
<1>1. UNCHANGED <<opt, gens, tail>> /\ i.pc = "out" /\ i # NoJob
  BY DEF WriteOut, NoJob
<1>2. /\ out'[s].file /\ out'[s].done = i.done
      /\ job'[s] = [i EXCEPT !.pc = IF opt.gens THEN "gens" ELSE "ask"]
      /\ \A t \in Shard \ {s} : out'[t] = out[t] /\ job'[t] = job[t]
  BY DEF WriteOut, RunInv, Shapes
<1>3. i \in Jobs
  BY <1>1, ShapesOf
<1>4. /\ job'[s].pc = IF opt.gens THEN "gens" ELSE "ask"
      /\ job'[s].done = i.done /\ job'[s].asked = i.asked
  BY <1>2, <1>3 DEF Jobs
<1>5. ~Closed(s) /\ ~Closed(s)'
  BY <1>1, <1>4 DEF Closed, NoJob
<1>6. Closed(s)' = Closed(s)
  BY <1>5 DEF Closed
<1>7. Spoilt(s)' = Spoilt(s)
  BY <1>1, Frozen DEF Spoilt
<1>8. /\ Total(s) \in Nat /\ i.done \in Nat /\ i.done <= Total(s)
      /\ opt.chunk \in Nat \ {0} /\ i.asked \in Questions
      /\ Len(i.asked) \in Nat /\ 1 <= Len(i.asked) /\ Len(i.asked) <= opt.chunk
      /\ ToSet(i.asked) \subseteq ToSet(Ids(s))
  BY <1>1, SavingJob
<1>9. OptOK /\ TailOK /\ FilesSane(s, out[s], gens[s])
  BY ShapesOf DEF TaskOK
<1> DEFINE b == i.done - Len(i.asked)
<1>10. ASSUME gens[s] = NoGens
       PROVE  /\ b \in Nat /\ b < i.done /\ i.asked = Slice(s, b, i.done)
              /\ i.done = Len(i.asked) <=> b = 0
              /\ b = IF out[s].file THEN out[s].done ELSE 0
  BY <1>1, <1>10, FirstIs
<1> HIDE DEF i, b
<1>11. CASE opt.gens
  <2>1. Saved(s)' = Saved(s)
    BY <1>1, <1>11 DEF Saved
  <2>2. CASE gens[s] # NoGens
    <3>1. Lost(s)' = Lost(s)
      BY <1>1, <1>7, <2>2 DEF Lost
    <3> QED
      BY <1>1, <1>2, <1>6, <2>1, <3>1, OneShard
  <2>3. CASE gens[s] = NoGens
    <3>1. FirstAnswersDue(s)' <=> b = 0
      BY <1>4, <1>10, <1>11, <2>3 DEF FirstAnswersDue
    <3>2. ~FirstAnswersDue(s)
      BY <1>1 DEF FirstAnswersDue, i
    <3>3. Lost(s)' <=> b # 0
      BY <1>1, <1>2, <1>7, <1>8, <1>10, <1>11, <2>3, <3>1 DEF Lost, Spoilt
    <3>4. Lost(s) <=> b # 0
      BY <1>10, <1>11, <2>3, <3>2 DEF Lost, Spoilt
    <3>5. Lost(s)' = Lost(s)
      BY <3>3, <3>4 DEF Lost
    <3> QED
      BY <1>1, <1>2, <1>6, <2>1, <3>5, OneShard
  <2> QED
    BY <2>2, <2>3
<1>12. CASE ~opt.gens
  <2>1. gens[s] = NoGens
    BY <1>9, <1>12 DEF FilesSane
  <2>2. ~Lost(s) /\ ~Lost(s)'
    BY <1>1, <1>12, <2>1 DEF Lost, Spoilt
  <2>3. Lost(s)' = Lost(s)
    BY <2>2 DEF Lost
  <2>4. Saved(s) = ToSet(Slice(s, 0, b))
    <3>1. Slice(s, 0, 0) = <<>>
      BY SliceEmpty
    <3> QED
      BY <1>10, <1>12, <2>1, <3>1, ToSetNone DEF Saved
  <2>5. Saved(s)' = ToSet(Slice(s, 0, i.done))
    <3>1. \A x, y : Slice(s, x, y)' = Slice(s, x, y)
      BY <1>1, Frozen DEF Slice
    <3> QED
      BY <1>1, <1>2, <1>12, <3>1 DEF Saved, i
  <2>6. Slice(s, 0, i.done) = Slice(s, 0, b) \o i.asked
    <3>1. b \in Nat /\ 0 <= b /\ b <= i.done /\ i.asked = Slice(s, b, i.done)
      BY <1>8, <1>10, <2>1
    <3>2. Slice(s, 0, b) \o Slice(s, b, i.done) = Slice(s, 0, i.done)
      BY <1>8, <1>9, <3>1, SliceJoin
    <3> QED
      BY <3>1, <3>2
  <2>7. Slice(s, 0, b) \in Questions
    <3>1. b \in Nat /\ 0 <= b /\ b <= Total(s)
      BY <1>8, <1>10, <2>1
    <3> QED
      BY <1>9, <3>1, SliceIs
  <2>8. Saved(s)' = Saved(s) \cup ToSet(i.asked)
    <3>1. ToSet(Slice(s, 0, b) \o i.asked) = ToSet(Slice(s, 0, b)) \cup ToSet(i.asked)
      BY <1>8, <2>7, ToSetJoin
    <3> QED
      BY <2>4, <2>5, <2>6, <3>1
  <2>9. \E batch \in [1..opt.chunk -> ToSet(Ids(s))] :
           Saved(s)' = Saved(s) \cup {batch[k] : k \in 1..opt.chunk}
    <3>1. /\ opt.chunk \in Nat /\ i.asked \in Questions /\ ToSet(i.asked) \subseteq ToSet(Ids(s))
          /\ 1 <= Len(i.asked) /\ Len(i.asked) <= opt.chunk
      BY <1>8
    <3>2. /\ Batch(i.asked, opt.chunk) \in [1..opt.chunk -> ToSet(i.asked)]
          /\ {Batch(i.asked, opt.chunk)[k] : k \in 1..opt.chunk} = ToSet(i.asked)
      BY <3>1, BatchIs
    <3>3. Batch(i.asked, opt.chunk) \in [1..opt.chunk -> ToSet(Ids(s))]
      BY <3>1, <3>2
    <3> QED
      BY <2>8, <3>2, <3>3
  <2> QED
    BY <1>1, <1>2, <1>5, <1>6, <2>3, <2>9, OneShard
<1> QED
  BY <1>11, <1>12

\* With them, the answers do: if they are the task's first they begin with
\* its first question, or it has lost them.
LEMMA WriteGensSaves ==
  ASSUME RunInv, NEW s \in Shard, WriteGens(s)
  PROVE  Ckpt!Save(s)
<1> DEFINE i == job[s]
<1>1. /\ UNCHANGED <<opt, out, tail>> /\ i.pc = "gens" /\ i # NoJob
      /\ gens' = [gens EXCEPT ![s] = i.gens \o i.asked]
  BY DEF WriteGens, NoJob
<1>2. /\ gens'[s] = i.gens \o i.asked /\ job'[s].pc = "ask"
      /\ \A t \in Shard \ {s} : gens'[t] = gens[t] /\ job'[t] = job[t]
  <2>1. i \in Jobs
    BY <1>1, ShapesOf
  <2> QED
    BY <2>1 DEF WriteGens, RunInv, Shapes, Jobs
<1>3. /\ opt.gens
      /\ opt.chunk \in Nat \ {0} /\ Total(s) \in Nat
      /\ IF i.gens = <<>> THEN gens[s] = NoGens ELSE gens[s] = i.gens
      /\ i.gens \in Questions /\ i.asked \in Questions
      /\ Len(i.asked) \in Nat /\ 1 <= Len(i.asked) /\ Len(i.asked) <= opt.chunk
      /\ ToSet(i.asked) \subseteq ToSet(Ids(s))
  BY <1>1, SavingJob
<1>4. ~Closed(s) /\ ~Closed(s)'
  BY <1>1, <1>2 DEF Closed, NoJob
<1>5. Closed(s)' = Closed(s)
  BY <1>4 DEF Closed
<1>6. gens[s] = NoGens =>
        /\ out[s].file /\ out[s].done > 0
        /\ FirstAnswersDue(s) <=> i.asked[1] = Ids(s)[1]
  <2>1. SUFFICES ASSUME gens[s] = NoGens
                 PROVE  /\ out[s].file /\ out[s].done > 0
                        /\ FirstAnswersDue(s) <=> i.asked[1] = Ids(s)[1]
    OBVIOUS
  <2> DEFINE b == i.done - Len(i.asked)
  <2>2. /\ b \in Nat /\ b < i.done /\ i.done <= Total(s)
        /\ i.asked[1] = Ids(s)[1] <=> b = 0
        /\ i.done = Len(i.asked) <=> b = 0
        /\ out[s].file /\ out[s].done = i.done
    BY <1>1, <2>1, FirstIs
  <2>3. FirstAnswersDue(s) <=> i.done = Len(i.asked)
    BY <1>1 DEF FirstAnswersDue
  <2>4. i.done \in Nat
    BY <1>1, SavingJob
  <2> HIDE DEF b, i
  <2> QED
    BY <2>2, <2>3, <2>4
<1> HIDE DEF i
<1> DEFINE z == i.gens \o i.asked
<1>7. /\ z \in Questions /\ z # NoGens /\ Len(z) = Len(i.gens) + Len(i.asked)
      /\ \A k \in 1..(Len(i.gens) + Len(i.asked)) : k <= Len(i.gens) => z[k] = i.gens[k]
  <2>1. /\ z \in Questions /\ Len(z) = Len(i.gens) + Len(i.asked)
        /\ \A k \in 1..(Len(i.gens) + Len(i.asked)) : k <= Len(i.gens) => z[k] = i.gens[k]
    BY <1>3, ConcatProperties DEF Questions
  <2>2. z # NoGens
    BY <2>1, NoGensIsNone
  <2> QED
    BY <2>1, <2>2
<1>8. Saved(s)' = ToSet(z)
  BY <1>1, <1>2, <1>3, <1>7 DEF Saved
<1>9. Saved(s) = ToSet(i.gens)
  BY <1>3, NoGensIsNone, ToSetNone DEF Saved
<1>10. Saved(s)' = Saved(s) \cup ToSet(i.asked)
  BY <1>3, <1>8, <1>9, ToSetJoin
<1>11. \E batch \in [1..opt.chunk -> ToSet(Ids(s))] :
          Saved(s)' = Saved(s) \cup {batch[k] : k \in 1..opt.chunk}
  <2>1. /\ opt.chunk \in Nat /\ i.asked \in Questions /\ ToSet(i.asked) \subseteq ToSet(Ids(s))
        /\ 1 <= Len(i.asked) /\ Len(i.asked) <= opt.chunk
    BY <1>3
  <2>2. /\ Batch(i.asked, opt.chunk) \in [1..opt.chunk -> ToSet(i.asked)]
        /\ {Batch(i.asked, opt.chunk)[k] : k \in 1..opt.chunk} = ToSet(i.asked)
    BY <2>1, BatchIs
  <2>3. Batch(i.asked, opt.chunk) \in [1..opt.chunk -> ToSet(Ids(s))]
    BY <2>1, <2>2
  <2> QED
    BY <1>10, <2>2, <2>3
<1>12. Lost(s)' = Lost(s)
  <2>1. Spoilt(s)' <=> z[1] # Ids(s)[1]
    BY <1>1, <1>2, <1>7, Frozen DEF Spoilt
  <2>2. Lost(s)' <=> Spoilt(s)'
    BY <1>2, <1>7 DEF Lost
  <2>3. CASE i.gens = <<>>
    <3>1. gens[s] = NoGens /\ z = i.asked
      BY <1>3, <2>3, ConcatEmptySeq DEF Questions
    <3>2. Lost(s) <=> ~FirstAnswersDue(s)
      BY <1>3, <1>6, <3>1 DEF Lost, Spoilt
    <3>3. Lost(s) <=> Lost(s)'
      BY <1>6, <2>1, <2>2, <3>1, <3>2
    <3> QED
      BY <3>3 DEF Lost
  <2>4. CASE i.gens # <<>>
    <3>1. gens[s] = i.gens /\ gens[s] # NoGens
      BY <1>3, <2>4, NoGensIsNone
    <3>2. z[1] = i.gens[1]
      <4>1. Len(i.gens) \in Nat \ {0}
        BY <1>3, <2>4, LenProperties, EmptySeq DEF Questions
      <4>2. Len(i.asked) \in Nat
        BY <1>3
      <4>3. \A m \in Nat \ {0}, n \in Nat : 1 \in 1..(m + n) /\ 1 <= m
        OBVIOUS
      <4>4. 1 \in 1..(Len(i.gens) + Len(i.asked)) /\ 1 <= Len(i.gens)
        BY <4>1, <4>2, <4>3
      <4> QED
        BY <1>7, <4>4
    <3>3. Lost(s) <=> Spoilt(s)
      BY <3>1 DEF Lost
    <3>4. Lost(s) <=> Lost(s)'
      BY <2>1, <2>2, <3>1, <3>2, <3>3 DEF Spoilt
    <3> QED
      BY <3>4 DEF Lost
  <2> QED
    BY <2>3, <2>4
<1> HIDE DEF z
<1> QED
  BY <1>1, <1>2, <1>4, <1>5, <1>11, <1>12, OneShard

\* What a task is asked are questions.
LEMMA AskedAre == RunInv => \A s \in Shard : ToSet(Ids(s)) \in SUBSET Nat /\ Total(s) \in Nat
<1> SUFFICES ASSUME RunInv, NEW s \in Shard
             PROVE  ToSet(Ids(s)) \in SUBSET Nat /\ Total(s) \in Nat
  OBVIOUS
<1>1. Ids(s) \in Questions /\ Total(s) \in Nat
  BY IdsIs DEF RunInv
<1> QED
  BY <1>1, ToSetIs, LenProperties DEF Questions

\* Sharing out a tail gives questions to tasks that have none.
LEMMA ReshardDeals ==
  ASSUME RunInv, NEW slow, Reshard(slow)
  PROVE  Ckpt!Deal
<1>1. UNCHANGED <<opt, out, gens, job>> /\ tail = NoTail
  BY DEF Reshard
<1>2. RunInv' /\ \A s \in Shard : Ids(s)' = Ids(s) \/ Total(s) = 0
  BY ReshardKeeps
<1>3. \A s \in Shard : ToSet(Ids(s))' \in SUBSET Nat /\ Total(s)' \in Nat
  <2>1. (RunInv => \A s \in Shard : ToSet(Ids(s)) \in SUBSET Nat /\ Total(s) \in Nat)'
    BY AskedAre, PTL
  <2> QED
    BY <1>2, <2>1
<1>4. \A s \in Shard : ToSet(Ids(s)) # {} => ToSet(Ids(s))' = ToSet(Ids(s))
  <2>1. SUFFICES ASSUME NEW s \in Shard, Total(s) = 0 PROVE ToSet(Ids(s)) = {}
    BY <1>2
  <2>2. Ids(s) \in Questions
    BY IdsIs DEF RunInv
  <2>3. Ids(s) = <<>>
    BY <2>1, <2>2, EmptySeq DEF Total, Questions
  <2> QED
    BY <2>3, ToSetNone
<1>5. ASSUME NEW s \in Shard
      PROVE  Saved(s)' = Saved(s) /\ Lost(s)' = Lost(s) /\ Closed(s)' = Closed(s)
  <2>1. CASE Ids(s)' = Ids(s)
    <3>1. Saved(s)' = Saved(s)
      BY <1>1, <2>1 DEF Saved, Slice
    <3>2. Lost(s)' = Lost(s)
      BY <1>1, <2>1 DEF Lost, Spoilt, FirstAnswersDue
    <3>3. Closed(s)' = Closed(s)
      BY <1>1, <2>1 DEF Closed, Resume, Total
    <3> QED
      BY <3>1, <3>2, <3>3
  <2>2. CASE Ids(s)' # Ids(s)
    <3>1. ~(s < opt.shards)
      BY <1>1, <2>2 DEF Ids, Offset, Per
    <3>2. s >= opt.shards
      BY <3>1, Gsm8kRunAssumption DEF RunInv, OptOK, Shard
    <3>3. out[s] = NoFile /\ gens[s] = NoGens
      BY <1>1, <3>2 DEF RunInv, TailOK
    <3>4. ~Lost(s) /\ ~Closed(s) /\ Saved(s) = {}
      <4>1. Total(s) = 0
        BY <1>2, <2>2
      <4> QED
        BY <3>3, <4>1 DEF Saved, Lost, Spoilt, Closed, NoFile
    <3>5. ~Lost(s)' /\ Saved(s)' = {} /\ Resume(s)'.done = 0
      BY <1>1, <3>3 DEF Saved, Lost, Spoilt, Resume, NoFile
    <3>6. ~Closed(s)'
      <4>1. Total(s)' \in Nat
        BY <1>3
      <4> QED
        BY <3>5, <4>1 DEF Closed
    <3> QED
      BY <3>4, <3>5, <3>6 DEF Lost, Closed
  <2> QED
    BY <2>1, <2>2
<1> QED
  BY <1>1, <1>3, <1>4, <1>5 DEF Ckpt!Deal

LEMMA StepSaves == RunInv /\ [Next]_vars => [Ckpt!Next]_(Ckpt!vars)
<1> SUFFICES ASSUME RunInv, [Next]_vars PROVE Ckpt!Next \/ UNCHANGED Ckpt!vars
  OBVIOUS
<1>1. ASSUME NEW s \in Shard, Launch(s) \/ Ask(s) PROVE UNCHANGED Ckpt!vars
  BY <1>1, LaunchSaves
<1>2. ASSUME NEW s \in Shard, LaunchEmpty(s) PROVE UNCHANGED Ckpt!vars
  BY <1>2, LaunchEmptySaves
<1>3. ASSUME NEW s \in Shard, WriteOut(s) PROVE Ckpt!Next \/ UNCHANGED Ckpt!vars
  BY <1>3, WriteOutSaves DEF Ckpt!Next
<1>4. ASSUME NEW s \in Shard, WriteGens(s) PROVE Ckpt!Next \/ UNCHANGED Ckpt!vars
  BY <1>4, WriteGensSaves DEF Ckpt!Next
<1>5. ASSUME NEW s \in Shard, Exit(s) \/ Kill(s) PROVE Ckpt!Next \/ UNCHANGED Ckpt!vars
  BY <1>5, EndSaves DEF Ckpt!Next
<1>6. ASSUME NEW r, NEW glob, CombineStart(r, glob) PROVE UNCHANGED Ckpt!vars
  BY <1>6, SavesNothing DEF CombineStart
<1>7. ASSUME CombineRead \/ CombineEnd PROVE UNCHANGED Ckpt!vars
  BY <1>7, SavesNothing DEF CombineRead, CombineEnd
<1>8. ASSUME NEW slow, Reshard(slow) PROVE Ckpt!Next
  BY <1>8, ReshardDeals DEF Ckpt!Next
<1>9. ASSUME UNCHANGED vars PROVE UNCHANGED Ckpt!vars
  BY <1>9, SavesNothing DEF vars
<1> QED
  BY <1>1, <1>2, <1>3, <1>4, <1>5, <1>6, <1>7, <1>8, <1>9 DEF Next, JobStep

LEMMA InitSaves == Init => Ckpt!Init
<1> SUFFICES ASSUME Init PROVE Ckpt!Init
  OBVIOUS
<1>1. RunInv
  BY InitRun
<1>2. ASSUME NEW s \in Shard
      PROVE  Saved(s) = {} /\ Lost(s) = FALSE /\ Closed(s) = FALSE
  <2>1. out[s] = NoFile /\ gens[s] = NoGens
    BY DEF Init
  <2>2. Saved(s) = {} /\ ~Lost(s)
    BY <2>1 DEF Saved, Lost, Spoilt, NoFile
  <2>3. Resume(s).done = 0 /\ Total(s) \in Nat
    BY <1>1, <2>1, ShapesOf DEF Resume, NoFile
  <2>4. ~Closed(s)
    BY <2>3 DEF Closed
  <2> QED
    BY <2>2, <2>4, Booleans
<1>3. ASSUME NEW s \in Shard PROVE ToSet(Ids(s)) \in SUBSET Nat
  BY <1>1, <1>3, AskedAre
<1> QED
  BY <1>1, <1>2, <1>3 DEF Ckpt!Init, RunInv, OptOK

\* "Pick up where it stopped so a wall-kill/crash loses no work", as far as it
\* is true: under every interleaving of the jobs' steps, their deaths, and the
\* sharing out of a tail, the run implements Checkpoint.  An answer that was
\* saved stays, and a task is not given up before each of its questions has
\* one, unless a job died between the task's first result and its first
\* answers.
THEOREM RunImplementsCheckpoint == Spec => ImplementsCheckpoint
<1>1. Init => Ckpt!Init
  BY InitSaves
<1>2. RunInv /\ [Next]_vars => [Ckpt!Next]_(Ckpt!vars)
  BY StepSaves
<1>3. Spec => Ckpt!Init /\ [][Ckpt!Next]_(Ckpt!vars)
  BY <1>1, <1>2, RunInvariant, PTL DEF Spec
<1> QED
  BY <1>3 DEF ImplementsCheckpoint, Ckpt!Spec

-----------------------------------------------------------------------------
(* Sums over tasks, which the model takes with folds: a sum of the sizes   *)
(* of sets is the size of their disjoint union.                            *)

\* g is the function a fold computes when it adds f up, an element at a time.
Sums(g, f, S) ==
    g = [T \in SUBSET S |->
           IF T = {} THEN 0
           ELSE f[CHOOSE x \in T : TRUE] + g[T \ {CHOOSE x \in T : TRUE}]]

Tagged(A, S) == UNION {{s} \X A[s] : s \in S}

LEMMA TaggedIs ==
  ASSUME NEW A, NEW S
  PROVE  /\ \A s \in S : \A i \in A[s] : <<s, i>> \in Tagged(A, S)
         /\ \A p \in Tagged(A, S) : p = <<p[1], p[2]>> /\ p[1] \in S /\ p[2] \in A[p[1]]
<1>1. ASSUME NEW s \in S, NEW i \in A[s] PROVE <<s, i>> \in Tagged(A, S)
  <2>1. <<s, i>> \in {s} \X A[s]
    OBVIOUS
  <2> QED
    BY <2>1 DEF Tagged
<1>2. ASSUME NEW p \in Tagged(A, S) PROVE p = <<p[1], p[2]>> /\ p[1] \in S /\ p[2] \in A[p[1]]
  <2>1. PICK s \in S : p \in {s} \X A[s]
    BY DEF Tagged
  <2>2. p = <<p[1], p[2]>> /\ p[1] = s /\ p[2] \in A[s]
    BY <2>1
  <2> QED
    BY <2>2
<1> QED
  BY <1>1, <1>2

LEMMA TaggedAdd ==
  ASSUME NEW S, IsFiniteSet(S), NEW A, \A s \in S : IsFiniteSet(A[s]), NEW x \in S
  PROVE  /\ IsFiniteSet(Tagged(A, S)) /\ IsFiniteSet(Tagged(A, S \ {x}))
         /\ Cardinality(Tagged(A, S)) = Cardinality(A[x]) + Cardinality(Tagged(A, S \ {x}))
<1> DEFINE R == Tagged(A, S \ {x})
           X == {x} \X A[x]
<1>1. \A U \in SUBSET S : IsFiniteSet(Tagged(A, U))
  <2> TAKE U \in SUBSET S
  <2>1. \A s \in S : IsFiniteSet({s} \X A[s])
    BY FS_Singleton, FS_Product
  <2> DEFINE F == [s \in U |-> {s} \X A[s]]
             I == {F[s] : s \in U}
  <2>2. F \in Surjection(U, I)
    BY DEF Surjection
  <2>3. IsFiniteSet(U)
    BY FS_Subset
  <2>4. IsFiniteSet(I)
    <3> HIDE DEF F, I
    <3> QED
      BY <2>2, <2>3, FS_Surjection
  <2>5. I = {{s} \X A[s] : s \in U}
    OBVIOUS
  <2>6. \A C \in I : IsFiniteSet(C)
    BY <2>1
  <2>7. IsFiniteSet(UNION I)
    <3> HIDE DEF I
    <3> QED
      BY <2>4, <2>6, FS_UNION
  <2> QED
    BY <2>5, <2>7 DEF Tagged
<1>2. IsFiniteSet(X) /\ Cardinality(X) = Cardinality(A[x])
  <2>1. IsFiniteSet({x}) /\ Cardinality({x}) = 1
    BY FS_Singleton
  <2>2. Cardinality(X) = 1 * Cardinality(A[x]) /\ IsFiniteSet(X)
    BY <2>1, FS_Product
  <2>3. Cardinality(A[x]) \in Nat
    BY FS_CardinalityType
  <2> HIDE DEF X
  <2> QED
    BY <2>2, <2>3
<1>3. Tagged(A, S) = X \cup R
  BY DEF Tagged
<1>4. X \cap R = {}
  BY DEF Tagged
<1>5. IsFiniteSet(R) /\ Cardinality(R) \in Nat /\ IsFiniteSet(Tagged(A, S))
  BY <1>1, FS_CardinalityType
<1> HIDE DEF X, R
<1>6. Cardinality(X \cup R) = Cardinality(X) + Cardinality(R) - Cardinality(X \cap R)
  BY <1>2, <1>5, FS_Union
<1>7. Cardinality(X \cap R) = 0 /\ Cardinality(X) \in Nat
  BY <1>2, <1>4, FS_EmptySet, FS_CardinalityType
<1>8. Cardinality(X \cup R) = Cardinality(X) + Cardinality(R)
  BY <1>5, <1>6, <1>7
<1> QED
  BY <1>2, <1>3, <1>5, <1>8 DEF R

LEMMA SumIsSize ==
  ASSUME NEW S, IsFiniteSet(S), NEW A, NEW f,
         \A s \in S : IsFiniteSet(A[s]) /\ f[s] = Cardinality(A[s])
  PROVE  /\ IsFiniteSet(Tagged(A, S))
         /\ (CHOOSE g : Sums(g, f, S))[S] = Cardinality(Tagged(A, S))
<1> DEFINE size == [T \in SUBSET S |-> Cardinality(Tagged(A, T))]
           some(T) == CHOOSE x \in T : TRUE
<1>1. Tagged(A, {}) = {} /\ Cardinality(Tagged(A, {})) = 0
  BY FS_EmptySet DEF Tagged
<1>2. ASSUME NEW T \in SUBSET S
      PROVE  IsFiniteSet(T) /\ Cardinality(T) \in Nat
  BY FS_Subset, FS_CardinalityType
<1>3. ASSUME NEW T \in SUBSET S, T # {}
      PROVE  /\ some(T) \in T /\ T \ {some(T)} \in SUBSET S
             /\ Cardinality(T \ {some(T)}) = Cardinality(T) - 1
             /\ IsFiniteSet(Tagged(A, T))
             /\ Cardinality(Tagged(A, T)) = f[some(T)] + Cardinality(Tagged(A, T \ {some(T)}))
  <2>1. some(T) \in T
    BY <1>3
  <2>2. PICK x : x = some(T)
    OBVIOUS
  <2>3. IsFiniteSet(T) /\ x \in T /\ x \in S
    BY <1>2, <2>1, <2>2
  <2>4. Cardinality(T \ {x}) = Cardinality(T) - 1
    BY <2>3, FS_RemoveElement
  <2>5. /\ IsFiniteSet(Tagged(A, T))
        /\ Cardinality(Tagged(A, T)) = Cardinality(A[x]) + Cardinality(Tagged(A, T \ {x}))
    BY <2>3, TaggedAdd
  <2> HIDE DEF some
  <2> QED
    BY <2>2, <2>3, <2>4, <2>5
<1>4. IsFiniteSet(Tagged(A, S))
  <2>1. CASE S = {}
    BY <1>1, <2>1, FS_EmptySet
  <2>2. CASE S # {}
    BY <1>3, <2>2
  <2> QED
    BY <2>1, <2>2
<1>5. Sums(size, f, S)
  <2>1. ASSUME NEW T \in SUBSET S
        PROVE  size[T] = IF T = {} THEN 0 ELSE f[some(T)] + size[T \ {some(T)}]
    BY <1>1, <1>3
  <2>2. size = [T \in SUBSET S |-> IF T = {} THEN 0 ELSE f[some(T)] + size[T \ {some(T)}]]
    BY <2>1
  <2> HIDE DEF size
  <2> QED
    BY <2>2 DEF Sums
<1> DEFINE h == CHOOSE g : Sums(g, f, S)
<1>6. Sums(h, f, S)
  BY <1>5
<1> HIDE DEF h
<1>7. \A T \in SUBSET S : h[T] = IF T = {} THEN 0 ELSE f[some(T)] + h[T \ {some(T)}]
  BY <1>6 DEF Sums
<1>8. \A T \in SUBSET S : h[T] = size[T]
  <2> DEFINE Bad == {n \in Nat : \E T \in SUBSET S : Cardinality(T) = n /\ h[T] # size[T]}
  <2>1. SUFFICES Bad = {}
    BY <1>2
  <2>2. SUFFICES ASSUME Bad # {} PROVE FALSE
    OBVIOUS
  <2>3. PICK n \in Bad : \A m \in Bad : n <= m
    BY <2>2, LeastElement
  <2>4. PICK T \in SUBSET S : Cardinality(T) = n /\ h[T] # size[T]
    BY <2>3
  <2>5. T # {}
    BY <1>1, <1>7, <2>4
  <2> DEFINE x == some(T)
             U == T \ {x}
  <2>6. U \in SUBSET S /\ Cardinality(U) = n - 1 /\ size[T] = f[x] + size[U]
    BY <1>3, <2>4, <2>5
  <2>7. h[T] = f[x] + h[U]
    BY <1>7, <2>5
  <2>8. h[U] # size[U]
    BY <2>4, <2>6, <2>7
  <2>9. Cardinality(U) \in Nat /\ n \in Nat
    BY <1>2, <2>3, <2>6
  <2> HIDE DEF U, size
  <2>10. n - 1 \in Bad
    BY <2>6, <2>8, <2>9
  <2> QED
    BY <2>3, <2>9, <2>10
<1> QED
  BY <1>4, <1>8 DEF h

\* The library's sum of a function.
LEMMA SumFunctionIs ==
  ASSUME NEW S, IsFiniteSet(S), NEW f, DOMAIN f = S, NEW A,
         \A s \in S : IsFiniteSet(A[s]) /\ f[s] = Cardinality(A[s])
  PROVE  /\ IsFiniteSet(Tagged(A, S))
         /\ SumFunction(f) = Cardinality(Tagged(A, S))
<1>1. SumFunction(f) = (CHOOSE g : Sums(g, f, S))[S]
  BY DEF SumFunction, SumFunctionOnSet, FoldFunctionOnSet, MapThenFoldSet, Sums
<1> QED
  BY <1>1, SumIsSize

\* The sum of a field of the records a combine has read.
LEMMA SumOfIs ==
  ASSUME NEW got, IsFiniteSet(DOMAIN got), NEW field, NEW A,
         \A s \in DOMAIN got : IsFiniteSet(A[s]) /\ got[s][field] = Cardinality(A[s])
  PROVE  /\ IsFiniteSet(Tagged(A, DOMAIN got))
         /\ SumOf(got, field) = Cardinality(Tagged(A, DOMAIN got))
<1> DEFINE f == [s \in DOMAIN got |-> got[s][field]]
<1>1. SumOf(got, field) = SumFunction(f)
  BY DEF SumOf
<1>2. DOMAIN f = DOMAIN got /\ \A s \in DOMAIN got : f[s] = Cardinality(A[s])
  OBVIOUS
<1> HIDE DEF f
<1> QED
  BY <1>1, <1>2, SumFunctionIs

-----------------------------------------------------------------------------
(* The shards share the questions out. *)

Shards == 0..(opt.shards - 1)

LEMMA PerIs ==
  ASSUME OptOK
  PROVE  Per \in Nat /\ opt.n <= opt.shards * Per
<1> DEFINE m == opt.n + opt.shards - 1
           p == m \div opt.shards
<1>1. m \in Nat /\ opt.shards \in Nat \ {0} /\ opt.n \in Nat /\ m = opt.n + opt.shards - 1
  BY Gsm8kRunAssumption DEF OptOK
<1>2. p = Per
  BY DEF Per
<1> HIDE DEF m
<1>3. m = p * opt.shards + (m % opt.shards) /\ m % opt.shards \in 0..(opt.shards - 1) /\ p \in Nat
  BY <1>1, DivMod
<1> HIDE DEF p
<1>4. p * opt.shards \in Nat /\ p * opt.shards = opt.shards * p
  BY <1>1, <1>3
<1>5. opt.n <= p * opt.shards
  BY <1>1, <1>3, <1>4
<1> QED
  BY <1>2, <1>3, <1>4, <1>5

\* A shard's slice starts at Offset(s) and has at most Per questions.
LEMMA ShardIds ==
  ASSUME OptOK, NEW s \in Shards
  PROVE  /\ s \in Shard /\ Offset(s) = s * Per /\ Offset(s) \in Nat
         /\ Total(s) \in 0..Per
         /\ \A i \in 1..Total(s) : /\ Ids(s)[i] = Offset(s) + i - 1
                                   /\ Ids(s)[i] \in 0..(opt.n - 1)
         /\ \A i \in 1..Per : Offset(s) + i <= opt.n => i <= Total(s)
         /\ DOMAIN Ids(s) = 1..Total(s)
<1> DEFINE p == Per
           o == Offset(s)
           end == IF o + p < opt.n THEN o + p ELSE opt.n
           k == IF o < end THEN end - o ELSE 0
<1>1. s \in Nat /\ s < opt.shards /\ s \in Shard /\ opt.n \in Nat
  BY Gsm8kRunAssumption DEF OptOK, Shards, Shard
<1>2. p \in Nat
  BY PerIs
<1>3. o = s * p
  BY DEF Offset
<1> HIDE DEF p
<1>4. o \in Nat
  BY <1>1, <1>2, <1>3
<1>5. Ids(s) = [j \in 1..k |-> o + j - 1]
  BY <1>1 DEF Ids, p
<1> HIDE DEF o
<1>6. k \in 0..p /\ (k # 0 => o + k <= opt.n) /\ \A i \in 1..p : o + i <= opt.n => i <= k
  BY <1>1, <1>2, <1>4
<1> HIDE DEF k, end
<1>7. Total(s) = k
  <2>1. Ids(s) \in [1..k -> Nat]
    BY <1>4, <1>5, <1>6
  <2>2. Ids(s) \in Questions
    BY <1>6, <2>1 DEF Questions
  <2> QED
    BY <1>6, <2>1, <2>2, LenProperties DEF Questions, Total
<1>8. \A i \in 1..k : Ids(s)[i] = o + i - 1 /\ Ids(s)[i] \in 0..(opt.n - 1)
  BY <1>1, <1>4, <1>5, <1>6
<1> QED
  BY <1>1, <1>3, <1>4, <1>5, <1>6, <1>7, <1>8 DEF o, p

\* No question is in two slices, or twice in one.
LEMMA SlicesApart ==
  ASSUME OptOK, NEW s \in Shards, NEW t \in Shards,
         NEW i \in 1..Total(s), NEW j \in 1..Total(t), Ids(s)[i] = Ids(t)[j]
  PROVE  s = t /\ i = j
<1>1. /\ s \in Nat /\ Offset(s) = s * Per /\ Total(s) \in 0..Per /\ Ids(s)[i] = Offset(s) + i - 1
      /\ t \in Nat /\ Offset(t) = t * Per /\ Total(t) \in 0..Per /\ Ids(t)[j] = Offset(t) + j - 1
  BY ShardIds DEF Shards
<1>2. Per \in Nat
  BY PerIs
<1> DEFINE p == Per
           a == s * p
           b == t * p
<1>3. p \in Nat \ {0} /\ i \in 1..p /\ j \in 1..p /\ a + i - 1 = b + j - 1
  <2>1. a + i - 1 = b + j - 1
    BY <1>1
  <2>2. i \in Nat \ {0} /\ i <= Total(s) /\ j \in Nat \ {0} /\ j <= Total(t)
    BY <1>1
  <2> QED
    BY <1>1, <1>2, <2>1, <2>2
<1> HIDE DEF p
<1>4. a \in Nat /\ b \in Nat
  BY <1>1, <1>3
<1>5. ~(s < t)
  <2>1. SUFFICES ASSUME s < t PROVE FALSE
    OBVIOUS
  <2>2. a + p <= b
    BY <1>1, <1>3, <2>1, MultiplesApart
  <2> HIDE DEF a, b
  <2> QED
    BY <1>3, <1>4, <2>2
<1>6. ~(t < s)
  <2>1. SUFFICES ASSUME t < s PROVE FALSE
    OBVIOUS
  <2>2. b + p <= a
    BY <1>1, <1>3, <2>1, MultiplesApart
  <2> HIDE DEF a, b
  <2> QED
    BY <1>3, <1>4, <2>2
<1>7. s = t
  BY <1>1, <1>5, <1>6
<1> HIDE DEF a, b
<1>8. a = b
  BY <1>7 DEF a, b
<1> QED
  BY <1>3, <1>4, <1>7, <1>8

\* Every question is in one.
LEMMA SlicesCover ==
  ASSUME OptOK, NEW q \in 0..(opt.n - 1)
  PROVE  \E s \in Shards : \E i \in 1..Total(s) : Ids(s)[i] = q
<1> DEFINE p == Per
           s == q \div p
           e == q % p
<1>1. opt.n \in Nat /\ opt.shards \in Nat \ {0} /\ q \in Nat /\ q < opt.n
  BY Gsm8kRunAssumption DEF OptOK
<1>2. p \in Nat /\ opt.n <= opt.shards * p
  BY PerIs
<1> HIDE DEF p
<1>3. p # 0
  BY <1>1, <1>2
<1>4. q = s * p + e /\ e \in 0..(p - 1) /\ s \in Nat
  BY <1>1, <1>2, <1>3, DivMod
<1> HIDE DEF s, e
<1> DEFINE a == s * p
           b == opt.shards * p
<1>5. a \in Nat /\ b \in Nat
  BY <1>1, <1>2, <1>4
<1>6. s < opt.shards
  <2>1. SUFFICES ASSUME ~(s < opt.shards) PROVE FALSE
    OBVIOUS
  <2>2. b <= a
    <3>1. CASE s = opt.shards
      BY <1>5, <3>1
    <3>2. CASE opt.shards < s
      <4>1. b + p <= a
        BY <1>1, <1>2, <1>3, <1>4, <3>2, MultiplesApart
      <4> HIDE DEF a, b
      <4> QED
        BY <1>2, <1>5, <4>1
    <3> QED
      BY <1>1, <1>4, <2>1, <3>1, <3>2
  <2> HIDE DEF a, b
  <2>3. opt.n <= b /\ q = a + e
    BY <1>2, <1>4 DEF a, b
  <2> QED
    BY <1>1, <1>4, <1>5, <2>2, <2>3
<1>7. s \in Shards
  BY <1>1, <1>4, <1>6 DEF Shards
<1>8. Offset(s) = a
  BY <1>7, ShardIds DEF p
<1> HIDE DEF a, b
<1>9. e + 1 \in 1..Per /\ Offset(s) + (e + 1) <= opt.n /\ Offset(s) + (e + 1) - 1 = q
  <2>1. q = a + e
    BY <1>4 DEF a
  <2> QED
    BY <1>1, <1>2, <1>3, <1>4, <1>5, <1>8, <2>1 DEF p
<1>10. e + 1 \in 1..Total(s)
  BY <1>7, <1>9, ShardIds
<1>11. Ids(s)[e + 1] = q
  BY <1>7, <1>9, <1>10, ShardIds
<1> QED
  BY <1>7, <1>10, <1>11

\* The questions of all shards are the questions of the run.
LEMMA ShardsAsk ==
  ASSUME OptOK, NEW A, \A s \in Shards : A[s] = 1..Total(s)
  PROVE  IsFiniteSet(Tagged(A, Shards)) /\ Cardinality(Tagged(A, Shards)) = opt.n
<1> DEFINE P == Tagged(A, Shards)
           f == [p \in P |-> Ids(p[1])[p[2]]]
           Q == 0..(opt.n - 1)
<1>1. /\ \A s \in Shards : \A i \in A[s] : <<s, i>> \in P
      /\ \A p \in P : p = <<p[1], p[2]>> /\ p[1] \in Shards /\ p[2] \in A[p[1]]
  BY TaggedIs
<1> HIDE DEF P
<1>2. \A p \in P : p = <<p[1], p[2]>> /\ p[1] \in Shards /\ p[2] \in 1..Total(p[1])
  BY <1>1
<1>3. \A s \in Shards : \A i \in 1..Total(s) : <<s, i>> \in P
  BY <1>1
<1>4. f \in [P -> Q]
  BY <1>2, ShardIds
<1>5. f \in Injection(P, Q)
  <2>1. ASSUME NEW p \in P, NEW r \in P, f[p] = f[r] PROVE p = r
    <3>1. Ids(p[1])[p[2]] = Ids(r[1])[r[2]]
      BY <2>1
    <3>2. p[1] = r[1] /\ p[2] = r[2]
      BY <1>2, <3>1, SlicesApart
    <3> QED
      BY <1>2, <3>2
  <2> HIDE DEF f, Q
  <2> QED
    BY <1>4, <2>1 DEF Injection, IsInjective
<1>6. f \in Surjection(P, Q)
  <2>1. ASSUME NEW q \in Q PROVE \E p \in P : f[p] = q
    <3>0. PICK s \in Shards : \E i \in 1..Total(s) : Ids(s)[i] = q
      BY SlicesCover
    <3>1. PICK i \in 1..Total(s) : Ids(s)[i] = q
      BY <3>0
    <3>2. <<s, i>> \in P /\ f[<<s, i>>] = q
      BY <1>3, <3>1
    <3> QED
      BY <3>2
  <2> HIDE DEF f, Q
  <2> QED
    BY <1>4, <2>1 DEF Surjection
<1>7. IsFiniteSet(Q) /\ Cardinality(Q) = opt.n
  <2>1. opt.n \in Nat
    BY DEF OptOK
  <2>2. IsFiniteSet(Q) /\ Cardinality(Q) = IF 0 > opt.n - 1 THEN 0 ELSE opt.n - 1 - 0 + 1
    BY <2>1, FS_Interval
  <2> HIDE DEF Q
  <2> QED
    BY <2>1, <2>2
<1> HIDE DEF f, Q
<1> QED
  BY <1>5, <1>6, <1>7, FS_Injection DEF P

-----------------------------------------------------------------------------
(* Answers files only grow, so a spoilt one stays spoilt.                  *)

LEMMA AnswersGrow ==
  ASSUME RunInv, [Next]_vars, NEW s \in Shard, gens[s] # NoGens
  PROVE  /\ gens'[s] # NoGens /\ gens'[s] \in Questions /\ gens[s] \in Questions
         /\ Len(gens[s]) \in Nat \ {0} /\ Len(gens'[s]) \in Nat
         /\ Len(gens[s]) <= Len(gens'[s])
         /\ \A i \in 1..Len(gens[s]) : gens'[s][i] = gens[s][i]
<1>1. gens[s] \in Questions /\ Len(gens[s]) \in Nat \ {0} /\ Total(s) \in Nat
  BY ShapesOf, NoGensIsNone DEF TaskOK, FilesSane
<1>2. CASE gens'[s] = gens[s]
  BY <1>1, <1>2
<1>3. ASSUME NEW t \in Shard, WriteGens(t), gens'[s] # gens[s]
      PROVE  /\ gens'[s] # NoGens /\ gens'[s] \in Questions
             /\ Len(gens'[s]) \in Nat /\ Len(gens[s]) <= Len(gens'[s])
             /\ \A i \in 1..Len(gens[s]) : gens'[s][i] = gens[s][i]
  <2> DEFINE x == job[t].gens
             y == job[t].asked
  <2>1. job[t].pc = "gens" /\ gens' = [gens EXCEPT ![t] = x \o y]
    BY <1>3 DEF WriteGens
  <2>2. gens'[s] = x \o y /\ t = s
    BY <1>3, <2>1 DEF RunInv, Shapes
  <2>3. /\ IF x = <<>> THEN gens[s] = NoGens ELSE gens[s] = x
        /\ x \in Questions /\ y \in Questions
    BY <2>1, <2>2, SavingJob
  <2>4. x = gens[s]
    BY <2>3
  <2> HIDE DEF x, y
  <2>5. /\ x \o y \in Questions /\ Len(x \o y) = Len(x) + Len(y)
        /\ \A i \in 1..(Len(x) + Len(y)) : (x \o y)[i] = IF i <= Len(x) THEN x[i] ELSE y[i - Len(x)]
    BY <2>3, ConcatProperties DEF Questions
  <2>6. Len(x) \in Nat /\ Len(y) \in Nat
    BY <2>3, LenProperties DEF Questions
  <2>7. \A i \in 1..Len(x) : (x \o y)[i] = x[i]
    BY <2>5, <2>6
  <2> DEFINE z == x \o y
  <2>8. z \in Questions /\ z # NoGens
    BY <2>5, NoGensIsNone
  <2>9. Len(z) \in Nat /\ Len(x) <= Len(z) /\ \A i \in 1..Len(x) : z[i] = x[i]
    BY <2>5, <2>6, <2>7
  <2> HIDE DEF z
  <2>10. gens'[s] = z
    BY <2>2 DEF z
  <2> QED
    BY <2>4, <2>8, <2>9, <2>10
<1>4. gens'[s] = gens[s] \/ \E t \in Shard : WriteGens(t)
  <2>1. ASSUME NEW t \in Shard,
               Launch(t) \/ LaunchEmpty(t) \/ Ask(t) \/ WriteOut(t) \/ Exit(t) \/ Kill(t)
        PROVE  gens' = gens
    BY <2>1 DEF Launch, LaunchEmpty, Ask, WriteOut, Exit, Kill
  <2>2. ASSUME (\E r, glob : CombineStart(r, glob)) \/ CombineRead \/ CombineEnd
               \/ (\E slow : Reshard(slow)) \/ UNCHANGED vars
        PROVE  gens' = gens
    BY <2>2 DEF CombineStart, CombineRead, CombineEnd, Reshard, vars
  <2> QED
    BY <2>1, <2>2 DEF Next, JobStep
<1> QED
  BY <1>1, <1>2, <1>3, <1>4

LEMMA SpoiltStays ==
  ASSUME RunInv, [Next]_vars, NEW s \in Shard, Spoilt(s), Ids(s)' = Ids(s) \/ Total(s) = 0
  PROVE  Spoilt(s)'
<1>1. gens[s] # NoGens /\ gens[s][1] # Ids(s)[1]
  BY DEF Spoilt
<1>2. Len(gens[s]) \in 1..Total(s) /\ Total(s) \in Nat
  BY <1>1, ShapesOf DEF TaskOK, FilesSane
<1>3. Ids(s)' = Ids(s)
  BY <1>2
<1>4. gens'[s] # NoGens /\ gens'[s][1] = gens[s][1]
  BY <1>1, <1>2, AnswersGrow
<1> QED
  BY <1>1, <1>3, <1>4 DEF Spoilt

-----------------------------------------------------------------------------
(* What a combine counts.                                                  *)

\* A record that was read of task s, whenever that was.
ReadOK(s, r) ==
    /\ r \in Results /\ r.total = Total(s) /\ r.done \in 0..Total(s)
    /\ ~Spoilt(s) => Scored(s, r)

Counted(c) ==
    LET asked == UNION {{s} \X DOMAIN Ids(s) : s \in c.of}
        graded(g) == Cardinality({p \in asked : Grade[Ids(p[1])[p[2]]] = g})
    IN  /\ c.done = Cardinality(asked)
        /\ c.correct = graded("right")
        /\ c.invalid = graded("invalid")
        /\ c.of = 0..(opt.shards - 1) => c.done = opt.n

CombineInv ==
    /\ \A s \in Shard : out[s].file => out[s].total = Total(s) /\ s \in Tasks
    /\ reader # NoReader =>
          /\ reader.left \subseteq Tasks /\ \A s \in reader.left : out[s].file
          /\ DOMAIN reader.got \subseteq Tasks
          /\ \A s \in DOMAIN reader.got : ReadOK(s, reader.got[s])
    /\ combined.ok =>
          /\ combined.of \subseteq Tasks
          /\ combined.require /\ (\A s \in combined.of : ~Spoilt(s)) => Counted(combined)

LEMMA TasksAre ==
  ASSUME OptOK PROVE Tasks \in SUBSET Shard /\ IsFiniteSet(Tasks) /\ Shards \subseteq Tasks
<1>1. opt.shards \in 1..MaxShards /\ opt.tail \in 0..(MaxShards - opt.shards) /\ MaxShards \in Nat
  BY Gsm8kRunAssumption DEF OptOK
<1>2. Tasks \subseteq 0..(MaxShards - 1) /\ Shards \subseteq Tasks
  BY <1>1 DEF Tasks, Shards
<1>3. IsFiniteSet(0..(MaxShards - 1))
  BY <1>1, FS_Interval
<1> QED
  BY <1>2, <1>3, FS_Subset DEF Shard

\* What has been read and what has been said stay true while jobs go on and
\* when a tail is dealt out.
LEMMA CombineCarries ==
  ASSUME RunInv, RunInv', CombineInv, [Next]_vars, UNCHANGED <<opt, reader, combined>>,
         \A s \in Tasks : Ids(s)' = Ids(s), Tasks \subseteq Tasks',
         \A s \in Shard : out[s].file => out'[s].file,
         \A s \in Shard : out'[s].file => out'[s].total = Total(s)' /\ s \in Tasks'
  PROVE  CombineInv'
<1>1. Tasks \subseteq Shard
  BY TasksAre DEF RunInv
<1>2. \A s \in Tasks : (~Spoilt(s)' => ~Spoilt(s)) /\ Total(s)' = Total(s)
  BY <1>1, SpoiltStays DEF Total
<1>3. ASSUME NEW s \in Tasks, NEW r, ReadOK(s, r) PROVE ReadOK(s, r)'
  <2>1. Scored(s, r) => Scored(s, r)'
    BY DEF Scored, Slice
  <2> QED
    BY <1>2, <1>3, <2>1 DEF ReadOK
<1>4. ASSUME reader' # NoReader
      PROVE  /\ reader'.left \subseteq Tasks' /\ \A s \in reader'.left : out'[s].file
             /\ DOMAIN reader'.got \subseteq Tasks'
             /\ \A s \in DOMAIN reader'.got : ReadOK(s, reader.got[s])'
  <2>1. /\ reader' = reader
        /\ reader.left \subseteq Tasks /\ \A s \in reader.left : out[s].file
        /\ DOMAIN reader.got \subseteq Tasks
        /\ \A s \in DOMAIN reader.got : ReadOK(s, reader.got[s])
    BY <1>4 DEF CombineInv
  <2>2. ASSUME NEW s \in DOMAIN reader.got PROVE ReadOK(s, reader.got[s])'
    <3>1. PICK r : r = reader.got[s]
      OBVIOUS
    <3>2. ReadOK(s, r)'
      BY <1>3, <2>1, <3>1
    <3> QED
      BY <2>1, <3>1, <3>2
  <2> QED
    BY <1>1, <2>1, <2>2
<1>5. ASSUME combined'.ok
      PROVE  /\ combined'.of \subseteq Tasks'
             /\ combined'.require /\ (\A s \in combined'.of : ~Spoilt(s)') => Counted(combined)'
  <2>1. combined' = combined /\ combined.of \subseteq Tasks
    BY <1>5 DEF CombineInv
  <2>2. ASSUME combined.require, \A s \in combined.of : ~Spoilt(s)' PROVE Counted(combined)'
    <3>1. Counted(combined)
      BY <1>2, <1>5, <2>1, <2>2 DEF CombineInv
    <3> DEFINE asked == UNION {{s} \X DOMAIN Ids(s) : s \in combined.of}
    <3>2. asked' = asked
      BY <2>1
    <3>3. \A p \in asked : Ids(p[1])' = Ids(p[1])
      BY <2>1
    <3>4. ASSUME NEW g
          PROVE  {p \in asked' : Grade[Ids(p[1])'[p[2]]] = g} = {p \in asked : Grade[Ids(p[1])[p[2]]] = g}
      <4> HIDE DEF asked
      <4> QED
        BY <3>2, <3>3
    <3> QED
      BY <2>1, <3>1, <3>2, <3>4 DEF Counted
  <2> QED
    BY <2>1, <2>2
<1> QED
  BY <1>4, <1>5 DEF CombineInv

\* A result is of a task, and of all its questions.
LEMMA JobsCarry ==
  ASSUME RunInv, RunInv', CombineInv, [Next]_vars, NEW s \in Shard,
         Launch(s) \/ LaunchEmpty(s) \/ JobStep(s) \/ Kill(s)
  PROVE  CombineInv'
<1>1. UNCHANGED <<opt, tail, reader, combined>>
  BY DEF Launch, LaunchEmpty, JobStep, Ask, WriteOut, WriteGens, Exit, Kill
<1>2. \A t : Ids(t)' = Ids(t) /\ Total(t)' = Total(t)
  BY <1>1, Frozen
<1>3. Tasks' = Tasks
  BY <1>1 DEF Tasks
<1>4. CASE out' = out
  <2>1. \A t \in Shard : out[t].file => out[t].total = Total(t) /\ t \in Tasks
    BY DEF CombineInv
  <2> QED
    BY <1>1, <1>2, <1>3, <1>4, <2>1, CombineCarries
<1>5. ASSUME NEW r, out' = [out EXCEPT ![s] = r], r.file, r.total = Total(s), s \in Tasks
      PROVE  CombineInv'
  <2>1. out'[s] = r /\ \A t \in Shard : t # s => out'[t] = out[t]
    BY <1>5 DEF RunInv, Shapes
  <2>2. \A t \in Shard : out[t].file => out'[t].file
    BY <1>5, <2>1
  <2>3. \A t \in Shard : out'[t].file => out'[t].total = Total(t)' /\ t \in Tasks'
    BY <1>2, <1>3, <1>5, <2>1 DEF CombineInv
  <2> QED
    BY <1>1, <1>2, <1>3, <2>2, <2>3, CombineCarries
<1>6. ASSUME LaunchEmpty(s) PROVE CombineInv'
  <2> DEFINE r == [file |-> TRUE, contract |-> FALSE, done |-> 0,
                   total |-> 0, correct |-> 0, invalid |-> 0]
  <2>1. out' = [out EXCEPT ![s] = r] /\ r.file /\ r.total = Total(s) /\ s \in Tasks
    BY <1>6 DEF LaunchEmpty
  <2> HIDE DEF r
  <2> QED
    BY <1>5, <2>1
<1>7. ASSUME WriteOut(s) PROVE CombineInv'
  <2> DEFINE r == [file |-> TRUE, contract |-> TRUE, done |-> job[s].done,
                   total |-> Total(s), correct |-> job[s].correct,
                   invalid |-> job[s].invalid]
  <2>1. out' = [out EXCEPT ![s] = r] /\ r.file /\ r.total = Total(s) /\ job[s].pc = "out"
    BY <1>7 DEF WriteOut
  <2> HIDE DEF r
  <2>2. /\ Len(job[s].asked) \in Nat /\ 1 <= Len(job[s].asked) /\ Len(job[s].gens) \in Nat
        /\ Len(job[s].gens) + Len(job[s].asked) \in 1..Total(s)
        /\ Total(s) \in Nat
    BY <2>1, SavingJob
  <2>3. Total(s) # 0
    <3> DEFINE x == Len(job[s].gens)
               y == Len(job[s].asked)
    <3>1. x + y \in 1..Total(s) /\ x \in Nat /\ y \in Nat
      BY <2>2
    <3> HIDE DEF x, y
    <3> QED
      BY <2>2, <3>1
  <2>4. s < opt.shards \/ (tail # NoTail /\ s \in DOMAIN tail.ids)
    <3>1. SUFFICES ASSUME ~(s < opt.shards), ~(tail # NoTail /\ s \in DOMAIN tail.ids) PROVE FALSE
      OBVIOUS
    <3>2. Ids(s) = <<>>
      BY <3>1 DEF Ids
    <3> QED
      BY <2>3, <3>2, EmptySeq DEF Total
  <2>5. s \in Nat /\ OptOK /\ TailOK
    BY Gsm8kRunAssumption DEF Shard, RunInv
  <2>6. opt.shards \in Nat /\ opt.tail \in Nat
    BY <2>5, Gsm8kRunAssumption DEF OptOK
  <2>7. ASSUME s < opt.shards PROVE s \in Tasks
    <3>1. s \in Shards
      BY <2>5, <2>6, <2>7 DEF Shards
    <3> QED
      BY <2>5, <3>1, TasksAre
  <2>8. ASSUME tail # NoTail, s \in DOMAIN tail.ids PROVE s \in Tasks
    <3>1. s \in opt.shards..(opt.shards + opt.tail - 1)
      BY <2>5, <2>8 DEF TailOK
    <3> QED
      BY <2>5, <2>6, <2>8, <3>1 DEF Tasks
  <2>9. s \in Tasks
    BY <2>4, <2>7, <2>8
  <2> QED
    BY <1>5, <2>1, <2>9
<1>8. LaunchEmpty(s) \/ WriteOut(s) \/ out' = out
  BY DEF Launch, JobStep, Ask, WriteGens, Exit, Kill
<1> QED
  BY <1>4, <1>6, <1>7, <1>8

\* Dealing out a tail gives no task that has a result other questions.
LEMMA ReshardCarries ==
  ASSUME RunInv, RunInv', CombineInv, [Next]_vars, NEW slow, Reshard(slow)
  PROVE  CombineInv'
<1>1. UNCHANGED <<opt, out, gens, job, reader, combined>> /\ tail = NoTail
  BY DEF Reshard
<1>2. OptOK /\ Tasks = Shards
  BY <1>1 DEF RunInv, Tasks, Shards
<1>3. \A s \in Tasks : Ids(s)' = Ids(s)
  BY <1>1, <1>2 DEF Ids, Offset, Per, Shards, OptOK
<1>4. Tasks \subseteq Tasks'
  <2>1. Shards' = Shards /\ Shards' \subseteq Tasks'
    <3>1. (OptOK => Shards \subseteq Tasks)'
      BY TasksAre, PTL
    <3> QED
      BY <1>1, <3>1 DEF RunInv, Shards
  <2> QED
    BY <1>2, <2>1
<1>5. \A s \in Shard : out'[s].file => out'[s].total = Total(s)' /\ s \in Tasks'
  BY <1>1, <1>3, <1>4 DEF CombineInv, Total
<1> QED
  BY <1>1, <1>3, <1>4, <1>5, CombineCarries

LEMMA StutterCarries ==
  ASSUME RunInv, RunInv', CombineInv, UNCHANGED vars
  PROVE  CombineInv'
<1>1. \A t : Ids(t)' = Ids(t) /\ Total(t)' = Total(t)
  BY Frozen DEF vars
<1>2. Tasks' = Tasks
  BY DEF Tasks, vars
<1> QED
  BY <1>1, <1>2, CombineCarries DEF CombineInv, vars

\* A file that is read is a result of its task.
LEMMA ReadsResult ==
  ASSUME RunInv, CombineInv, NEW s \in Shard, out[s].file
  PROVE  ReadOK(s, out[s])
<1>1. out[s] \in Results /\ TaskOK(s, out[s], gens[s], job[s])
  BY ShapesOf
<1>2. out[s].total = Total(s)
  BY DEF CombineInv
<1> QED
  BY <1>1, <1>2 DEF ReadOK, TaskOK, FilesSane, FilesSound, Spoilt, SpoiltBy

\* Nothing of what a combine says depends on what a combine does.
LEMMA ReadingKeeps ==
  ASSUME UNCHANGED <<opt, out, gens, job, tail>>
  PROVE  /\ \A s : Ids(s)' = Ids(s) /\ Total(s)' = Total(s) /\ (Spoilt(s)' <=> Spoilt(s))
         /\ Tasks' = Tasks
         /\ \A s, r : ReadOK(s, r) => ReadOK(s, r)'
<1>1. \A s : Ids(s)' = Ids(s) /\ Total(s)' = Total(s)
  BY Frozen
<1>2. \A s : Spoilt(s)' <=> Spoilt(s)
  BY <1>1 DEF Spoilt
<1>3. \A s, r : Scored(s, r) => Scored(s, r)'
  BY <1>1 DEF Scored, Slice
<1> QED
  BY <1>1, <1>2, <1>3 DEF ReadOK, Tasks

LEMMA StartCarries ==
  ASSUME RunInv, CombineInv, NEW r, NEW glob \in {"shards", "tail", "both"}, CombineStart(r, glob)
  PROVE  CombineInv'
<1> DEFINE files == {s \in Matched(glob) : out[s].file}
           got == [s \in {} |-> NoFile]
<1>1. /\ UNCHANGED <<opt, out, gens, job, tail>> /\ combined' = Reject /\ reader = NoReader
      /\ reader' = reader
         \/ reader' = [pc |-> "read", require |-> r, left |-> files, got |-> got]
  BY DEF CombineStart
<1>2. files \subseteq Tasks /\ \A s \in files : out[s].file
  <2>1. Shards \subseteq Tasks
    BY TasksAre DEF RunInv
  <2> QED
    BY <2>1 DEF Matched, Shards
<1>3. DOMAIN got = {}
  OBVIOUS
<1> HIDE DEF files, got
<1>4. /\ Tasks' = Tasks /\ \A s : Total(s)' = Total(s)
  BY <1>1, ReadingKeeps
<1>5. ~combined'.ok
  BY <1>1 DEF Reject
<1>6. reader' # NoReader =>
        /\ reader'.left = files /\ reader'.got = got
  BY <1>1
<1> QED
  BY <1>1, <1>2, <1>3, <1>4, <1>5, <1>6 DEF CombineInv

LEMMA ReadCarries ==
  ASSUME RunInv, CombineInv, CombineRead
  PROVE  CombineInv'
<1>1. UNCHANGED <<opt, out, gens, job, tail>> /\ reader.left # {} /\ reader # NoReader
  BY DEF CombineRead, NoReader
<1>2. /\ Tasks' = Tasks /\ \A s : Total(s)' = Total(s) /\ Ids(s)' = Ids(s) /\ (Spoilt(s)' <=> Spoilt(s))
      /\ \A s, r : ReadOK(s, r) => ReadOK(s, r)'
  BY <1>1, ReadingKeeps
<1>3. /\ reader.left \subseteq Tasks /\ \A s \in reader.left : out[s].file
      /\ DOMAIN reader.got \subseteq Tasks
      /\ \A s \in DOMAIN reader.got : ReadOK(s, reader.got[s])
  BY <1>1 DEF CombineInv
<1>4. \A s \in Shard : out'[s].file => out'[s].total = Total(s)' /\ s \in Tasks'
  BY <1>1, <1>2 DEF CombineInv
<1>5. CASE reader' = NoReader /\ combined' = Reject
  BY <1>4, <1>5 DEF CombineInv, Reject
<1>6. CASE reader' # NoReader
  <2> DEFINE s == CHOOSE a \in reader.left : \A b \in reader.left : a <= b
             more == [x \in DOMAIN reader.got \cup {s} |-> IF x = s THEN out[s] ELSE reader.got[x]]
  <2>1. /\ reader' = [reader EXCEPT !.left = @ \ {s}, !.got = more]
        /\ combined' = combined
    BY <1>6 DEF CombineRead
  <2>2. s \in reader.left /\ s \in Shard /\ s \in Tasks /\ out[s].file
    <3>1. Tasks \subseteq Shard
      BY TasksAre DEF RunInv
    <3>2. reader.left \in SUBSET Nat
      <4>1. Shard \subseteq Nat
        BY Gsm8kRunAssumption DEF Shard
      <4> QED
        BY <1>3, <3>1, <4>1
    <3>3. PICK a \in reader.left : \A b \in reader.left : a <= b
      BY <1>1, <3>2, LeastElement
    <3> QED
      BY <1>3, <3>1, <3>3
  <2> HIDE DEF s
  <2>3. ReadOK(s, out[s])
    BY <2>2, ReadsResult
  <2>4. /\ DOMAIN more \subseteq Tasks
        /\ \A x \in DOMAIN more : ReadOK(x, more[x])
    <3>1. DOMAIN more = DOMAIN reader.got \cup {s}
      OBVIOUS
    <3>2. more[s] = out[s] /\ \A x \in DOMAIN reader.got : x # s => more[x] = reader.got[x]
      OBVIOUS
    <3> HIDE DEF more
    <3> QED
      BY <1>3, <2>2, <2>3, <3>1, <3>2
  <2> HIDE DEF more
  <2>5. reader'.left = reader.left \ {s} /\ reader'.got = more
    <3>1. PICK require, left, got :
             reader = [pc |-> "read", require |-> require, left |-> left, got |-> got]
      BY <1>1 DEF RunInv, ReaderOK
    <3> QED
      BY <2>1, <3>1
  <2>6. /\ DOMAIN reader'.got \subseteq Tasks'
        /\ \A x \in DOMAIN reader'.got : ReadOK(x, reader.got[x])'
    <3>1. PICK got : got = more
      OBVIOUS
    <3>2. \A x \in DOMAIN got : ReadOK(x, got[x])'
      BY <1>2, <2>4, <3>1
    <3>3. reader'.got = got
      BY <2>5, <3>1
    <3> QED
      BY <1>2, <2>4, <3>1, <3>2, <3>3
  <2>7. reader'.left \subseteq Tasks' /\ \A x \in reader'.left : out'[x].file
    BY <1>1, <1>2, <1>3, <2>5
  <2>8. combined' = combined /\ Counted(combined)' = Counted(combined)
    <3>1. combined' = combined
      BY <2>1
    <3> QED
      BY <1>1, <1>2, <3>1 DEF Counted
  <2>9. combined'.ok =>
          /\ combined'.of \subseteq Tasks'
          /\ combined'.require /\ (\A x \in combined'.of : ~Spoilt(x)') => Counted(combined)'
    BY <1>2, <2>8 DEF CombineInv
  <2> QED
    BY <1>4, <2>6, <2>7, <2>9 DEF CombineInv
<1>7. reader' # NoReader \/ (reader' = NoReader /\ combined' = Reject)
  <2>1. ASSUME NEW l, NEW g, reader' = [reader EXCEPT !.left = l, !.got = g] PROVE reader' # NoReader
    <3>1. reader.pc = "read" /\ reader' = [reader EXCEPT !.left = l, !.got = g]
      BY <2>1 DEF CombineRead
    <3>2. PICK require, left, got :
             reader = [pc |-> "read", require |-> require, left |-> left, got |-> got]
      BY <1>1 DEF RunInv, ReaderOK
    <3> QED
      BY <3>1, <3>2 DEF NoReader
  <2> QED
    BY <2>1 DEF CombineRead
<1> QED
  BY <1>5, <1>6, <1>7

\* Complete results count each question of their tasks once.
LEMMA CompleteCounts ==
  ASSUME OptOK, TailOK, NEW got, DOMAIN got \subseteq Tasks,
         \A s \in DOMAIN got : ReadOK(s, got[s]) /\ ~Spoilt(s) /\ got[s].done = got[s].total,
         NEW c, c.of = DOMAIN got, c.done = SumOf(got, "done"),
         c.correct = SumOf(got, "correct"), c.invalid = SumOf(got, "invalid")
  PROVE  Counted(c)
<1> DEFINE D == DOMAIN got
           A == [s \in D |-> DOMAIN Ids(s)]
           B(g) == [s \in D |-> Graded(Ids(s), g)]
           asked == UNION {{s} \X DOMAIN Ids(s) : s \in D}
<1>1. IsFiniteSet(D) /\ D \subseteq Shard
  BY TasksAre, FS_Subset
<1>2. ASSUME NEW s \in D
      PROVE  /\ Ids(s) \in Questions /\ DOMAIN Ids(s) = 1..Total(s) /\ Total(s) \in Nat
             /\ IsFiniteSet(DOMAIN Ids(s)) /\ Cardinality(DOMAIN Ids(s)) = Total(s)
             /\ got[s].done = Total(s)
             /\ got[s].correct = Count(Ids(s), "right") /\ got[s].invalid = Count(Ids(s), "invalid")
  <2>1. Ids(s) \in Questions /\ Total(s) \in Nat
    BY <1>1, IdsIs
  <2>2. DOMAIN Ids(s) = 1..Total(s) /\ Total(s) = Len(Ids(s))
    BY <2>1, LenProperties DEF Questions, Total
  <2> DEFINE t == Total(s)
  <2>3. IsFiniteSet(1..t) /\ Cardinality(1..t) = t
    <3>1. t \in Nat
      BY <2>1
    <3> HIDE DEF t
    <3>2. IsFiniteSet(1..t) /\ Cardinality(1..t) = IF 1 > t THEN 0 ELSE t - 1 + 1
      BY <3>1, FS_Interval
    <3> QED
      BY <3>1, <3>2
  <2>4. Slice(s, 0, t) = Ids(s)
    <3>1. /\ Slice(s, 0, t) \in Questions /\ Len(Slice(s, 0, t)) = t - 0
          /\ \A i \in 1..(t - 0) : Slice(s, 0, t)[i] = Ids(s)[0 + i]
      <4>1. 0 \in Nat /\ t \in Nat /\ 0 <= t /\ t <= Total(s)
        BY <2>1
      <4> HIDE DEF t
      <4> QED
        BY <1>1, <4>1, SliceIs
    <3>2. Len(Slice(s, 0, t)) = Len(Ids(s)) /\ \A i \in 1..Len(Slice(s, 0, t)) : Slice(s, 0, t)[i] = Ids(s)[i]
      <4>1. t - 0 = t /\ \A i \in 1..t : 0 + i = i
        BY <2>1
      <4> QED
        BY <2>2, <3>1, <4>1
    <3> QED
      BY <2>1, <3>1, <3>2, SeqEqual DEF Questions
  <2>5. got[s].done = t /\ Scored(s, got[s])
    BY DEF ReadOK
  <2> QED
    BY <2>1, <2>2, <2>3, <2>4, <2>5 DEF Scored
<1>3. SumOf(got, "done") = Cardinality(asked)
  <2>1. asked = Tagged(A, D)
    <3>1. \A s \in D : A[s] = DOMAIN Ids(s)
      OBVIOUS
    <3> HIDE DEF A, D
    <3>2. {{s} \X DOMAIN Ids(s) : s \in D} = {{s} \X A[s] : s \in D}
      BY <3>1
    <3> QED
      BY <3>2 DEF Tagged
  <2>2. \A s \in D : IsFiniteSet(A[s]) /\ got[s]["done"] = Cardinality(A[s])
    BY <1>2
  <2> HIDE DEF A, asked
  <2>3. SumOf(got, "done") = Cardinality(Tagged(A, DOMAIN got))
    BY <1>1, <2>2, SumOfIs DEF D
  <2> QED
    BY <2>1, <2>3
<1>4. ASSUME NEW g, NEW field, \A s \in D : got[s][field] = Count(Ids(s), g)
      PROVE  SumOf(got, field) = Cardinality({p \in asked : Grade[Ids(p[1])[p[2]]] = g})
  <2> DEFINE G == [s \in D |-> Graded(Ids(s), g)]
  <2>1. \A s \in D : IsFiniteSet(G[s]) /\ got[s][field] = Cardinality(G[s])
    BY <1>2, <1>4, CountIs
  <2>2. {p \in asked : Grade[Ids(p[1])[p[2]]] = g} = Tagged(G, D)
    <3>1. ASSUME NEW p \in Tagged(G, D) PROVE p \in asked /\ Grade[Ids(p[1])[p[2]]] = g
      <4>1. p = <<p[1], p[2]>> /\ p[1] \in D /\ p[2] \in G[p[1]]
        <5> HIDE DEF G
        <5> QED
          BY TaggedIs
      <4>2. p[2] \in DOMAIN Ids(p[1]) /\ Grade[Ids(p[1])[p[2]]] = g
        BY <1>2, <4>1 DEF Graded, Total
      <4>3. p \in {p[1]} \X DOMAIN Ids(p[1])
        BY <4>1, <4>2
      <4> QED
        BY <4>1, <4>2, <4>3
    <3>2. ASSUME NEW p \in asked, Grade[Ids(p[1])[p[2]]] = g PROVE p \in Tagged(G, D)
      <4>1. PICK s \in D : p \in {s} \X DOMAIN Ids(s)
        OBVIOUS
      <4>2. p = <<s, p[2]>> /\ p[1] = s /\ p[2] \in DOMAIN Ids(s)
        BY <4>1
      <4>3. p[2] \in G[s]
        BY <1>2, <3>2, <4>2 DEF Graded, Total
      <4> HIDE DEF G, D
      <4>4. <<s, p[2]>> \in Tagged(G, D)
        BY <4>1, <4>3, TaggedIs
      <4> QED
        BY <4>2, <4>4
    <3> HIDE DEF asked, G
    <3> QED
      BY <3>1, <3>2
  <2> HIDE DEF G, asked
  <2>3. SumOf(got, field) = Cardinality(Tagged(G, DOMAIN got))
    BY <1>1, <2>1, SumOfIs DEF D
  <2> QED
    BY <2>2, <2>3
<1>5. \A s \in D : got[s]["correct"] = Count(Ids(s), "right") /\ got[s]["invalid"] = Count(Ids(s), "invalid")
  BY <1>2
<1>6. D = Shards => Cardinality(asked) = opt.n
  <2>1. SUFFICES ASSUME D = Shards PROVE Cardinality(asked) = opt.n
    OBVIOUS
  <2>2. asked = Tagged(A, Shards)
    <3>1. \A s \in D : A[s] = DOMAIN Ids(s)
      OBVIOUS
    <3> HIDE DEF A, D
    <3>2. {{s} \X DOMAIN Ids(s) : s \in D} = {{s} \X A[s] : s \in Shards}
      BY <2>1, <3>1
    <3> QED
      BY <3>2 DEF Tagged
  <2>3. \A s \in Shards : A[s] = 1..Total(s)
    BY <1>2, <2>1
  <2> HIDE DEF A, asked
  <2> QED
    BY <2>2, <2>3, ShardsAsk
<1>7. SumOf(got, "correct") = Cardinality({p \in asked : Grade[Ids(p[1])[p[2]]] = "right"})
  BY <1>4, <1>5
<1>8. SumOf(got, "invalid") = Cardinality({p \in asked : Grade[Ids(p[1])[p[2]]] = "invalid"})
  BY <1>4, <1>5
<1> QED
  BY <1>3, <1>6, <1>7, <1>8 DEF Counted, Shards

LEMMA EndCarries ==
  ASSUME RunInv, CombineInv, CombineEnd
  PROVE  CombineInv'
<1>1. UNCHANGED <<opt, out, gens, job, tail>> /\ reader' = NoReader /\ reader # NoReader
  BY DEF CombineEnd, NoReader
<1>2. Tasks' = Tasks /\ \A s : Total(s)' = Total(s) /\ Ids(s)' = Ids(s) /\ (Spoilt(s)' <=> Spoilt(s))
  BY <1>1, ReadingKeeps
<1>3. DOMAIN reader.got \subseteq Tasks /\ \A s \in DOMAIN reader.got : ReadOK(s, reader.got[s])
  BY <1>1 DEF CombineInv
<1> DEFINE c == [ok |-> TRUE, require |-> reader.require, of |-> DOMAIN reader.got,
                 done    |-> SumOf(reader.got, "done"),
                 correct |-> SumOf(reader.got, "correct"),
                 invalid |-> SumOf(reader.got, "invalid")]
<1>4. combined' = Reject \/ (combined' = c /\ Accepted(reader.got, reader.require))
  BY DEF CombineEnd
<1>5. ASSUME Accepted(reader.got, reader.require), reader.require,
             \A s \in DOMAIN reader.got : ~Spoilt(s)
      PROVE  Counted(c)
  <2>1. \A s \in DOMAIN reader.got : reader.got[s].done = reader.got[s].total
    BY <1>5 DEF Accepted
  <2>2. OptOK /\ TailOK
    BY DEF RunInv
  <2>3. PICK got : got = reader.got
    OBVIOUS
  <2>4. /\ c.of = DOMAIN got /\ c.done = SumOf(got, "done")
        /\ c.correct = SumOf(got, "correct") /\ c.invalid = SumOf(got, "invalid")
    BY <2>3
  <2> HIDE DEF c
  <2> QED
    BY <1>3, <1>5, <2>1, <2>2, <2>3, <2>4, CompleteCounts
<1>6. combined'.ok =>
        /\ combined'.of \subseteq Tasks'
        /\ combined'.require /\ (\A s \in combined'.of : ~Spoilt(s)') => Counted(combined)'
  <2>1. SUFFICES ASSUME combined'.ok
                 PROVE  /\ combined'.of \subseteq Tasks'
                        /\ combined'.require /\ (\A s \in combined'.of : ~Spoilt(s)') => Counted(combined)'
    OBVIOUS
  <2>2. combined' = c /\ Accepted(reader.got, reader.require)
    BY <1>4, <2>1 DEF Reject
  <2>3. PICK d : d = c
    OBVIOUS
  <2>4. d.require = reader.require /\ d.of = DOMAIN reader.got
    BY <2>3
  <2> HIDE DEF c
  <2>5. Counted(d)' = Counted(d)
    BY <1>1, <1>2 DEF Counted
  <2>6. combined' = d
    BY <2>2, <2>3
  <2>7. Counted(combined)' = Counted(d)'
    BY <2>6 DEF Counted
  <2> QED
    BY <1>2, <1>3, <1>5, <2>2, <2>3, <2>4, <2>5, <2>6, <2>7
<1> QED
  BY <1>1, <1>2, <1>6 DEF CombineInv

LEMMA InitCombine == Init => CombineInv
<1> SUFFICES ASSUME Init PROVE CombineInv
  OBVIOUS
<1>1. \A s \in Shard : out[s] = NoFile
  BY DEF Init
<1>2. reader = NoReader /\ ~combined.ok
  BY DEF Init, Reject
<1> QED
  BY <1>1, <1>2 DEF CombineInv, NoFile

LEMMA NextCombine == RunInv /\ RunInv' /\ CombineInv /\ [Next]_vars => CombineInv'
<1> SUFFICES ASSUME RunInv, RunInv', CombineInv, [Next]_vars PROVE CombineInv'
  OBVIOUS
<1>1. ASSUME NEW s \in Shard, Launch(s) \/ LaunchEmpty(s) \/ JobStep(s) \/ Kill(s)
      PROVE  CombineInv'
  BY <1>1, JobsCarry
<1>2. ASSUME NEW r, NEW glob \in {"shards", "tail", "both"}, CombineStart(r, glob)
      PROVE  CombineInv'
  BY <1>2, StartCarries
<1>3. ASSUME CombineRead PROVE CombineInv'
  BY <1>3, ReadCarries
<1>4. ASSUME CombineEnd PROVE CombineInv'
  BY <1>4, EndCarries
<1>5. ASSUME NEW slow, Reshard(slow) PROVE CombineInv'
  BY <1>5, ReshardCarries
<1>6. ASSUME UNCHANGED vars PROVE CombineInv'
  BY <1>6, StutterCarries
<1> QED
  BY <1>1, <1>2, <1>3, <1>4, <1>5, <1>6 DEF Next

\* A combine that requires completeness and accepts has counted every question
\* of its tasks once, and of the run if it read the shards, in whatever order
\* it read their files while jobs were killed, resumed and wrote them.
THEOREM CombineIsExact == Spec => []CombineExact
<1>1. RunInv /\ CombineInv => CombineExact
  <2> SUFFICES ASSUME RunInv, CombineInv, combined.ok, combined.require, \A s \in Shard : ~Spoilt(s)
               PROVE  Counted(combined)
    BY DEF CombineExact, Counted
  <2>1. Tasks \subseteq Shard
    BY TasksAre DEF RunInv
  <2> QED
    BY <2>1 DEF CombineInv
<1> QED
  BY <1>1, RunInvariant, InitCombine, NextCombine, PTL DEF Spec

-----------------------------------------------------------------------------
(* A tail loses no question and repeats none.                              *)

\* Ordered(S) lists all of S.
LEMMA OrderedAll ==
  ASSUME NEW n \in Nat, NEW S \in SUBSET (0..(n - 1))
  PROVE  /\ \A i \in 1..Len(Ordered(S)) : Ordered(S)[i] \in S
         /\ \A q \in S : \E i \in 1..Len(Ordered(S)) : Ordered(S)[i] = q
<1>1. PICK qs : IsOrder(qs, S)
  BY OrderExists
<1> DEFINE c == Cardinality(S)
           os == Ordered(S)
<1>2. os \in [1..c -> S]
  BY <1>1 DEF Ordered, IsOrder
<1>3. IsFiniteSet(S) /\ c \in Nat
  <2>1. IsFiniteSet(0..(n - 1))
    BY FS_Interval
  <2> QED
    BY <2>1, FS_Subset, FS_CardinalityType
<1>4. os \in Questions /\ Distinct(os)
  BY OrderedIs
<1> HIDE DEF c, os
<1>5. os \in Injection(1..c, S)
  BY <1>2, <1>4 DEF Injection, IsInjective, Distinct
<1>6. IsFiniteSet(1..c) /\ Cardinality(1..c) = c
  <2>1. IsFiniteSet(1..c) /\ Cardinality(1..c) = IF 1 > c THEN 0 ELSE c - 1 + 1
    BY <1>3, FS_Interval
  <2> QED
    BY <1>3, <2>1
<1>7. os \in Surjection(1..c, S)
  BY <1>3, <1>5, <1>6, FS_Injection DEF c
<1>8. Len(os) = c
  BY <1>2, <1>3, <1>4, LenProperties DEF Questions
<1> QED
  BY <1>2, <1>7, <1>8 DEF os, Surjection

\* What a task of the tail is dealt: the next `part` questions, while there are.
LEMMA DealtAt ==
  ASSUME OptOK, opt.tail > 0, NEW qs \in Questions
  PROVE  \E part \in Nat :
            /\ Len(qs) <= opt.tail * part
            /\ \A k \in Nat :
                  /\ Len(Dealt(qs, k)) \in Nat /\ Len(Dealt(qs, k)) <= part
                  /\ \A i \in 1..part : k * part + i <= Len(qs) => i <= Len(Dealt(qs, k))
                  /\ \A i \in 1..Len(Dealt(qs, k)) :
                        k * part + i \in 1..Len(qs) /\ Dealt(qs, k)[i] = qs[k * part + i]
<1> DEFINE t == opt.tail
           l == Len(qs)
           m == l + t - 1
           part == m \div t
<1>1. t \in Nat \ {0} /\ l \in Nat /\ m \in Nat /\ m = l + t - 1
  <2>1. t \in Nat \ {0} /\ l \in Nat
    BY LenProperties, Gsm8kRunAssumption DEF OptOK, Questions
  <2> HIDE DEF t, l
  <2> QED
    BY <2>1
<1> HIDE DEF m
<1>2. m = part * t + (m % t) /\ m % t \in 0..(t - 1) /\ part \in Nat
  <2> HIDE DEF t
  <2> QED
    BY <1>1, DivMod
<1>3. \A k : Dealt(qs, k) = SubSeq(qs, k * part + 1, IF (k + 1) * part < l THEN (k + 1) * part ELSE l)
  BY DEF Dealt, m
<1> HIDE DEF part, l, t
<1>4. part * t \in Nat /\ part * t = t * part
  BY <1>1, <1>2
<1>5. l <= t * part
  BY <1>1, <1>2, <1>4
<1>6. ASSUME NEW k \in Nat
      PROVE  /\ Len(Dealt(qs, k)) \in Nat /\ Len(Dealt(qs, k)) <= part
             /\ \A i \in 1..part : k * part + i <= l => i <= Len(Dealt(qs, k))
             /\ \A i \in 1..Len(Dealt(qs, k)) :
                   k * part + i \in 1..l /\ Dealt(qs, k)[i] = qs[k * part + i]
  <2> DEFINE a == k * part
             b == IF a + part < l THEN a + part ELSE l
  <2>1. a \in Nat /\ (k + 1) * part = a + part
    BY <1>2
  <2>2. Dealt(qs, k) = SubSeq(qs, a + 1, b)
    BY <1>3, <2>1
  <2> HIDE DEF a
  <2>3. b \in Nat /\ b <= l /\ b <= a + part
    BY <1>1, <1>2, <2>1
  <2>4. CASE a <= b
    <3>1. Len(Dealt(qs, k)) = b - a /\ \A i \in 1..(b - a) : Dealt(qs, k)[i] = qs[a + i]
      BY <2>1, <2>2, <2>3, <2>4, Part DEF l
    <3>2. \A i \in 1..part : a + i <= l => i <= b - a
      BY <1>1, <1>2, <2>1
    <3>3. b - a \in Nat /\ b - a <= part /\ \A i \in 1..(b - a) : a + i \in 1..l
      BY <1>1, <1>2, <2>1, <2>3, <2>4
    <3> HIDE DEF b
    <3> QED
      BY <3>1, <3>2, <3>3 DEF a
  <2>5. CASE ~(a <= b)
    <3>1. Dealt(qs, k) = <<>>
      BY <2>1, <2>2, <2>3, <2>5, SubSeqEmpty
    <3>2. Len(Dealt(qs, k)) = 0
      BY <3>1, EmptySeq
    <3>3. \A i \in 1..part : ~(a + i <= l)
      BY <1>1, <1>2, <2>1, <2>5
    <3>4. \A i \in 1..Len(Dealt(qs, k)) : FALSE
      BY <3>2
    <3>5. \A i \in 1..part : ~(k * part + i <= l)
      BY <3>3 DEF a
    <3>6. Len(Dealt(qs, k)) \in Nat /\ Len(Dealt(qs, k)) <= part
      BY <1>2, <3>2
    <3> QED
      BY <3>4, <3>5, <3>6, Zenon
  <2> QED
    BY <2>4, <2>5
<1> QED
  BY <1>2, <1>5, <1>6 DEF l, t

\* Each is dealt to a task, and to one only.
LEMMA DealtAll ==
  ASSUME OptOK, opt.tail > 0, NEW qs \in Questions, NEW m \in 1..Len(qs)
  PROVE  \E k \in 0..(opt.tail - 1) : \E i \in 1..Len(Dealt(qs, k)) : Dealt(qs, k)[i] = qs[m]
<1>1. opt.tail \in Nat \ {0} /\ Len(qs) \in Nat /\ m \in Nat \ {0} /\ m <= Len(qs)
  BY LenProperties, Gsm8kRunAssumption DEF OptOK, Questions
<1>2. PICK part \in Nat :
         /\ Len(qs) <= opt.tail * part
         /\ \A k \in Nat :
               /\ \A i \in 1..part : k * part + i <= Len(qs) => i <= Len(Dealt(qs, k))
               /\ Len(Dealt(qs, k)) \in Nat
               /\ \A i \in 1..Len(Dealt(qs, k)) : Dealt(qs, k)[i] = qs[k * part + i]
  BY DealtAt
<1> DEFINE k == (m - 1) \div part
           e == (m - 1) % part
<1>3. part # 0 /\ m - 1 \in Nat
  <2>1. part = 0 => opt.tail * part = 0
    BY <1>1
  <2>2. Len(qs) <= opt.tail * part
    BY <1>2
  <2> QED
    BY <1>1, <2>1, <2>2
<1>4. m - 1 = k * part + e /\ e \in 0..(part - 1) /\ k \in Nat
  BY <1>2, <1>3, DivMod
<1> HIDE DEF k, e
<1> DEFINE a == k * part
           b == opt.tail * part
<1>5. a \in Nat /\ b \in Nat
  BY <1>1, <1>4
<1>6. k < opt.tail
  <2>1. SUFFICES ASSUME ~(k < opt.tail) PROVE FALSE
    OBVIOUS
  <2>2. b <= a
    <3>1. ASSUME k = opt.tail PROVE b <= a
      BY <1>5, <3>1
    <3>2. ASSUME opt.tail < k PROVE b <= a
      <4>1. b + part <= a
        BY <1>1, <1>3, <1>4, <3>2, MultiplesApart
      <4> HIDE DEF a, b
      <4> QED
        BY <1>5, <4>1
    <3> QED
      BY <1>1, <1>4, <2>1, <3>1, <3>2
  <2>3. Len(qs) <= b /\ m - 1 = a + e
    BY <1>2, <1>4
  <2> HIDE DEF a, b
  <2> QED
    BY <1>1, <1>2, <1>4, <1>5, <2>2, <2>3
<1>7. e + 1 \in 1..part /\ a + (e + 1) = m
  <2>1. m - 1 = a + e
    BY <1>4
  <2>2. part \in Nat \ {0}
    BY <1>3
  <2> HIDE DEF a, b
  <2> QED
    BY <1>1, <1>4, <1>5, <2>1, <2>2
<1>8. e + 1 \in 1..Len(Dealt(qs, k)) /\ Dealt(qs, k)[e + 1] = qs[m]
  <2>1. e + 1 <= Len(Dealt(qs, k)) /\ Len(Dealt(qs, k)) \in Nat
    BY <1>1, <1>2, <1>4, <1>7
  <2>2. e + 1 \in 1..Len(Dealt(qs, k))
    BY <1>4, <2>1
  <2> QED
    BY <1>2, <1>4, <1>7, <2>2
<1> QED
  BY <1>1, <1>4, <1>6, <1>8

LEMMA DealtApart ==
  ASSUME OptOK, opt.tail > 0, NEW qs \in Questions, Distinct(qs), NEW k \in Nat, NEW j \in Nat,
         NEW x \in 1..Len(Dealt(qs, k)), NEW y \in 1..Len(Dealt(qs, j)),
         Dealt(qs, k)[x] = Dealt(qs, j)[y]
  PROVE  k = j /\ x = y
<1>1. PICK part \in Nat :
         \A i \in Nat :
            /\ Len(Dealt(qs, i)) \in Nat /\ Len(Dealt(qs, i)) <= part
            /\ \A z \in 1..Len(Dealt(qs, i)) :
                  i * part + z \in 1..Len(qs) /\ Dealt(qs, i)[z] = qs[i * part + z]
  BY DealtAt
<1>2. DOMAIN qs = 1..Len(qs)
  BY LenProperties DEF Questions
<1> DEFINE a == k * part
           b == j * part
<1>3. a + x = b + y
  <2>1. a + x \in 1..Len(qs) /\ b + y \in 1..Len(qs) /\ qs[a + x] = qs[b + y]
    BY <1>1
  <2> HIDE DEF a, b
  <2> QED
    BY <1>2, <2>1 DEF Distinct
<1>4. x \in 1..part /\ y \in 1..part /\ part # 0
  BY <1>1
<1>5. a \in Nat /\ b \in Nat
  OBVIOUS
<1>6. ~(k < j)
  <2>1. SUFFICES ASSUME k < j PROVE FALSE
    OBVIOUS
  <2>2. a + part <= b
    BY <1>4, <2>1, MultiplesApart
  <2> HIDE DEF a, b
  <2> QED
    BY <1>3, <1>4, <1>5, <2>2
<1>7. ~(j < k)
  <2>1. SUFFICES ASSUME j < k PROVE FALSE
    OBVIOUS
  <2>2. b + part <= a
    BY <1>4, <2>1, MultiplesApart
  <2> HIDE DEF a, b
  <2> QED
    BY <1>3, <1>4, <1>5, <2>2
<1>8. k = j
  BY <1>6, <1>7
<1>9. a = b
  BY <1>8
<1> HIDE DEF a, b
<1> QED
  BY <1>3, <1>4, <1>5, <1>8, <1>9

Answered(g) == IF g = NoGens THEN {} ELSE ToSet(g)

\* The questions that were left when the tail was dealt out.
Left == {q \in 0..(opt.n - 1) : \E s \in tail.slow : q \in ToSet(Ids(s)) \ Answered(tail.had[s])}

Begins(x, y) ==
    x # NoGens => /\ y # NoGens /\ Len(x) <= Len(y)
                  /\ \A i \in 1..Len(x) : y[i] = x[i]

TailInv ==
    tail # NoTail =>
        /\ opt.tail > 0 /\ tail.slow \subseteq Shards
        /\ \A s \in tail.slow : tail.had[s] \in {NoGens} \cup Questions /\ Begins(tail.had[s], gens[s])
        /\ tail.ids = [t \in opt.shards..(opt.shards + opt.tail - 1) |->
                         Dealt(Ordered(Left), t - opt.shards)]

\* The parts of the tail are the questions that were left, each once.
LEMMA PartsAre ==
  ASSUME OptOK, TailInv, tail # NoTail
  PROVE  /\ DOMAIN tail.ids = opt.shards..(opt.shards + opt.tail - 1)
         /\ \A t \in DOMAIN tail.ids :
               /\ tail.ids[t] \in Questions
               /\ \A i \in 1..Len(tail.ids[t]) : tail.ids[t][i] \in Left
         /\ \A q \in Left : \E t \in DOMAIN tail.ids : \E i \in 1..Len(tail.ids[t]) : tail.ids[t][i] = q
         /\ \A t, u \in DOMAIN tail.ids : \A i \in 1..Len(tail.ids[t]), j \in 1..Len(tail.ids[u]) :
               tail.ids[t][i] = tail.ids[u][j] => t = u /\ i = j
<1> DEFINE qs == Ordered(Left)
           D == opt.shards..(opt.shards + opt.tail - 1)
<1>1. opt.tail \in Nat \ {0} /\ opt.shards \in Nat /\ opt.n \in Nat /\ opt.tail > 0
  BY Gsm8kRunAssumption DEF TailInv, OptOK
<1>2. DOMAIN tail.ids = D /\ \A t \in D : tail.ids[t] = Dealt(qs, t - opt.shards)
  BY DEF TailInv
<1>3. Left \in SUBSET (0..(opt.n - 1))
  BY DEF Left
<1>4. /\ qs \in Questions /\ Distinct(qs)
      /\ \A i \in 1..Len(qs) : qs[i] \in Left
      /\ \A q \in Left : \E i \in 1..Len(qs) : qs[i] = q
  <2> HIDE DEF D
  <2> QED
    BY <1>1, <1>3, OrderedIs, OrderedAll
<1> HIDE DEF qs
<1>5. \A t \in D : t - opt.shards \in Nat
  BY <1>1
<1>6. ASSUME NEW t \in D
      PROVE  /\ Dealt(qs, t - opt.shards) \in Questions
             /\ \A i \in 1..Len(Dealt(qs, t - opt.shards)) : Dealt(qs, t - opt.shards)[i] \in Left
  <2> DEFINE k == t - opt.shards
  <2>1. k \in Nat
    BY <1>5
  <2> HIDE DEF k
  <2>2. Dealt(qs, k) \in Questions
    BY <1>1, <1>4, <2>1, DealtIs
  <2>3. PICK part \in Nat : \A i \in 1..Len(Dealt(qs, k)) :
           k * part + i \in 1..Len(qs) /\ Dealt(qs, k)[i] = qs[k * part + i]
    BY <1>1, <1>4, <2>1, DealtAt
  <2> DEFINE a == k * part
  <2>4. \A i \in 1..Len(Dealt(qs, k)) : a + i \in 1..Len(qs) /\ Dealt(qs, k)[i] = qs[a + i]
    BY <2>3
  <2> HIDE DEF a
  <2> QED
    BY <1>4, <2>2, <2>4 DEF k
<1>7. ASSUME NEW q \in Left
      PROVE  \E t \in D : \E i \in 1..Len(Dealt(qs, t - opt.shards)) : Dealt(qs, t - opt.shards)[i] = q
  <2>1. PICK m \in 1..Len(qs) : qs[m] = q
    BY <1>4
  <2>2. PICK k \in 0..(opt.tail - 1) : \E i \in 1..Len(Dealt(qs, k)) : Dealt(qs, k)[i] = q
    BY <1>1, <1>4, <2>1, DealtAll
  <2>3. opt.shards + k \in D /\ (opt.shards + k) - opt.shards = k
    BY <1>1
  <2> HIDE DEF D
  <2> QED
    BY <2>2, <2>3
<1>8. ASSUME NEW t \in D, NEW u \in D,
             NEW i \in 1..Len(Dealt(qs, t - opt.shards)), NEW j \in 1..Len(Dealt(qs, u - opt.shards)),
             Dealt(qs, t - opt.shards)[i] = Dealt(qs, u - opt.shards)[j]
      PROVE  t = u /\ i = j
  <2>1. t - opt.shards \in Nat /\ u - opt.shards \in Nat
    BY <1>5
  <2>2. t - opt.shards = u - opt.shards /\ i = j
    BY <1>1, <1>4, <1>8, <2>1, DealtApart
  <2>3. t \in Int /\ u \in Int
    BY <1>1
  <2> QED
    BY <1>1, <2>2, <2>3
<1> HIDE DEF D
<1>9. \A t, u \in D : \A i \in 1..Len(tail.ids[t]), j \in 1..Len(tail.ids[u]) :
         tail.ids[t][i] = tail.ids[u][j] => t = u /\ i = j
  BY <1>2, <1>8
<1>10. \A q \in Left : \E t \in D : \E i \in 1..Len(tail.ids[t]) : tail.ids[t][i] = q
  BY <1>2, <1>7
<1>11. \A t \in D : tail.ids[t] \in Questions /\ \A i \in 1..Len(tail.ids[t]) : tail.ids[t][i] \in Left
  BY <1>2, <1>6
<1> QED
  BY <1>2, <1>9, <1>10, <1>11 DEF D

\* Where the answers file of a slow shard stood, it still stands.
LEMMA NextTail ==
  ASSUME RunInv, TailInv, [Next]_vars
  PROVE  TailInv'
<1>1. ASSUME NEW s \in Shard PROVE gens[s] \in {NoGens} \cup Questions /\ Begins(gens[s], gens'[s])
  <2>1. gens[s] \in {NoGens} \cup Questions
    BY ShapesOf
  <2> QED
    BY <1>1, <2>1, AnswersGrow DEF Begins
<1>2. OptOK /\ Shards \subseteq Shard
  BY TasksAre DEF RunInv
<1>3. opt' = opt
  <2>1. ASSUME NEW s, Launch(s) \/ LaunchEmpty(s) \/ JobStep(s) \/ Kill(s) PROVE opt' = opt
    BY <2>1 DEF Launch, LaunchEmpty, JobStep, Ask, WriteOut, WriteGens, Exit, Kill
  <2>2. ASSUME (\E r, glob : CombineStart(r, glob)) \/ CombineRead \/ CombineEnd
               \/ (\E slow : Reshard(slow)) \/ UNCHANGED vars
        PROVE  opt' = opt
    BY <2>2 DEF CombineStart, CombineRead, CombineEnd, Reshard, vars
  <2> QED
    BY <2>1, <2>2 DEF Next
<1>4. ASSUME tail' = tail PROVE TailInv'
  <2>1. SUFFICES ASSUME tail # NoTail PROVE TailInv'
    BY <1>4 DEF TailInv
  <2>2. \A s : Ids(s)' = Ids(s)
    BY <1>3, <1>4, Frozen
  <2>3. Left' = Left /\ Shards' = Shards
    BY <1>3, <1>4, <2>2 DEF Left, Shards
  <2>4. opt.tail > 0 /\ tail.slow \subseteq Shards
    BY <2>1 DEF TailInv
  <2>5. \A s \in tail.slow : tail.had[s] \in {NoGens} \cup Questions /\ Begins(tail.had[s], gens'[s])
    <3> SUFFICES ASSUME NEW s \in tail.slow
                 PROVE  tail.had[s] \in {NoGens} \cup Questions /\ Begins(tail.had[s], gens'[s])
      OBVIOUS
    <3> DEFINE h == tail.had[s]
               g == gens[s]
               z == gens'[s]
    <3>1. h \in {NoGens} \cup Questions /\ Begins(h, g)
      BY <2>1 DEF TailInv
    <3>2. g \in {NoGens} \cup Questions /\ Begins(g, z)
      BY <1>1, <1>2, <2>4
    <3>3. CASE h = NoGens
      BY <3>3 DEF Begins
    <3>4. CASE h # NoGens
      <4>1. g # NoGens /\ z # NoGens /\ h \in Questions /\ g \in Questions
        BY <3>1, <3>2, <3>4 DEF Begins
      <4>2. Len(h) <= Len(g) /\ Len(g) <= Len(z) /\ Len(h) \in Nat /\ Len(g) \in Nat
        BY <3>1, <3>2, <3>4, <4>1, LenProperties DEF Begins, Questions
      <4>3. gens[s] # NoGens /\ s \in Shard
        BY <1>2, <2>4, <4>1
      <4>4. Len(z) \in Nat
        BY <4>3, AnswersGrow
      <4>5. (\A i \in 1..Len(h) : g[i] = h[i]) /\ \A i \in 1..Len(g) : z[i] = g[i]
        BY <3>1, <3>2, <3>4, <4>1 DEF Begins
      <4> HIDE DEF h, g, z
      <4>6. Len(h) <= Len(z) /\ \A i \in 1..Len(h) : z[i] = h[i]
        BY <4>2, <4>4, <4>5
      <4>7. h \in {NoGens} \cup Questions /\ Begins(h, z)
        BY <4>1, <4>6 DEF Begins
      <4> QED
        BY <4>7 DEF h, z
    <3> QED
      BY <3>3, <3>4
  <2>6. tail.ids = [t \in opt.shards..(opt.shards + opt.tail - 1) |->
                      Dealt(Ordered(Left), t - opt.shards)]
    BY <2>1 DEF TailInv
  <2>7. \A qs, k : Dealt(qs, k)' = Dealt(qs, k)
    BY <1>3 DEF Dealt
  <2>8. PICK l : l = Left /\ l = Left'
    BY <2>3
  <2>9. (tail.ids = [t \in opt.shards..(opt.shards + opt.tail - 1) |->
                      Dealt(Ordered(Left), t - opt.shards)])'
    <3>1. tail.ids = [t \in opt.shards..(opt.shards + opt.tail - 1) |->
                        Dealt(Ordered(l), t - opt.shards)]
      BY <2>6, <2>8
    <3>2. (tail.ids = [t \in opt.shards..(opt.shards + opt.tail - 1) |->
                        Dealt(Ordered(l), t - opt.shards)])'
      BY <1>3, <1>4, <3>1 DEF Dealt
    <3>3. Ordered(l) = Ordered(Left')
      BY <2>8
    <3> QED
      BY <3>2, <3>3 DEF Dealt
  <2> QED
    BY <1>3, <1>4, <2>3, <2>4, <2>5, <2>9 DEF TailInv, Begins
<1>5. ASSUME NEW slow \in SUBSET Shards, Reshard(slow) PROVE TailInv'
  <2>1. /\ opt.tail > 0 /\ UNCHANGED <<opt, gens>> /\ tail = NoTail
        /\ tail' = [slow |-> slow,
                    ids |-> [t \in opt.shards..(opt.shards + opt.tail - 1) |->
                               Dealt(Remaining(slow), t - opt.shards)],
                    had |-> [s \in slow |-> gens[s]]]
    BY <1>5 DEF Reshard
  <2>2. \A s \in Shards : Ids(s)' = Ids(s)
    BY <1>2, <2>1 DEF Ids, Offset, Per, Shards, OptOK
  <2>3. tail'.slow = slow /\ \A s \in slow : tail'.had[s] = gens[s]
    BY <2>1
  <2>4. Remaining(slow) = Ordered(Left')
    <3> DEFINE S == {q \in 0..(opt.n - 1) : \E s \in slow :
                       q \in ToSet(Ids(s)) \ IF gens[s] = NoGens THEN {} ELSE ToSet(gens[s])}
    <3>1. Remaining(slow) = Ordered(S)
      BY DEF Remaining
    <3>2. \A s \in slow : Ids(s)' = Ids(s) /\ Answered(tail.had[s])'
                            = IF gens[s] = NoGens THEN {} ELSE ToSet(gens[s])
      BY <2>2, <2>3 DEF Answered
    <3>3. Left' = {q \in 0..(opt.n - 1) : \E s \in slow : q \in ToSet(Ids(s)') \ Answered(tail.had[s])'}
      BY <2>1, <2>3 DEF Left
    <3>4. Left' = S
      BY <3>2, <3>3
    <3> HIDE DEF S
    <3> QED
      BY <3>1, <3>4
  <2>5. \A s \in slow : /\ tail'.had[s] \in {NoGens} \cup Questions
                        /\ Begins(tail'.had[s], gens'[s])
    BY <1>1, <1>2, <2>1, <2>3 DEF Begins
  <2>6. (tail.ids = [t \in opt.shards..(opt.shards + opt.tail - 1) |->
                      Dealt(Ordered(Left), t - opt.shards)])'
    <3>1. PICK qs : qs = Remaining(slow) /\ qs = Ordered(Left')
      BY <2>4
    <3>2. tail'.ids = [t \in opt.shards..(opt.shards + opt.tail - 1) |-> Dealt(qs, t - opt.shards)]
      BY <2>1, <3>1
    <3>3. \A k : Dealt(qs, k)' = Dealt(qs, k)
      BY <2>1 DEF Dealt
    <3>4. (tail.ids = [t \in opt.shards..(opt.shards + opt.tail - 1) |-> Dealt(qs, t - opt.shards)])'
      BY <2>1, <3>2, <3>3
    <3> QED
      BY <3>1, <3>4 DEF Dealt
  <2>7. Shards' = Shards
    BY <2>1 DEF Shards
  <2> QED
    BY <2>1, <2>3, <2>5, <2>6, <2>7 DEF TailInv, Begins
<1>6. tail' = tail \/ \E slow \in SUBSET Shards : Reshard(slow)
  <2>1. ASSUME NEW s, Launch(s) \/ LaunchEmpty(s) \/ JobStep(s) \/ Kill(s) PROVE tail' = tail
    BY <2>1 DEF Launch, LaunchEmpty, JobStep, Ask, WriteOut, WriteGens, Exit, Kill
  <2>2. ASSUME (\E r, glob : CombineStart(r, glob)) \/ CombineRead \/ CombineEnd \/ UNCHANGED vars
        PROVE  tail' = tail
    BY <2>2 DEF CombineStart, CombineRead, CombineEnd, vars
  <2> QED
    BY <2>1, <2>2 DEF Next, Shards
<1> QED
  BY <1>4, <1>5, <1>6

\* A question of a slow shard is answered there or dealt out, once; and not
\* both if the shard has been stopped.
LEMMA SlowQuestion ==
  ASSUME RunInv, TailInv, tail # NoTail, NEW s \in tail.slow, NEW q \in ToSet(Ids(s)),
         NEW parts, parts = {t \in DOMAIN tail.ids : q \in ToSet(tail.ids[t])}
  PROVE  /\ q \in Answered(gens[s]) \/ parts # {}
         /\ Cardinality(parts) <= 1
         /\ gens[s] = tail.had[s] => q \notin Answered(gens[s]) \/ parts = {}
<1>1. OptOK /\ TailOK /\ s \in Shards /\ s \in Shard
  BY TasksAre DEF RunInv, TailInv
<1>2. Ids(s) \in Questions /\ DOMAIN Ids(s) = 1..Total(s) /\ Total(s) = Len(Ids(s))
  BY <1>1, IdsIs, ShardIds DEF Total
<1>3. PICK i \in 1..Total(s) : Ids(s)[i] = q
  BY <1>2, ToSetIs
<1>4. q \in 0..(opt.n - 1)
  BY <1>1, <1>3, ShardIds
<1>5. /\ \A t \in DOMAIN tail.ids :
            /\ tail.ids[t] \in Questions
            /\ \A j \in 1..Len(tail.ids[t]) : tail.ids[t][j] \in Left
      /\ \A r \in Left : \E t \in DOMAIN tail.ids : \E j \in 1..Len(tail.ids[t]) : tail.ids[t][j] = r
      /\ \A t, u \in DOMAIN tail.ids : \A j \in 1..Len(tail.ids[t]), k \in 1..Len(tail.ids[u]) :
            tail.ids[t][j] = tail.ids[u][k] => t = u /\ j = k
  BY <1>1, PartsAre
<1>6. \A t \in parts : t \in DOMAIN tail.ids /\ \E j \in 1..Len(tail.ids[t]) : tail.ids[t][j] = q
  BY <1>5, ToSetIs
<1>7. Answered(tail.had[s]) \subseteq Answered(gens[s])
  <2>1. tail.had[s] \in {NoGens} \cup Questions /\ Begins(tail.had[s], gens[s])
    BY DEF TailInv
  <2>2. CASE tail.had[s] = NoGens
    BY <2>2 DEF Answered
  <2>3. CASE tail.had[s] # NoGens
    <3> DEFINE h == tail.had[s]
               g == gens[s]
    <3>1. h \in Questions /\ g # NoGens /\ Len(h) <= Len(g) /\ \A j \in 1..Len(h) : g[j] = h[j]
      BY <2>1, <2>3 DEF Begins
    <3>2. g \in Questions
      BY <1>1, <3>1, ShapesOf
    <3>3. Len(h) \in Nat /\ Len(g) \in Nat
      BY <3>1, <3>2, LenProperties DEF Questions
    <3>4. h # NoGens
      BY <2>3
    <3> HIDE DEF h, g
    <3>5. \A j \in 1..Len(h) : j \in 1..Len(g)
      BY <3>1, <3>3
    <3>6. ToSet(h) \subseteq ToSet(g)
      BY <3>1, <3>2, <3>5, ToSetIs
    <3>7. Answered(h) = ToSet(h) /\ Answered(g) = ToSet(g)
      BY <3>1, <3>4 DEF Answered
    <3> QED
      BY <3>6, <3>7 DEF h, g
  <2> QED
    BY <2>2, <2>3
<1>8. q \in Answered(gens[s]) \/ parts # {}
  <2>1. SUFFICES ASSUME q \notin Answered(gens[s]) PROVE parts # {}
    OBVIOUS
  <2>2. q \in Left
    BY <1>4, <1>7, <2>1 DEF Left
  <2>3. PICK t \in DOMAIN tail.ids : \E j \in 1..Len(tail.ids[t]) : tail.ids[t][j] = q
    BY <1>5, <2>2
  <2>4. q \in ToSet(tail.ids[t])
    BY <1>5, <2>3, ToSetIs
  <2> QED
    BY <2>3, <2>4
<1>9. Cardinality(parts) <= 1
  <2>1. CASE parts = {}
    BY <2>1, FS_EmptySet
  <2>2. CASE parts # {}
    <3>1. PICK t \in parts : TRUE
      BY <2>2
    <3>2. \A u \in parts : u = t
      BY <1>5, <1>6
    <3>3. parts = {t}
      BY <3>1, <3>2
    <3> QED
      BY <3>3, FS_Singleton
  <2> QED
    BY <2>1, <2>2
<1>10. ASSUME gens[s] = tail.had[s], parts # {} PROVE q \notin Answered(gens[s])
  <2>1. q \in Left
    BY <1>5, <1>6, <1>10
  <2>2. PICK r \in tail.slow : q \in ToSet(Ids(r)) \ Answered(tail.had[r])
    BY <2>1 DEF Left
  <2>3. r \in Shards /\ r \in Shard
    BY <1>1, TasksAre DEF TailInv
  <2>4. Ids(r) \in Questions /\ Total(r) = Len(Ids(r))
    BY <1>1, <2>3, IdsIs DEF Total
  <2>5. PICK j \in 1..Total(r) : Ids(r)[j] = q
    BY <2>2, <2>4, ToSetIs
  <2>6. r = s
    BY <1>1, <1>3, <2>3, <2>5, SlicesApart
  <2> QED
    BY <1>10, <2>2, <2>6
<1> QED
  BY <1>8, <1>9, <1>10

\* What task s has a result of.
Done(s) == IF out[s].file THEN out[s].done ELSE 0

\* How many of them were answered when the tail was dealt out.
HadOf(s) == IF tail.had[s] = NoGens THEN 0 ELSE Len(tail.had[s])

\* A result, unless it counts what a slow shard's answers file lacks.
IsFirst(s, i) == s \notin tail.slow \/ i <= HadOf(s)

LEMMA SlowShard ==
  ASSUME RunInv, TailInv, tail # NoTail, NEW s \in tail.slow,
         ~Spoilt(s), gens[s] = tail.had[s], ~Unanswered(s)
  PROVE  /\ HadOf(s) \in Nat /\ Done(s) <= HadOf(s) + opt.chunk
         /\ \A i \in 1..Total(s) : i <= HadOf(s) => Ids(s)[i] \in Answered(tail.had[s])
<1>1. OptOK /\ TailOK /\ s \in Shard /\ TaskOK(s, out[s], gens[s], job[s]) /\ Total(s) \in Nat
      /\ opt.chunk \in Nat \ {0}
  BY TasksAre, ShapesOf DEF RunInv, TailInv, OptOK
<1>2. FilesSane(s, out[s], gens[s]) /\ FilesSound(s, out[s], gens[s])
  BY <1>1 DEF TaskOK, Spoilt, SpoiltBy
<1>3. CASE gens[s] = NoGens
  <2>1. HadOf(s) = 0
    BY <1>3 DEF HadOf
  <2>2. Done(s) <= opt.chunk
    BY <1>1, <1>2, <1>3 DEF Done, Unanswered, FilesSane
  <2> QED
    BY <1>1, <2>1, <2>2
<1>4. CASE gens[s] # NoGens
  <2> DEFINE g == gens[s]
  <2>1. /\ HadOf(s) = Len(g) /\ g \in Questions /\ Len(g) \in 1..Total(s)
        /\ g = Slice(s, 0, Len(g)) /\ Answered(tail.had[s]) = ToSet(g)
        /\ out[s].file /\ out[s].done \in Len(g)..(Len(g) + opt.chunk)
    BY <1>1, <1>2, <1>4, ShapesOf DEF HadOf, FilesSane, FilesSound, Answered
  <2> HIDE DEF g
  <2> DEFINE l == Len(g)
  <2>2. l \in Nat /\ l <= Total(s) /\ Done(s) <= l + opt.chunk
    BY <1>1, <2>1 DEF Done
  <2>3. \A i \in 1..l : g[i] = Ids(s)[i]
    <3>1. \A i \in 1..(l - 0) : Slice(s, 0, l)[i] = Ids(s)[0 + i]
      <4>1. 0 \in Nat /\ l \in Nat /\ 0 <= l /\ l <= Total(s)
        BY <2>2
      <4> HIDE DEF l
      <4> QED
        BY <1>1, <4>1, SliceIs
    <3>2. l - 0 = l /\ \A i \in 1..l : 0 + i = i
      BY <2>2
    <3> QED
      BY <2>1, <3>1, <3>2
  <2>4. ASSUME NEW i \in 1..Total(s), i <= l PROVE Ids(s)[i] \in ToSet(g)
    <3>1. i \in 1..l
      BY <1>1, <2>2, <2>4
    <3> QED
      BY <2>1, <2>3, <3>1, ToSetIs
  <2> QED
    BY <2>1, <2>2, <2>4
<1> QED
  BY <1>3, <1>4

\* No question is counted twice but those.
LEMMA FirstOnce ==
  ASSUME RunInv, TailInv, tail # NoTail,
         \A s \in tail.slow : ~Spoilt(s) /\ gens[s] = tail.had[s] /\ ~Unanswered(s),
         NEW s \in Tasks, NEW t \in Tasks, NEW i \in 1..Total(s), NEW j \in 1..Total(t),
         IsFirst(s, i), IsFirst(t, j), Ids(s)[i] = Ids(t)[j]
  PROVE  s = t /\ i = j
<1>1. OptOK /\ TailOK /\ opt.shards \in Nat /\ opt.tail \in Nat
  BY Gsm8kRunAssumption DEF RunInv, OptOK
<1>2. /\ DOMAIN tail.ids = opt.shards..(opt.shards + opt.tail - 1)
      /\ \A u \in DOMAIN tail.ids :
            /\ tail.ids[u] \in Questions
            /\ \A k \in 1..Len(tail.ids[u]) : tail.ids[u][k] \in Left
      /\ \A u, v \in DOMAIN tail.ids : \A k \in 1..Len(tail.ids[u]), l \in 1..Len(tail.ids[v]) :
            tail.ids[u][k] = tail.ids[v][l] => u = v /\ k = l
  BY <1>1, PartsAre
<1>3. \A u \in Tasks : u \in Shards \/ (u \in DOMAIN tail.ids /\ Ids(u) = tail.ids[u])
  <2> TAKE u \in Tasks
  <2>1. CASE u < opt.shards
    BY <1>1, <2>1 DEF Tasks, Shards
  <2>2. CASE ~(u < opt.shards)
    <3>1. u \in DOMAIN tail.ids
      BY <1>1, <1>2, <2>2 DEF Tasks
    <3> QED
      BY <2>2, <3>1 DEF Ids
  <2> QED
    BY <2>1, <2>2
<1>4. ASSUME NEW u \in Shards, NEW v \in DOMAIN tail.ids,
             NEW k \in 1..Total(u), NEW l \in 1..Len(tail.ids[v]), IsFirst(u, k)
      PROVE  Ids(u)[k] # tail.ids[v][l]
  <2>1. SUFFICES ASSUME Ids(u)[k] \in Left PROVE FALSE
    BY <1>2
  <2>2. PICK r \in tail.slow : Ids(u)[k] \in ToSet(Ids(r)) \ Answered(tail.had[r])
    BY <2>1 DEF Left
  <2>3. r \in Shards /\ r \in Shard
    BY <1>1, TasksAre DEF TailInv
  <2>4. Ids(r) \in Questions /\ Total(r) = Len(Ids(r))
    BY <1>1, <2>3, IdsIs DEF Total
  <2>5. PICK m \in 1..Total(r) : Ids(r)[m] = Ids(u)[k]
    BY <2>2, <2>4, ToSetIs
  <2>6. r = u
    BY <1>1, <2>3, <2>5, SlicesApart
  <2>7. u \in tail.slow /\ k <= HadOf(u)
    BY <1>4, <2>6 DEF IsFirst
  <2>8. Ids(u)[k] \in Answered(tail.had[u])
    BY <2>7, SlowShard
  <2> QED
    BY <2>2, <2>6, <2>8
<1>5. CASE s \in Shards /\ t \in Shards
  BY <1>1, <1>5, SlicesApart
<1>6. CASE s \in Shards /\ t \notin Shards
  BY <1>3, <1>4, <1>6 DEF Total
<1>7. CASE s \notin Shards /\ t \in Shards
  BY <1>3, <1>4, <1>7 DEF Total
<1>8. CASE s \notin Shards /\ t \notin Shards
  BY <1>2, <1>3, <1>8 DEF Total
<1> QED
  BY <1>5, <1>6, <1>7, <1>8

\* So the results count each question once, and at most a chunk of each slow
\* shard again.
LEMMA ResultsBound ==
  ASSUME RunInv, TailInv, tail # NoTail,
         \A s \in tail.slow : ~Spoilt(s) /\ gens[s] = tail.had[s] /\ ~Unanswered(s)
  PROVE  SumFunction([s \in Tasks |-> Done(s)]) <= opt.n + opt.chunk * Cardinality(tail.slow)
<1> DEFINE f == [s \in Tasks |-> Done(s)]
           A == [s \in Tasks |-> 1..Done(s)]
           P == Tagged(A, Tasks)
           Q == 0..(opt.n - 1)
           C == ({-1} \X Q) \cup (tail.slow \X (1..opt.chunk))
           m == [p \in P |-> IF IsFirst(p[1], p[2]) THEN <<-1, Ids(p[1])[p[2]]>>
                             ELSE <<p[1], p[2] - HadOf(p[1])>>]
<1>1. /\ OptOK /\ TailOK /\ opt.n \in Nat /\ opt.chunk \in Nat /\ tail.slow \subseteq Shards
      /\ Shards \subseteq Tasks /\ Tasks \in SUBSET Shard /\ IsFiniteSet(Tasks)
  BY TasksAre DEF RunInv, OptOK, TailInv
<1>2. ASSUME NEW s \in Tasks PROVE Total(s) \in Nat /\ Done(s) \in 0..Total(s)
  BY <1>1, ShapesOf DEF TaskOK, FilesSane, Done
<1>3. IsFiniteSet(P) /\ SumFunction(f) = Cardinality(P)
  <2>1. \A s \in Tasks : IsFiniteSet(A[s]) /\ f[s] = Cardinality(A[s])
    <3> TAKE s \in Tasks
    <3> DEFINE d == Done(s)
    <3>1. d \in Nat
      BY <1>2
    <3> HIDE DEF d
    <3>2. IsFiniteSet(1..d) /\ Cardinality(1..d) = IF 1 > d THEN 0 ELSE d - 1 + 1
      BY <3>1, FS_Interval
    <3>3. IsFiniteSet(1..d) /\ Cardinality(1..d) = d
      BY <3>1, <3>2
    <3> QED
      BY <3>3 DEF d
  <2>2. DOMAIN f = Tasks
    OBVIOUS
  <2> HIDE DEF f, A
  <2> QED
    BY <1>1, <2>1, <2>2, SumFunctionIs
<1>4. ASSUME NEW p \in P
      PROVE  /\ p = <<p[1], p[2]>> /\ p[1] \in Tasks /\ p[2] \in 1..Total(p[1])
             /\ p[2] <= Done(p[1]) /\ p[2] \in Nat
  <2>1. p = <<p[1], p[2]>> /\ p[1] \in Tasks /\ p[2] \in A[p[1]]
    <3> HIDE DEF A
    <3> QED
      BY TaggedIs
  <2> QED
    BY <1>2, <2>1
<1>5. ASSUME NEW s \in Tasks, NEW i \in 1..Total(s) PROVE Ids(s)[i] \in Q
  <2>1. CASE s \in Shards
    BY <1>1, <2>1, ShardIds
  <2>2. CASE s \notin Shards
    <3>1. opt.shards \in Nat /\ opt.tail \in Nat
      BY <1>1, Gsm8kRunAssumption DEF OptOK
    <3>2. ~(s < opt.shards) /\ s \in opt.shards..(opt.shards + opt.tail - 1)
      BY <2>2, <3>1 DEF Tasks, Shards
    <3>3. s \in DOMAIN tail.ids /\ \A j \in 1..Len(tail.ids[s]) : tail.ids[s][j] \in Left
      BY <1>1, <3>2, PartsAre
    <3>4. Ids(s) = tail.ids[s]
      BY <3>2, <3>3 DEF Ids
    <3> QED
      BY <3>3, <3>4 DEF Left, Total
  <2> QED
    BY <2>1, <2>2
<1>6. ASSUME NEW s \in Tasks, NEW i \in Nat, i <= Done(s), ~IsFirst(s, i)
      PROVE  s \in tail.slow /\ HadOf(s) \in Nat /\ i - HadOf(s) \in 1..opt.chunk
  <2>1. s \in tail.slow /\ ~(i <= HadOf(s))
    BY <1>6 DEF IsFirst
  <2>2. HadOf(s) \in Nat /\ Done(s) <= HadOf(s) + opt.chunk
    BY <2>1, SlowShard
  <2>3. Done(s) \in Nat
    BY <1>2
  <2> QED
    BY <1>1, <1>6, <2>1, <2>2, <2>3
<1> HIDE DEF P, Q
<1>7. m \in [P -> C]
  <2>1. ASSUME NEW p \in P PROVE m[p] \in C
    <3>1. CASE IsFirst(p[1], p[2])
      BY <1>4, <1>5, <3>1
    <3>2. CASE ~IsFirst(p[1], p[2])
      BY <1>4, <1>6, <3>2
    <3> QED
      BY <3>1, <3>2
  <2> HIDE DEF C
  <2> QED
    BY <2>1
<1>8. ASSUME NEW p \in P, NEW r \in P, m[p] = m[r] PROVE p = r
  <2>0. \A s \in Tasks : s # -1
    BY <1>1, Gsm8kRunAssumption DEF Shard
  <2>1. CASE IsFirst(p[1], p[2]) /\ IsFirst(r[1], r[2])
    <3>1. Ids(p[1])[p[2]] = Ids(r[1])[r[2]]
      BY <1>8, <2>1
    <3>2. p[1] = r[1] /\ p[2] = r[2]
      BY <1>4, <2>1, <3>1, FirstOnce
    <3> QED
      BY <1>4, <3>2
  <2>2. CASE ~IsFirst(p[1], p[2]) /\ ~IsFirst(r[1], r[2])
    <3>1. p[1] = r[1] /\ p[2] - HadOf(p[1]) = r[2] - HadOf(r[1])
      BY <1>8, <2>2
    <3>2. HadOf(p[1]) \in Nat /\ p[2] \in Nat /\ r[2] \in Nat
      BY <1>4, <1>6, <2>2
    <3>3. p[2] = r[2]
      BY <3>1, <3>2
    <3> QED
      BY <1>4, <3>1, <3>3
  <2>3. CASE IsFirst(p[1], p[2]) /\ ~IsFirst(r[1], r[2])
    <3>1. r[1] = -1
      BY <1>8, <2>3
    <3> QED
      BY <1>4, <2>0, <3>1
  <2>4. CASE ~IsFirst(p[1], p[2]) /\ IsFirst(r[1], r[2])
    <3>1. p[1] = -1
      BY <1>8, <2>4
    <3> QED
      BY <1>4, <2>0, <3>1
  <2> QED
    BY <2>1, <2>2, <2>3, <2>4
<1>9. IsFiniteSet(C) /\ Cardinality(C) = opt.n + opt.chunk * Cardinality(tail.slow)
  <2> DEFINE k == opt.chunk
             w == Cardinality(tail.slow)
             X == {-1} \X Q
             Y == tail.slow \X (1..k)
  <2>1. IsFiniteSet(tail.slow) /\ w \in Nat
    BY <1>1, FS_Subset, FS_CardinalityType
  <2>2. IsFiniteSet(Q) /\ Cardinality(Q) = opt.n
    <3> DEFINE n == opt.n
    <3>1. n \in Nat /\ Q = 0..(n - 1)
      BY <1>1 DEF Q
    <3> HIDE DEF n
    <3>2. IsFiniteSet(Q) /\ Cardinality(Q) = IF 0 > n - 1 THEN 0 ELSE n - 1 - 0 + 1
      BY <3>1, FS_Interval
    <3>3. IsFiniteSet(Q) /\ Cardinality(Q) = n
      BY <3>1, <3>2
    <3> QED
      BY <3>3 DEF n
  <2>3. IsFiniteSet(1..k) /\ Cardinality(1..k) = k
    <3>0. k \in Nat
      BY <1>1
    <3> HIDE DEF k
    <3>1. IsFiniteSet(1..k) /\ Cardinality(1..k) = IF 1 > k THEN 0 ELSE k - 1 + 1
      BY <3>0, FS_Interval
    <3> QED
      BY <3>0, <3>1
  <2>4. IsFiniteSet(X) /\ Cardinality(X) = 1 * opt.n
    <3>1. IsFiniteSet({-1}) /\ Cardinality({-1}) = 1
      BY FS_Singleton
    <3> QED
      BY <2>2, <3>1, FS_Product
  <2>5. IsFiniteSet(Y) /\ Cardinality(Y) = w * k
    BY <2>1, <2>3, FS_Product
  <2>6. X \cap Y = {}
    <3>1. -1 \notin tail.slow
      BY <1>1, Gsm8kRunAssumption DEF Shard
    <3> QED
      BY <3>1
  <2>7. C = X \cup Y
    OBVIOUS
  <2> HIDE DEF X, Y, C, w, k
  <2>8. IsFiniteSet(C) /\ Cardinality(C) = Cardinality(X) + Cardinality(Y) - Cardinality(X \cap Y)
    BY <2>4, <2>5, <2>7, FS_Union
  <2>9. Cardinality(X \cap Y) = 0
    BY <2>6, FS_EmptySet
  <2>10. k \in Nat /\ w * k = k * w /\ w * k \in Nat
    BY <1>1, <2>1 DEF k
  <2> HIDE DEF k
  <2>11. Cardinality(C) = opt.n + k * w
    BY <1>1, <2>4, <2>5, <2>8, <2>9, <2>10
  <2> QED
    BY <2>8, <2>11 DEF k, w
<1>10. m \in Injection(P, C)
  <2> HIDE DEF m, C
  <2> QED
    BY <1>7, <1>8 DEF Injection, IsInjective
<1> HIDE DEF m, C, f
<1>11. Cardinality(P) <= Cardinality(C)
  BY <1>9, <1>10, FS_Injection
<1> QED
  BY <1>3, <1>9, <1>11 DEF f

LEMMA TailInvariant == Spec => []TailInv
<1>1. Init => TailInv
  BY DEF Init, TailInv
<1> QED
  BY <1>1, NextTail, RunInvariant, PTL DEF Spec

\* Sharing out a tail loses no question of a slow shard, deals each to one
\* task at most and, of shards that have been stopped, only what they have no
\* answer for; results may count a chunk of each slow shard twice, no more.
THEOREM TailIsExact == Spec => []TailExact
<1>1. RunInv /\ TailInv => TailExact
  <2> SUFFICES ASSUME RunInv, TailInv, tail # NoTail, \A s \in Shard : ~Spoilt(s) PROVE TailExact
    BY DEF TailExact
  <2> DEFINE answered(s) == IF gens[s] = NoGens THEN {} ELSE ToSet(gens[s])
             parts(q) == {t \in DOMAIN tail.ids : q \in ToSet(tail.ids[t])}
             stopped  == \A s \in tail.slow : gens[s] = tail.had[s]
             results  == SumFunction([s \in Tasks |-> IF out[s].file THEN out[s].done ELSE 0])
  <2>1. ASSUME NEW s \in tail.slow, NEW q \in ToSet(Ids(s))
        PROVE  /\ q \in answered(s) \/ parts(q) # {}
               /\ Cardinality(parts(q)) <= 1
               /\ stopped => q \notin answered(s) \/ parts(q) = {}
    <3>1. PICK ps : ps = parts(q)
      OBVIOUS
    <3>2. /\ q \in Answered(gens[s]) \/ ps # {}
          /\ Cardinality(ps) <= 1
          /\ gens[s] = tail.had[s] => q \notin Answered(gens[s]) \/ ps = {}
      BY <3>1, SlowQuestion
    <3> QED
      BY <3>1, <3>2 DEF Answered
  <2>2. ASSUME stopped, \A s \in tail.slow : ~Unanswered(s)
        PROVE  results <= opt.n + opt.chunk * Cardinality(tail.slow)
    <3>1. tail.slow \subseteq Shard
      BY TasksAre DEF RunInv, TailInv
    <3>2. SumFunction([s \in Tasks |-> Done(s)]) <= opt.n + opt.chunk * Cardinality(tail.slow)
      BY <2>2, <3>1, ResultsBound
    <3> QED
      BY <3>2 DEF Done
  <2> QED
    BY <2>1, <2>2 DEF TailExact
<1> QED
  BY <1>1, RunInvariant, TailInvariant, PTL

=============================================================================
