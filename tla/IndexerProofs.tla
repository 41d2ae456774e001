--------------------------- MODULE IndexerProofs ---------------------------
(***************************************************************************)
(* Proofs about MaskOps and Indexer, for every ratio, top-k, window, batch *)
(* and arrangement of the layers.                                          *)
(***************************************************************************)
EXTENDS Indexer, TLAPS, FiniteSetTheorems

-----------------------------------------------------------------------------
(* Natural numbers. *)

\* Multiples of d are at least d apart.
LEMMA MultiplesApart ==
    ASSUME NEW d \in Nat \ {0}, NEW a \in Int, NEW b \in Int, a < b
    PROVE  a * d + d <= b * d
  OBVIOUS

\* Quotient and remainder are unique.
LEMMA DivUnique ==
    ASSUME NEW n \in Nat, NEW d \in Nat \ {0},
           NEW q \in Int, NEW e \in 0..(d - 1), n = q * d + e
    PROVE  n \div d = q /\ n % d = e
<1> DEFINE Q == n \div d
<1>1. Q \in Nat /\ n % d \in 0..(d - 1) /\ n = Q * d + (n % d)
  OBVIOUS
<1> HIDE DEF Q
<1>2. (Q < q => Q * d + d <= q * d) /\ (q < Q => q * d + d <= Q * d)
  BY <1>1, MultiplesApart
<1>3. Q = q
  BY <1>1, <1>2
<1> QED
  BY <1>1, <1>3 DEF Q

\* The d-blocks that fit in n elements are the first n \div d.
LEMMA FullBlocks ==
    ASSUME NEW n \in Nat, NEW d \in Nat \ {0}, NEW w \in Nat
    PROVE  w < n \div d <=> (w + 1) * d <= n
<1> DEFINE Q == n \div d
           v == w + 1
<1>1. Q \in Nat /\ n % d \in 0..(d - 1) /\ n = Q * d + (n % d) /\ v \in Nat
  OBVIOUS
<1> HIDE DEF Q, v
<1>2. (Q < v => Q * d + d <= v * d) /\ (v < Q => v * d + d <= Q * d)
  BY <1>1, MultiplesApart
<1>3. v <= Q <=> v * d <= n
  BY <1>1, <1>2
<1> QED
  BY <1>1, <1>3 DEF Q, v

-----------------------------------------------------------------------------
(* Places in an order *)

\* f gives each member of the finite set S those before it in a total order.
Orders(f, S) ==
    /\ IsFiniteSet(S) /\ f \in [S -> SUBSET S]
    /\ \A a \in S : a \notin f[a]
    /\ \A a, b \in S : a # b => a \in f[b] \/ b \in f[a]
    /\ \A a, b \in S : a \in f[b] => f[a] \subseteq f[b]

\* The members of S are numbered from 0 by how many f gives.
Numbers(f, S) ==
    /\ Cardinality(S) \in Nat
    /\ \A a \in S : IsFiniteSet(f[a]) /\ Cardinality(f[a]) \in 0..(Cardinality(S) - 1)
    /\ \A a, b \in S : Cardinality(f[a]) = Cardinality(f[b]) => a = b
    /\ \A r \in 0..(Cardinality(S) - 1) : \E a \in S : Cardinality(f[a]) = r

\* Then the numbers are those below the size of S, each once.
LEMMA Places ==
    ASSUME NEW S, NEW f, Orders(f, S)
    PROVE  Numbers(f, S)
<1> USE DEF Orders
<1> DEFINE n == Cardinality(S)
           g == [a \in S |-> Cardinality(f[a])]
           D == 0..(n - 1)
<1>1. n \in Nat
  BY FS_CardinalityType
<1>2. ASSUME NEW a \in S
      PROVE  IsFiniteSet(f[a]) /\ Cardinality(f[a]) \in Nat
  <2>1. f[a] \in SUBSET S
    OBVIOUS
  <2>2. IsFiniteSet(f[a])
    BY <2>1, FS_Subset, Zenon
  <2> QED
    BY <2>2, FS_CardinalityType
<1>3. ASSUME NEW a \in S PROVE Cardinality(f[a]) \in D
  <2>1. f[a] \in SUBSET S /\ f[a] # S
    OBVIOUS
  <2>2. Cardinality(f[a]) <= n /\ Cardinality(f[a]) # n
    BY <2>1, FS_Subset, Zenon
  <2> QED
    BY <1>1, <1>2, <2>2
<1>4. ASSUME NEW a \in S, NEW b \in S, a \in f[b]
      PROVE  Cardinality(f[a]) < Cardinality(f[b])
  <2>1. f[a] \in SUBSET f[b] /\ f[a] # f[b]
    BY <1>4
  <2>2. Cardinality(f[a]) <= Cardinality(f[b]) /\ Cardinality(f[b]) # Cardinality(f[a])
    BY <1>2, <2>1, FS_Subset, Zenon
  <2> QED
    BY <1>2, <2>2
<1>5. ASSUME NEW a \in S, NEW b \in S, Cardinality(f[a]) = Cardinality(f[b]) PROVE a = b
  <2>1. CASE a \in f[b]
    BY <1>2, <1>4, <1>5, <2>1
  <2>2. CASE b \in f[a]
    BY <1>2, <1>4, <1>5, <2>2
  <2> QED
    BY <2>1, <2>2
<1>6. g \in Injection(S, D)
  BY <1>3, <1>5 DEF Injection, IsInjective
<1>7. IsFiniteSet(D) /\ Cardinality(D) = n
  BY <1>1, FS_Interval
<1>8. g \in Surjection(S, D)
  <2> HIDE DEF g, D
  <2> QED
    BY <1>6, <1>7, FS_Injection
<1>9. ASSUME NEW r \in D PROVE \E a \in S : Cardinality(f[a]) = r
  BY <1>8 DEF Surjection
<1> HIDE DEF Orders
<1> QED
  BY <1>1, <1>2, <1>3, <1>5, <1>9 DEF Numbers

\* The members of S below a.
Below(S, a) == {u \in S : u < a}

\* In particular integers, each by how many are smaller.
LEMMA PlacesOfIntegers ==
    ASSUME NEW S, IsFiniteSet(S), S \in SUBSET Int
    PROVE  /\ Cardinality(S) \in Nat
           /\ \A a \in S : /\ IsFiniteSet(Below(S, a))
                           /\ Cardinality(Below(S, a)) \in 0..(Cardinality(S) - 1)
           /\ \A a, b \in S : Cardinality(Below(S, a)) = Cardinality(Below(S, b)) => a = b
           /\ \A r \in 0..(Cardinality(S) - 1) : \E a \in S : Cardinality(Below(S, a)) = r
<1> DEFINE f == [a \in S |-> Below(S, a)]
<1>1. f \in [S -> SUBSET S]
  BY DEF Below
<1>2. \A a \in S : a \notin f[a]
  BY DEF Below
<1>3. \A a, b \in S : a # b => a \in f[b] \/ b \in f[a]
  <2> SUFFICES ASSUME NEW a \in S, NEW b \in S, a # b PROVE a \in f[b] \/ b \in f[a]
    OBVIOUS
  <2>1. a < b \/ b < a
    OBVIOUS
  <2> QED
    BY <2>1 DEF Below
<1>4. \A a, b \in S : a \in f[b] => f[a] \subseteq f[b]
  <2> SUFFICES ASSUME NEW a \in S, NEW b \in S, a \in f[b], NEW u \in f[a] PROVE u \in f[b]
    OBVIOUS
  <2>1. a < b /\ u < a /\ u \in S
    BY DEF Below
  <2>2. u < b
    BY <2>1
  <2> QED
    BY <2>1, <2>2 DEF Below
<1>5. \A a \in S : f[a] = Below(S, a)
  OBVIOUS
<1> HIDE DEF f
<1>6. Orders(f, S)
  BY <1>1, <1>2, <1>3, <1>4 DEF Orders
<1>7. Numbers(f, S)
  BY <1>6, Places
<1> QED
  BY <1>5, <1>7 DEF Numbers

\* The members of S before a.
Earlier(S, a) == {u \in S : Before(u, a)}

\* And pairs, by the order of requests and positions.
LEMMA PlacesOfPairs ==
    ASSUME NEW S, IsFiniteSet(S), S \in SUBSET (Nat \X Nat)
    PROVE  /\ Cardinality(S) \in Nat
           /\ \A a \in S : /\ IsFiniteSet(Earlier(S, a))
                           /\ Cardinality(Earlier(S, a)) \in 0..(Cardinality(S) - 1)
           /\ \A a, b \in S : Cardinality(Earlier(S, a)) = Cardinality(Earlier(S, b)) => a = b
           /\ \A r \in 0..(Cardinality(S) - 1) : \E a \in S : Cardinality(Earlier(S, a)) = r
<1> DEFINE f == [a \in S |-> Earlier(S, a)]
<1>1. f \in [S -> SUBSET S]
  BY DEF Earlier
<1>2. \A a \in S : a \notin f[a]
  BY DEF Earlier, Before
<1>3. \A a, b \in S : a # b => a \in f[b] \/ b \in f[a]
  <2> SUFFICES ASSUME NEW a \in S, NEW b \in S, a # b PROVE a \in f[b] \/ b \in f[a]
    OBVIOUS
  <2>1. a \in Nat \X Nat /\ b \in Nat \X Nat
    OBVIOUS
  <2>2. Before(a, b) \/ Before(b, a)
    BY <2>1 DEF Before
  <2> QED
    BY <2>2 DEF Earlier
<1>4. \A a, b \in S : a \in f[b] => f[a] \subseteq f[b]
  <2> SUFFICES ASSUME NEW a \in S, NEW b \in S, a \in f[b], NEW u \in f[a] PROVE u \in f[b]
    OBVIOUS
  <2>1. Before(a, b) /\ Before(u, a) /\ u \in S
    BY DEF Earlier
  <2>2. a \in Nat \X Nat /\ b \in Nat \X Nat /\ u \in Nat \X Nat
    BY <2>1
  <2>3. Before(u, b)
    BY <2>1, <2>2 DEF Before
  <2> QED
    BY <2>1, <2>3 DEF Earlier
<1>5. \A a \in S : f[a] = Earlier(S, a)
  OBVIOUS
<1> HIDE DEF f
<1>6. Orders(f, S)
  BY <1>1, <1>2, <1>3, <1>4 DEF Orders
<1>7. Numbers(f, S)
  BY <1>6, Places
<1> QED
  BY <1>5, <1>7 DEF Numbers

-----------------------------------------------------------------------------
(* The two forms of the mask *)

\* What both forms take for granted of a call.
CallOK(c) ==
    /\ c.T \in Nat /\ c.C \in Nat
    /\ c.vslots \in SUBSET Nat /\ IsFiniteSet(c.vslots)
    /\ \A t \in 0..(c.T - 1) :
          c.len[t] \in Int /\ \A k \in 0..(c.C - 1) : c.indices[t][k] \in Int
    /\ c.kept # NoKept => c.kept.rows \in Nat /\ c.kept.cov \in Nat

\* The marked slots are numbered in order, and no others.
LEMMA KeyOfSlot ==
    ASSUME NEW c, CallOK(c)
    PROVE  /\ N(c) \in Nat
           /\ \A s \in c.vslots : Inv(c, s) \in 0..(N(c) - 1)
           /\ \A s \in c.vslots : \A u \in c.vslots : Inv(c, s) = Inv(c, u) => s = u
           /\ \A s : s \notin c.vslots => Inv(c, s) = -1
<1> DEFINE S == c.vslots
<1>1. S \in SUBSET Int /\ IsFiniteSet(S)
  BY DEF CallOK
<1>2. \A s \in S : Inv(c, s) = Cardinality(Below(S, s))
  BY DEF Inv, Below
<1>3. N(c) = Cardinality(S)
  BY DEF N
<1>4. \A s : s \notin S => Inv(c, s) = -1
  BY DEF Inv
<1> HIDE DEF S
<1>5. /\ Cardinality(S) \in Nat
      /\ \A a \in S : Cardinality(Below(S, a)) \in 0..(Cardinality(S) - 1)
      /\ \A a, b \in S : Cardinality(Below(S, a)) = Cardinality(Below(S, b)) => a = b
  BY <1>1, PlacesOfIntegers
<1> QED
  BY <1>2, <1>3, <1>4, <1>5 DEF S

\* The column of the r-th surviving entry, and the rank of a surviving
\* column, are inverse to each other.
LEMMA ColumnOfRank ==
    ASSUME NEW c, CallOK(c), NEW t \in 0..(c.T - 1)
    PROVE  LET len == Cardinality(Candidates(c, t))
           IN  /\ len \in Nat
               /\ \A k \in Candidates(c, t) :
                     Rank(c, t, k) \in 0..(len - 1) /\ Column(c, t, Rank(c, t, k)) = k
               /\ \A r \in 0..(len - 1) :
                     Column(c, t, r) \in Candidates(c, t) /\ Rank(c, t, Column(c, t, r)) = r
<1> DEFINE S == Candidates(c, t)
           len == Cardinality(S)
           Lower(k) == Below(S, k)
<1>1. c.C \in Nat /\ S \in SUBSET (0..(c.C - 1))
  BY DEF CallOK, Candidates
<1>2. IsFiniteSet(S) /\ S \in SUBSET Int
  <2>1. IsFiniteSet(0..(c.C - 1))
    BY <1>1, FS_Interval
  <2> HIDE DEF S
  <2>2. IsFiniteSet(S)
    BY <1>1, <2>1, FS_Subset, Zenon
  <2> QED
    BY <1>1, <2>2
<1>3. /\ len \in Nat
      /\ \A a \in S : IsFiniteSet(Lower(a)) /\ Cardinality(Lower(a)) \in 0..(len - 1)
      /\ \A a, b \in S : Cardinality(Lower(a)) = Cardinality(Lower(b)) => a = b
      /\ \A r \in 0..(len - 1) : \E a \in S : Cardinality(Lower(a)) = r
  <2> HIDE DEF S
  <2> QED
    BY <1>2, PlacesOfIntegers
<1>4. ASSUME NEW k \in S
      PROVE  Rank(c, t, k) = Cardinality(Lower(k))
  <2> DEFINE V == {j \in 0..k : Valid(c, t, j)}
  <2>1. k \in 0..(c.C - 1) /\ Valid(c, t, k)
    BY DEF Candidates, Valid
  <2>2. V = Lower(k) \cup {k} /\ k \notin Lower(k)
    BY <1>1, <2>1 DEF Candidates, Valid, Below
  <2>3. IsFiniteSet(Lower(k)) /\ Cardinality(Lower(k)) \in Nat
    BY <1>3
  <2> HIDE DEF V, Lower
  <2>4. Cardinality(V) = Cardinality(Lower(k)) + 1
    BY <2>2, <2>3, FS_AddElement
  <2> QED
    BY <2>3, <2>4 DEF Rank, V
<1>5. \A r : Column(c, t, r) = CHOOSE k \in S : Cardinality(Lower(k)) = r
  BY DEF Column, Below
<1> HIDE DEF S, Lower, len
<1>6. ASSUME NEW r \in 0..(len - 1)
      PROVE  Column(c, t, r) \in S /\ Cardinality(Lower(Column(c, t, r))) = r
  <2>1. \E a \in S : Cardinality(Lower(a)) = r
    BY <1>3
  <2> QED
    BY <2>1, <1>5, Zenon
<1>7. ASSUME NEW k \in S
      PROVE  Rank(c, t, k) \in 0..(len - 1) /\ Column(c, t, Rank(c, t, k)) = k
  BY <1>3, <1>4, <1>6
<1>8. \A r \in 0..(len - 1) : Column(c, t, r) \in S /\ Rank(c, t, Column(c, t, r)) = r
  BY <1>4, <1>6
<1> QED
  BY <1>3, <1>7, <1>8 DEF S, len

\* The columns the vectorized form keeps are those of the ranks the loop keeps.
LEMMA KeepsAgree ==
    ASSUME NEW c, CallOK(c), NEW t \in 0..(c.T - 1)
    PROVE  VecKeep(c, t) = {Column(c, t, r) : r \in LoopKeep(c, t)}
<1> DEFINE S == Candidates(c, t)
           len == Cardinality(S)
           apply == t < c.kept.rows /\ \E k \in 0..(c.C - 1) : Valid(c, t, k)
           Kept(r) == <<t, r>> \in c.kept.bits
<1>1. /\ len \in Nat
      /\ \A k \in S : Rank(c, t, k) \in 0..(len - 1) /\ Column(c, t, Rank(c, t, k)) = k
      /\ \A r \in 0..(len - 1) : Column(c, t, r) \in S /\ Rank(c, t, Column(c, t, r)) = r
  BY ColumnOfRank
<1>2. \A k : k \in S <=> k \in 0..(c.C - 1) /\ Valid(c, t, k)
  BY DEF Candidates, Valid
<1>3. apply <=> t < c.kept.rows /\ len > 0
  <2>1. IsFiniteSet(S)
    <3>1. c.C \in Nat /\ S \in SUBSET (0..(c.C - 1))
      BY DEF CallOK, Candidates
    <3>2. IsFiniteSet(0..(c.C - 1))
      BY <3>1, FS_Interval
    <3> QED
      BY <3>1, <3>2, FS_Subset, Zenon
  <2> HIDE DEF S
  <2>2. len = 0 <=> S = {}
    BY <2>1, FS_EmptySet
  <2>3. (\E k \in 0..(c.C - 1) : Valid(c, t, k)) <=> S # {}
    BY <1>2
  <2> QED
    BY <1>1, <2>2, <2>3
<1>4. LoopKeep(c, t) =
        {r \in 0..(len - 1) : (c.kept # NoKept /\ apply) => (r < c.kept.cov => Kept(r))}
  <2>1. CASE c.kept # NoKept /\ apply
    <3>1. c.kept.cov \in Nat
      BY <2>1 DEF CallOK
    <3>2. \A r \in 0..(len - 1) : r < (IF c.kept.cov < len THEN c.kept.cov ELSE len) <=> r < c.kept.cov
      BY <1>1, <3>1
    <3>3. c.kept # NoKept /\ t < c.kept.rows /\ len > 0
      BY <1>3, <2>1
    <3>4. LoopKeep(c, t) = {r \in 0..(len - 1) :
                              r < (IF c.kept.cov < len THEN c.kept.cov ELSE len) => Kept(r)}
      BY <3>3 DEF LoopKeep
    <3> HIDE DEF apply, len, Kept
    <3> QED
      BY <2>1, <3>2, <3>4
  <2>2. CASE ~(c.kept # NoKept /\ apply)
    <3>1. ~(c.kept # NoKept /\ t < c.kept.rows /\ len > 0)
      BY <1>3, <2>2
    <3>2. LoopKeep(c, t) = 0..(len - 1)
      BY <3>1 DEF LoopKeep
    <3> HIDE DEF apply, len, Kept
    <3> QED
      BY <2>2, <3>2
  <2> QED
    BY <2>1, <2>2
<1>5. VecKeep(c, t) =
        {k \in S : (c.kept # NoKept /\ apply) =>
                      (Rank(c, t, k) < c.kept.cov => Kept(Rank(c, t, k)))}
  <2>1. ASSUME NEW k \in S, c.kept # NoKept, apply
        PROVE  PkFull(c, t, k) <=> (Rank(c, t, k) < c.kept.cov => Kept(Rank(c, t, k)))
    <3>1. c.kept.cov \in Nat /\ Rank(c, t, k) \in Nat /\ t < c.kept.rows
      BY <1>1, <2>1 DEF CallOK
    <3>2. Rank(c, t, k) < c.kept.cov => Clamp(Rank(c, t, k), 0, c.kept.cov - 1) = Rank(c, t, k)
      BY <3>1 DEF Clamp
    <3> HIDE DEF S, apply
    <3> QED
      BY <3>1, <3>2 DEF PkFull
  <2>2. VecKeep(c, t) = {k \in 0..(c.C - 1) :
                          Valid(c, t, k) /\ (c.kept # NoKept /\ apply => PkFull(c, t, k))}
    BY DEF VecKeep
  <2> HIDE DEF S, apply, len, Kept
  <2> QED
    BY <1>2, <2>1, <2>2
<1> HIDE DEF S, len, apply, Kept
<1> QED
  BY <1>1, <1>4, <1>5

\* Hence both forms give every query the same keys.
LEMMA FormsAgree ==
    ASSUME NEW c, CallOK(c)
    PROVE  VecMask(c) = LoopMask(c)
<1>1. ASSUME NEW t \in 0..(c.T - 1) PROVE VecRow(c, t) = LoopRow(c, t)
  <2> DEFINE K == VecKeep(c, t)
             idx == {c.indices[t][Column(c, t, r)] : r \in LoopKeep(c, t)}
             pos == {Inv(c, c.indices[t][k]) : k \in K}
             top == Clamp(N(c) - (c.T - 1) + t, 0, N(c))
  <2>1. idx = {c.indices[t][k] : k \in K}
    BY KeepsAgree
  <2>2. N(c) \in Nat /\ \A s : Inv(c, s) \in Nat \cup {-1}
    BY KeyOfSlot
  <2>3. {k \in 0..(N(c) - 1) : k < top} = 0..(top - 1)
    BY <2>2 DEF CallOK, Clamp
  <2>4. {p \in pos : p >= 0} = {Inv(c, s) : s \in idx} \ {-1}
    <3> HIDE DEF K, idx
    <3> QED
      BY <2>1, <2>2
  <2>5. idx = {} <=> K = {}
    BY <2>1
  <2>6. VecRow(c, t) = IF K = {} THEN {k \in 0..(N(c) - 1) : k < top} ELSE {p \in pos : p >= 0}
    BY DEF VecRow
  <2>7. LoopRow(c, t) = IF idx = {} THEN 0..(top - 1) ELSE {Inv(c, s) : s \in idx} \ {-1}
    BY DEF LoopRow
  <2> QED
    BY <2>3, <2>4, <2>5, <2>6, <2>7
<1> QED
  BY <1>1 DEF VecMask, LoopMask

-----------------------------------------------------------------------------
(* The batch *)

\* The requests of a batch are sequences that begin and end within MaxPos.
BatchOK ==
    /\ fb.n \in Nat /\ fb.extend \in BOOLEAN
    /\ \A i \in 1..fb.n : /\ fb.start[i] \in 0..(MaxPos - 1)
                          /\ fb.stop[i] \in 1..MaxPos
                          /\ fb.start[i] < fb.stop[i]

\* A token is a request of the batch and a position of its extend.
LEMMA TokenIsPair ==
    ASSUME BatchOK
    PROVE  \A t : t \in Tokens <=> /\ t \in (1..fb.n) \X (0..(MaxPos - 1))
                                   /\ t[2] \in fb.start[t[1]]..(fb.stop[t[1]] - 1)
<1>1. MaxPos \in Nat
  BY IndexerAssumption
<1>2. ASSUME NEW t, t \in Tokens
      PROVE  /\ t \in (1..fb.n) \X (0..(MaxPos - 1))
             /\ t[2] \in fb.start[t[1]]..(fb.stop[t[1]] - 1)
  <2>0. PICK i \in 1..fb.n : \E p \in fb.start[i]..(fb.stop[i] - 1) : t = <<i, p>>
    BY <1>2 DEF Tokens
  <2>1. PICK p \in fb.start[i]..(fb.stop[i] - 1) : t = <<i, p>>
    BY <2>0
  <2>2. p \in 0..(MaxPos - 1)
    BY <1>1, <2>1 DEF BatchOK
  <2> QED
    BY <2>1, <2>2
<1>3. ASSUME NEW t \in (1..fb.n) \X (0..(MaxPos - 1)),
             t[2] \in fb.start[t[1]]..(fb.stop[t[1]] - 1)
      PROVE  t \in Tokens
  <2>1. t = <<t[1], t[2]>> /\ t[1] \in 1..fb.n
    OBVIOUS
  <2> QED
    BY <1>3, <2>1 DEF Tokens
<1> QED
  BY <1>2, <1>3

\* The tokens are numbered from 0 by IndexOf.
LEMMA TokenPlaces ==
    ASSUME BatchOK
    PROVE  /\ IsFiniteSet(Tokens) /\ Cardinality(Tokens) \in Nat
           /\ \A t \in Tokens : IndexOf(t) \in 0..(Cardinality(Tokens) - 1)
           /\ \A t, u \in Tokens : IndexOf(t) = IndexOf(u) => t = u
           /\ \A x \in 0..(Cardinality(Tokens) - 1) : \E t \in Tokens : IndexOf(t) = x
<1>1. fb.n \in Nat /\ MaxPos \in Nat
  BY IndexerAssumption DEF BatchOK
<1>2. Tokens \in SUBSET ((1..fb.n) \X (0..(MaxPos - 1)))
  BY TokenIsPair
<1>3. IsFiniteSet((1..fb.n) \X (0..(MaxPos - 1)))
  <2>1. IsFiniteSet(1..fb.n) /\ IsFiniteSet(0..(MaxPos - 1))
    BY <1>1, FS_Interval
  <2> QED
    BY <2>1, FS_Product
<1>4. IsFiniteSet(Tokens)
  BY <1>2, <1>3, FS_Subset, Zenon
<1>5. Tokens \in SUBSET (Nat \X Nat)
  BY <1>1, <1>2
<1>6. \A t : IndexOf(t) = Cardinality(Earlier(Tokens, t))
  BY DEF IndexOf, Earlier
<1> QED
  BY <1>4, <1>5, <1>6, PlacesOfPairs

\* So are the blocks, by BlockIndex.
LEMMA BlockPlaces ==
    ASSUME BatchOK
    PROVE  /\ IsFiniteSet(Blocks) /\ Cardinality(Blocks) \in Nat
           /\ \A b \in Blocks : BlockIndex(b) \in 0..(Cardinality(Blocks) - 1)
           /\ \A a, b \in Blocks : BlockIndex(a) = BlockIndex(b) => a = b
           /\ \A x \in 0..(Cardinality(Blocks) - 1) : \E b \in Blocks : BlockIndex(b) = x
<1> DEFINE D == (1..(fb.n + 1)) \X (0..(MaxPos + fb.n))
<1>1. fb.n \in Nat /\ MaxPos \in Nat /\ Ratio \in Nat \ {0}
  BY IndexerAssumption DEF BatchOK
<1>2. DOMAIN Ext \subseteq 1..(fb.n + 1) /\ \A s \in DOMAIN Ext : Ext[s] \in 0..(MaxPos + fb.n)
  <2>1. CASE fb.extend
    <3>1. Ext = [i \in 1..fb.n |-> Len(i)]
      BY <2>1 DEF Ext
    <3>2. \A i \in 1..fb.n : Len(i) \in 0..(MaxPos + fb.n)
      BY <1>1 DEF Len, BatchOK
    <3> QED
      BY <1>1, <3>1, <3>2
  <2>2. CASE ~fb.extend
    <3>1. Ext = <<fb.n>>
      BY <2>2 DEF Ext
    <3> QED
      BY <1>1, <3>1
  <2> QED
    BY <2>1, <2>2
<1>3. ASSUME NEW b \in Blocks PROVE b \in D
  <2>0. PICK s \in DOMAIN Ext : \E w \in 0..(Ext[s] \div Ratio - 1) : b = <<s, w>>
    BY DEF Blocks
  <2>1. PICK w \in 0..(Ext[s] \div Ratio - 1) : b = <<s, w>>
    BY <2>0
  <2>2. Ext[s] \in Nat /\ Ext[s] <= MaxPos + fb.n
    BY <1>1, <1>2
  <2>3. w \in Nat /\ w < Ext[s] \div Ratio
    BY <1>1, <2>1, <2>2
  <2>4. (w + 1) * Ratio <= Ext[s]
    BY <1>1, <2>2, <2>3, FullBlocks
  <2>5. w + 1 <= (w + 1) * Ratio
    BY <1>1, <2>3
  <2> QED
    BY <1>1, <1>2, <2>1, <2>2, <2>3, <2>4, <2>5
<1>4. IsFiniteSet(D)
  <2>1. IsFiniteSet(1..(fb.n + 1)) /\ IsFiniteSet(0..(MaxPos + fb.n))
    BY <1>1, FS_Interval
  <2> QED
    BY <2>1, FS_Product
<1>5. Blocks \in SUBSET (Nat \X Nat)
  BY <1>1, <1>3
<1>6. IsFiniteSet(Blocks)
  <2>1. Blocks \in SUBSET D
    BY <1>3
  <2> HIDE DEF D
  <2> QED
    BY <1>4, <2>1, FS_Subset, Zenon
<1>7. \A b : BlockIndex(b) = Cardinality(Earlier(Blocks, b))
  BY DEF BlockIndex, Earlier
<1> QED
  BY <1>5, <1>6, <1>7, PlacesOfPairs

-----------------------------------------------------------------------------
(* The call of a batch *)

\* pos_kept is None or has a size.
KeptOK(kept) == kept # NoKept => kept.rows \in Nat /\ kept.cov \in Nat

\* The window of a query ends at it and has at most Window positions.
LEMMA WindowStart ==
    ASSUME NEW p \in Nat
    PROVE  First(p) \in 0..p /\ p - First(p) < Window
  BY IndexerAssumption DEF First

\* No two positions share a slot.
LEMMA SlotsDiffer ==
    ASSUME NEW i \in Nat \ {0}, NEW j \in Nat \ {0},
           NEW p \in 0..(MaxPos - 1), NEW r \in 0..(MaxPos - 1)
    PROVE  Slot(i, p) \in Nat /\ (Slot(i, p) = Slot(j, r) => i = j /\ p = r)
<1>1. MaxPos \in Nat \ {0}
  BY IndexerAssumption
<1>2. Slot(i, p) = (i - 1) * MaxPos + p /\ Slot(j, r) = (j - 1) * MaxPos + r
  BY DEF Slot
<1>3. (i - 1) * MaxPos \in Nat /\ (j - 1) * MaxPos \in Nat
  BY <1>1
<1>4. CASE i = j
  BY <1>1, <1>2, <1>3, <1>4
<1>5. CASE i < j
  <2>1. (i - 1) * MaxPos + MaxPos <= (j - 1) * MaxPos
    <3>1. i - 1 \in Int /\ j - 1 \in Int /\ i - 1 < j - 1
      BY <1>5
    <3> QED
      BY <1>1, <3>1, MultiplesApart
  <2> QED
    BY <1>1, <1>2, <1>3, <2>1
<1>6. CASE j < i
  <2>1. (j - 1) * MaxPos + MaxPos <= (i - 1) * MaxPos
    <3>1. i - 1 \in Int /\ j - 1 \in Int /\ j - 1 < i - 1
      BY <1>6
    <3> QED
      BY <1>1, <3>1, MultiplesApart
  <2> QED
    BY <1>1, <1>2, <1>3, <2>1
<1> QED
  BY <1>4, <1>5, <1>6

\* A query's row has the slots of its window, in order.
LEMMA RowOfQuery ==
    ASSUME BatchOK, NEW kept, NEW q \in Tokens
    PROVE  LET c == MlaCall(kept)
               x == IndexOf(q)
           IN  /\ x \in 0..(c.T - 1)
               /\ c.len[x] = q[2] - First(q[2]) + 1
               /\ \A k \in 0..(c.C - 1) :
                     c.indices[x][k] = IF First(q[2]) + k <= q[2]
                                       THEN Slot(q[1], First(q[2]) + k) ELSE -1
<1> DEFINE at(x) == CHOOSE t \in Tokens : IndexOf(t) = x
           x == IndexOf(q)
<1>1. x \in 0..(Cardinality(Tokens) - 1)
  BY TokenPlaces
<1>2. at(x) = q
  <2>1. \A t \in Tokens : IndexOf(t) = IndexOf(q) => t = q
    BY TokenPlaces
  <2> QED
    BY <2>1
<1> HIDE DEF x
<1> QED
  BY <1>1, <1>2 DEF MlaCall, x

\* A call of the batch is one both forms of the mask can take.
LEMMA CallIsOK ==
    ASSUME BatchOK, NEW kept, KeptOK(kept)
    PROVE  CallOK(MlaCall(kept))
<1> DEFINE c == MlaCall(kept)
<1>1. c.T \in Nat /\ c.C \in Nat /\ c.kept = kept
  BY IndexerAssumption, TokenPlaces DEF MlaCall
<1>2. fb.n \in Nat /\ MaxPos \in Nat \ {0}
  BY IndexerAssumption DEF BatchOK
<1>3. ASSUME NEW s \in c.vslots PROVE s \in 0..(fb.n * MaxPos)
  <2>1. c.vslots = UNION {{Slot(i, p) : p \in 0..(fb.stop[i] - 1)} : i \in 1..fb.n}
    BY DEF MlaCall
  <2>2. PICK i \in 1..fb.n : \E p \in 0..(fb.stop[i] - 1) : s = Slot(i, p)
    BY <2>1
  <2>3. PICK p \in 0..(fb.stop[i] - 1) : s = Slot(i, p)
    BY <2>2
  <2>4. p \in 0..(MaxPos - 1) /\ i \in Nat \ {0}
    BY <1>2, <2>3 DEF BatchOK
  <2>5. s \in Nat
    BY <2>3, <2>4, SlotsDiffer
  <2>6. (i - 1) * MaxPos + MaxPos <= fb.n * MaxPos
    BY <1>2, <2>4, MultiplesApart
  <2>7. (i - 1) * MaxPos \in Nat /\ fb.n * MaxPos \in Nat
    BY <1>2, <2>4
  <2>8. s = (i - 1) * MaxPos + p
    BY <2>3 DEF Slot
  <2> HIDE DEF c
  <2> QED
    BY <1>2, <2>4, <2>5, <2>6, <2>7, <2>8
<1>4. c.vslots \in SUBSET Nat /\ IsFiniteSet(c.vslots)
  <2>1. fb.n * MaxPos \in Nat
    BY <1>2
  <2>2. IsFiniteSet(0..(fb.n * MaxPos))
    BY <2>1, FS_Interval
  <2> HIDE DEF c
  <2>3. c.vslots \in SUBSET (0..(fb.n * MaxPos))
    BY <1>3
  <2>4. IsFiniteSet(c.vslots)
    BY <2>2, <2>3, FS_Subset, Zenon
  <2> QED
    BY <2>3, <2>4
<1>5. ASSUME NEW t \in 0..(c.T - 1)
      PROVE  c.len[t] \in Int /\ \A k \in 0..(c.C - 1) : c.indices[t][k] \in Int
  <2>1. c.T = Cardinality(Tokens)
    BY DEF MlaCall
  <2>2. PICK q \in Tokens : IndexOf(q) = t
    BY <2>1, TokenPlaces
  <2>3. q[1] \in Nat \ {0} /\ q[2] \in 0..(MaxPos - 1)
    BY <1>2, TokenIsPair
  <2>4. First(q[2]) \in 0..q[2]
    BY <1>2, <2>3, WindowStart
  <2>5. ASSUME NEW k \in 0..(c.C - 1), First(q[2]) + k <= q[2]
        PROVE  Slot(q[1], First(q[2]) + k) \in Nat
    <3>1. k \in Nat
      BY <1>1
    <3>2. First(q[2]) + k \in 0..(MaxPos - 1)
      BY <1>2, <2>3, <2>4, <2>5, <3>1
    <3> QED
      BY <2>3, <3>2, SlotsDiffer
  <2>6. /\ c.len[t] = q[2] - First(q[2]) + 1
        /\ \A k \in 0..(c.C - 1) :
              c.indices[t][k] = IF First(q[2]) + k <= q[2]
                                THEN Slot(q[1], First(q[2]) + k) ELSE -1
    BY <2>2, RowOfQuery
  <2> HIDE DEF c
  <2> QED
    BY <1>2, <2>3, <2>4, <2>5, <2>6
<1>6. c.kept # NoKept => c.kept.rows \in Nat /\ c.kept.cov \in Nat
  BY <1>1 DEF KeptOK
<1> HIDE DEF c
<1> QED
  BY <1>1, <1>4, <1>5, <1>6 DEF c, CallOK

\* The columns of the window survive, each at its own rank, and no others.
LEMMA ColumnsOfWindow ==
    ASSUME BatchOK, NEW kept, NEW q \in Tokens
    PROVE  LET c == MlaCall(kept)
               x == IndexOf(q)
           IN  /\ \A k : k \in 0..(c.C - 1) /\ Valid(c, x, k) <=> k \in 0..(q[2] - First(q[2]))
               /\ \A k \in 0..(q[2] - First(q[2])) : Rank(c, x, k) = k
<1> DEFINE c == MlaCall(kept)
           x == IndexOf(q)
           last == q[2] - First(q[2])
<1>1. q[1] \in Nat \ {0} /\ q[2] \in 0..(MaxPos - 1) /\ MaxPos \in Nat
  BY IndexerAssumption, TokenIsPair DEF BatchOK
<1>2. First(q[2]) \in 0..q[2] /\ last \in Nat /\ last < Window
  <2>1. q[2] \in Nat
    BY <1>1
  <2> QED
    BY <2>1, WindowStart
<1>3. c.C = Window /\ Window \in Nat
  BY IndexerAssumption DEF MlaCall
<1>4. /\ c.len[x] = last + 1
      /\ \A k \in 0..(c.C - 1) :
            c.indices[x][k] = IF First(q[2]) + k <= q[2]
                              THEN Slot(q[1], First(q[2]) + k) ELSE -1
  BY RowOfQuery
<1> HIDE DEF c, x
<1>5. ASSUME NEW k \in 0..last PROVE k \in 0..(c.C - 1) /\ Valid(c, x, k)
  <2>1. k \in 0..(c.C - 1) /\ First(q[2]) + k \in 0..(MaxPos - 1) /\ First(q[2]) + k <= q[2]
    BY <1>1, <1>2, <1>3
  <2>2. c.indices[x][k] = Slot(q[1], First(q[2]) + k)
    BY <1>4, <2>1
  <2>3. Slot(q[1], First(q[2]) + k) \in Nat
    BY <1>1, <2>1, SlotsDiffer
  <2>4. k < c.len[x]
    BY <1>2, <1>4
  <2> QED
    BY <2>1, <2>2, <2>3, <2>4 DEF Valid
<1>6. ASSUME NEW k \in 0..(c.C - 1), Valid(c, x, k) PROVE k \in 0..last
  BY <1>2, <1>3, <1>4, <1>6 DEF Valid
<1>7. ASSUME NEW k \in 0..last PROVE Rank(c, x, k) = k
  <2> DEFINE V == {j \in 0..k : Valid(c, x, j)}
  <2>1. V = 0..k
    BY <1>2, <1>5
  <2>2. k \in Nat
    BY <1>2
  <2>3. Cardinality(0..k) = k + 1
    BY <2>2, FS_Interval
  <2>4. Rank(c, x, k) = Cardinality(V) - 1
    BY DEF Rank
  <2> HIDE DEF V
  <2> QED
    BY <2>1, <2>2, <2>3, <2>4
<1> HIDE DEF last
<1> QED
  BY <1>5, <1>6, <1>7 DEF c, x, last

\* A query whose row keeps some column reads the positions of the columns kept.
LEMMA ReadsKept ==
    ASSUME BatchOK, NEW kept, KeptOK(kept), NEW q \in Tokens,
           VecKeep(MlaCall(kept), IndexOf(q)) # {}
    PROVE  LET c == MlaCall(kept)
           IN  KeysRead(c, VecRow(c, IndexOf(q)))
                 = {<<q[1], First(q[2]) + k>> : k \in VecKeep(c, IndexOf(q))}
<1> DEFINE c == MlaCall(kept)
           x == IndexOf(q)
           last == q[2] - First(q[2])
           K == VecKeep(c, x)
           tok(k) == <<q[1], First(q[2]) + k>>
<1>1. /\ q[1] \in 1..fb.n /\ q[1] \in Nat \ {0} /\ q[2] \in 0..(MaxPos - 1) /\ MaxPos \in Nat
      /\ fb.stop[q[1]] \in 1..MaxPos /\ q[2] < fb.stop[q[1]] /\ fb.n \in Nat
  BY IndexerAssumption, TokenIsPair DEF BatchOK
<1>2. First(q[2]) \in 0..q[2] /\ last \in Nat
  <2>1. q[2] \in Nat
    BY <1>1
  <2> QED
    BY <2>1, WindowStart
<1>3. \A k \in K : k \in 0..last /\ k \in 0..(c.C - 1)
  BY ColumnsOfWindow DEF VecKeep
<1>4. \A k \in 0..(c.C - 1) : k \in 0..last => c.indices[x][k] = Slot(q[1], First(q[2]) + k)
  <2>1. \A k \in 0..(c.C - 1) :
            c.indices[x][k] = IF First(q[2]) + k <= q[2]
                              THEN Slot(q[1], First(q[2]) + k) ELSE -1
    BY RowOfQuery
  <2> HIDE DEF c, x
  <2> QED
    BY <1>1, <1>2, <2>1
<1>5. c.vslots = UNION {{Slot(i, p) : p \in 0..(fb.stop[i] - 1)} : i \in 1..fb.n}
  BY DEF MlaCall
<1>6. ASSUME NEW i \in 1..fb.n, NEW p \in 0..(fb.stop[i] - 1)
      PROVE  Slot(i, p) \in c.vslots
  BY <1>5
<1>7. CallOK(c)
  BY CallIsOK
<1> HIDE DEF c, x, K
<1>8. VecRow(c, x) = {Inv(c, Slot(q[1], First(q[2]) + k)) : k \in K}
  <2>1. VecRow(c, x) = {p \in {Inv(c, c.indices[x][k]) : k \in K} : p >= 0}
    BY DEF VecRow, K, c, x
  <2>2. ASSUME NEW k \in K
        PROVE  /\ c.indices[x][k] = Slot(q[1], First(q[2]) + k)
               /\ Inv(c, Slot(q[1], First(q[2]) + k)) \in Nat
    <3>1. First(q[2]) + k \in 0..(fb.stop[q[1]] - 1)
      BY <1>1, <1>2, <1>3
    <3>2. Slot(q[1], First(q[2]) + k) \in c.vslots
      BY <1>1, <1>6, <3>1
    <3> QED
      BY <1>3, <1>4, <1>7, <3>2, KeyOfSlot
  <2> QED
    BY <2>1, <2>2
<1>9. ASSUME NEW t \in (1..fb.n) \X (0..(MaxPos - 1)), t[2] < fb.stop[t[1]]
      PROVE  Inv(c, Slot(t[1], t[2])) \in VecRow(c, x) <=> \E k \in K : t = tok(k)
  <2>1. t[1] \in 1..fb.n /\ t[1] \in Nat \ {0} /\ t[2] \in 0..(fb.stop[t[1]] - 1) /\ t = <<t[1], t[2]>>
    BY <1>1, <1>9 DEF BatchOK
  <2>2. Slot(t[1], t[2]) \in c.vslots
    BY <1>6, <2>1
  <2>3. ASSUME NEW k \in K
        PROVE  Inv(c, Slot(t[1], t[2])) = Inv(c, Slot(q[1], First(q[2]) + k)) <=> t = tok(k)
    <3>1. First(q[2]) + k \in 0..(fb.stop[q[1]] - 1) /\ First(q[2]) + k \in 0..(MaxPos - 1)
      BY <1>1, <1>2, <1>3
    <3>2. Slot(q[1], First(q[2]) + k) \in c.vslots
      BY <1>1, <1>6, <3>1
    <3>3. Inv(c, Slot(t[1], t[2])) = Inv(c, Slot(q[1], First(q[2]) + k))
            <=> Slot(t[1], t[2]) = Slot(q[1], First(q[2]) + k)
      BY <1>7, <2>2, <3>2, KeyOfSlot
    <3>4. t[2] \in 0..(MaxPos - 1)
      OBVIOUS
    <3>5. Slot(t[1], t[2]) = Slot(q[1], First(q[2]) + k) <=> t[1] = q[1] /\ t[2] = First(q[2]) + k
      BY <1>1, <2>1, <3>1, <3>4, SlotsDiffer
    <3> QED
      BY <2>1, <3>3, <3>5
  <2> QED
    BY <1>8, <2>3
<1>10. \A k \in K : tok(k) \in (1..fb.n) \X (0..(MaxPos - 1)) /\ tok(k)[2] < fb.stop[tok(k)[1]]
  BY <1>1, <1>2, <1>3
<1>11. KeysRead(c, VecRow(c, x)) = {tok(k) : k \in K}
  BY <1>9, <1>10 DEF KeysRead
<1> QED
  BY <1>11 DEF c, x, K

-----------------------------------------------------------------------------
(* What a selection keeps *)

\* A selection in the form Index publishes it.
LEMMA PublishedIsOK ==
    ASSUME BatchOK, NEW keep \in [Tokens -> SUBSET Blocks]
    PROVE  /\ PosKept(keep) # NoKept
           /\ PosKept(keep).rows = Cardinality(Tokens)
           /\ PosKept(keep).cov = Cardinality(Blocks) * Ratio
           /\ KeptOK(PosKept(keep))
           /\ PosKept(keep).bits \subseteq
                 (0..(Cardinality(Tokens) - 1)) \X (0..(Cardinality(Blocks) * Ratio - 1))
<1> DEFINE rows == Cardinality(Tokens)
           n    == Cardinality(Blocks)
           k    == PosKept(keep)
<1>1. rows \in Nat /\ n \in Nat /\ Ratio \in Nat \ {0}
  BY IndexerAssumption, TokenPlaces, BlockPlaces
<1>2. k.rows = rows /\ k.cov = n * Ratio
  BY DEF PosKept
<1>3. k.bits = UNION {{<<IndexOf(t), BlockIndex(b) * Ratio + o>> : b \in keep[t], o \in 0..(Ratio - 1)}
                        : t \in Tokens}
  BY DEF PosKept
<1>4. k \in [rows : {rows}, cov : {n * Ratio}, bits : {k.bits}]
  BY DEF PosKept
<1> HIDE DEF k
<1>5. ASSUME NEW b \in Blocks, NEW o \in 0..(Ratio - 1)
      PROVE  BlockIndex(b) * Ratio + o \in 0..(n * Ratio - 1)
  <2>1. BlockIndex(b) \in 0..(n - 1)
    BY BlockPlaces
  <2> HIDE DEF n
  <2>2. BlockIndex(b) * Ratio + Ratio <= n * Ratio
    BY <1>1, <2>1, MultiplesApart
  <2>3. BlockIndex(b) * Ratio \in Nat /\ n * Ratio \in Nat
    BY <1>1, <2>1
  <2> QED
    BY <1>1, <2>2, <2>3
<1>6. ASSUME NEW e \in k.bits PROVE e \in (0..(rows - 1)) \X (0..(n * Ratio - 1))
  <2>1. PICK t \in Tokens : \E b \in keep[t], o \in 0..(Ratio - 1) :
                               e = <<IndexOf(t), BlockIndex(b) * Ratio + o>>
    BY <1>3
  <2>2. PICK b \in keep[t], o \in 0..(Ratio - 1) : e = <<IndexOf(t), BlockIndex(b) * Ratio + o>>
    BY <2>1
  <2>3. b \in Blocks
    OBVIOUS
  <2>4. IndexOf(t) \in 0..(rows - 1)
    BY TokenPlaces
  <2> HIDE DEF rows, n
  <2> QED
    BY <1>5, <2>2, <2>3, <2>4
<1>7. n * Ratio \in Nat
  BY <1>1
<1>8. k # NoKept
  <2>1. k.bits \in SUBSET (Nat \X Nat)
    BY <1>1, <1>6, <1>7
  <2> HIDE DEF rows, n
  <2>2. k \in [rows : Nat, cov : Nat, bits : SUBSET (Nat \X Nat)]
    BY <1>1, <1>4, <1>7, <2>1
  <2> QED
    BY <2>2, NoKeptAssumption
<1> HIDE DEF rows, n
<1> QED
  BY <1>1, <1>2, <1>6, <1>7, <1>8 DEF k, n, rows, KeptOK

\* The cells of a query are the columns of the blocks chosen for it.
LEMMA CellsOfBlocks ==
    ASSUME BatchOK, NEW keep \in [Tokens -> SUBSET Blocks], NEW q \in Tokens, NEW k \in Nat
    PROVE  <<IndexOf(q), k>> \in PosKept(keep).bits <=> \E b \in keep[q] : BlockIndex(b) = k \div Ratio
<1>1. Ratio \in Nat \ {0}
  BY IndexerAssumption
<1>2. PosKept(keep).bits =
        UNION {{<<IndexOf(t), BlockIndex(b) * Ratio + o>> : b \in keep[t], o \in 0..(Ratio - 1)}
                 : t \in Tokens}
  BY DEF PosKept
<1>3. ASSUME <<IndexOf(q), k>> \in PosKept(keep).bits
      PROVE  \E b \in keep[q] : BlockIndex(b) = k \div Ratio
  <2>1. PICK t \in Tokens : \E b \in keep[t], o \in 0..(Ratio - 1) :
                    <<IndexOf(q), k>> = <<IndexOf(t), BlockIndex(b) * Ratio + o>>
    BY <1>2, <1>3
  <2>2. PICK b \in keep[t], o \in 0..(Ratio - 1) :
                    IndexOf(q) = IndexOf(t) /\ k = BlockIndex(b) * Ratio + o
    BY <2>1
  <2>3. t = q
    BY <2>2, TokenPlaces
  <2>4. BlockIndex(b) \in Int
    <3>1. b \in Blocks
      OBVIOUS
    <3> QED
      BY <3>1, BlockPlaces
  <2>5. k \div Ratio = BlockIndex(b)
    BY <1>1, <2>2, <2>4, DivUnique
  <2> QED
    BY <2>3, <2>5
<1>4. ASSUME NEW b \in keep[q], BlockIndex(b) = k \div Ratio
      PROVE  <<IndexOf(q), k>> \in PosKept(keep).bits
  <2>1. k = BlockIndex(b) * Ratio + (k % Ratio) /\ k % Ratio \in 0..(Ratio - 1)
    BY <1>1, <1>4
  <2> QED
    BY <1>2, <2>1
<1> QED
  BY <1>3, <1>4

\* The columns a query keeps are those of the blocks chosen for it and those
\* past the last block.
LEMMA ColumnsSelected ==
    ASSUME BatchOK, NEW keep \in [Tokens -> SUBSET Blocks], NEW q \in Tokens
    PROVE  VecKeep(MlaCall(PosKept(keep)), IndexOf(q))
             = {k \in 0..(q[2] - First(q[2])) :
                  k < Cardinality(Blocks) * Ratio => \E b \in keep[q] : BlockIndex(b) = k \div Ratio}
<1> DEFINE c == MlaCall(PosKept(keep))
           x == IndexOf(q)
           last == q[2] - First(q[2])
           cov == Cardinality(Blocks) * Ratio
           Hit(k) == \E b \in keep[q] : BlockIndex(b) = k \div Ratio
<1>1. c.kept = PosKept(keep) /\ PosKept(keep) # NoKept
  BY PublishedIsOK DEF MlaCall
<1>2. PosKept(keep).cov = cov /\ cov \in Nat /\ PosKept(keep).rows = Cardinality(Tokens)
  BY PublishedIsOK DEF KeptOK
<1>3. x \in 0..(Cardinality(Tokens) - 1) /\ Cardinality(Tokens) \in Nat
  BY TokenPlaces
<1>4. /\ \A k : k \in 0..(c.C - 1) /\ Valid(c, x, k) <=> k \in 0..last
      /\ \A k \in 0..last : Rank(c, x, k) = k
  BY ColumnsOfWindow
<1>5. last \in Nat
  <2>1. q[2] \in Nat
    BY IndexerAssumption, TokenIsPair
  <2> QED
    BY <2>1, WindowStart
<1>6. \A k \in Nat : <<x, k>> \in PosKept(keep).bits <=> Hit(k)
  BY CellsOfBlocks
<1> HIDE DEF c, x, last, cov, Hit
<1>7. ASSUME NEW k \in 0..last PROVE PkFull(c, x, k) <=> (k < cov => Hit(k))
  <2>1. Rank(c, x, k) = k /\ k \in Nat
    BY <1>4, <1>5
  <2>2. k < cov => Clamp(k, 0, cov - 1) = k
    BY <1>2, <2>1 DEF Clamp
  <2>3. PkFull(c, x, k) <=> k >= cov \/ <<x, Clamp(k, 0, cov - 1)>> \in PosKept(keep).bits
    BY <1>1, <1>2, <1>3, <2>1 DEF PkFull
  <2> QED
    BY <1>2, <1>6, <2>1, <2>2, <2>3
<1>8. x < c.kept.rows /\ \E k \in 0..(c.C - 1) : Valid(c, x, k)
  <2>1. 0 \in 0..last
    BY <1>5
  <2> QED
    BY <1>1, <1>2, <1>3, <1>4, <2>1
<1>9. VecKeep(c, x) = {k \in 0..last : k < cov => Hit(k)}
  <2>1. VecKeep(c, x) = {k \in 0..(c.C - 1) : Valid(c, x, k) /\ PkFull(c, x, k)}
    BY <1>1, <1>8 DEF VecKeep
  <2> QED
    BY <1>4, <1>7, <2>1
<1> QED
  BY <1>9 DEF c, x, last, cov, Hit

\* The keys of a query whose window is not filtered.
LEMMA WholeWindow ==
    ASSUME BatchOK, NEW kept, KeptOK(kept), NEW q \in Tokens,
           VecKeep(MlaCall(kept), IndexOf(q)) = 0..(q[2] - First(q[2]))
    PROVE  KeysRead(MlaCall(kept), VecRow(MlaCall(kept), IndexOf(q))) = InWindow(q)
<1> DEFINE K == VecKeep(MlaCall(kept), IndexOf(q))
<1>1. q[2] \in Nat /\ First(q[2]) \in 0..q[2]
  <2>1. q[2] \in Nat
    BY IndexerAssumption, TokenIsPair
  <2> QED
    BY <2>1, WindowStart
<1>2. K # {}
  <2>1. 0 \in 0..(q[2] - First(q[2]))
    BY <1>1
  <2> QED
    BY <2>1
<1>3. KeysRead(MlaCall(kept), VecRow(MlaCall(kept), IndexOf(q)))
        = {<<q[1], First(q[2]) + k>> : k \in K}
  BY <1>2, ReadsKept
<1> HIDE DEF K
<1>4. ASSUME NEW p \in First(q[2])..q[2] PROVE \E k \in 0..(q[2] - First(q[2])) : p = First(q[2]) + k
  <2>1. p - First(q[2]) \in 0..(q[2] - First(q[2])) /\ p = First(q[2]) + (p - First(q[2]))
    BY <1>1
  <2> QED
    BY <2>1
<1>5. ASSUME NEW k \in 0..(q[2] - First(q[2])) PROVE First(q[2]) + k \in First(q[2])..q[2]
  BY <1>1
<1>6. {<<q[1], First(q[2]) + k>> : k \in 0..(q[2] - First(q[2]))} = InWindow(q)
  BY <1>4, <1>5 DEF InWindow
<1> QED
  BY <1>3, <1>6 DEF K

\* Without a selection, and with one that chose every block, nothing is filtered.
LEMMA NoKeptDropsNothing ==
    ASSUME BatchOK, NEW q \in Tokens
    PROVE  KeysRead(MlaCall(NoKept), VecRow(MlaCall(NoKept), IndexOf(q))) = InWindow(q)
<1> DEFINE c == MlaCall(NoKept)
           x == IndexOf(q)
           last == q[2] - First(q[2])
<1>1. c.kept = NoKept
  BY DEF MlaCall
<1>2. \A k : k \in 0..(c.C - 1) /\ Valid(c, x, k) <=> k \in 0..last
  BY ColumnsOfWindow
<1> HIDE DEF c, x, last
<1>3. VecKeep(c, x) = 0..last
  <2>1. VecKeep(c, x) = {k \in 0..(c.C - 1) : Valid(c, x, k)}
    BY <1>1 DEF VecKeep
  <2> QED
    BY <1>2, <2>1
<1> QED
  BY <1>3, WholeWindow DEF c, x, last, KeptOK

\* The other case: every block is chosen for the query.
LEMMA AllBlocksDropNothing ==
    ASSUME BatchOK, NEW keep \in [Tokens -> SUBSET Blocks], NEW q \in Tokens, keep[q] = Blocks
    PROVE  LET c == MlaCall(PosKept(keep))
           IN  KeysRead(c, VecRow(c, IndexOf(q))) = InWindow(q)
<1> DEFINE n == Cardinality(Blocks)
           last == q[2] - First(q[2])
<1>1. n \in Nat /\ Ratio \in Nat \ {0}
  BY IndexerAssumption, BlockPlaces
<1>2. q[2] \in Nat /\ last \in Nat
  <2>1. q[2] \in Nat
    BY IndexerAssumption, TokenIsPair
  <2> QED
    BY <2>1, WindowStart
<1>3. ASSUME NEW k \in 0..last, k < n * Ratio
      PROVE  \E b \in keep[q] : BlockIndex(b) = k \div Ratio
  <2> HIDE DEF n, last
  <2>1. k \in Nat
    BY <1>2
  <2>2. k \div Ratio \in Nat /\ k = (k \div Ratio) * Ratio + (k % Ratio) /\ k % Ratio \in Nat
    <3>1. /\ k = (k \div Ratio) * Ratio + (k % Ratio)
          /\ k % Ratio \in 0..(Ratio - 1) /\ k \div Ratio \in Nat
      BY <1>1, <2>1
    <3> QED
      BY <1>1, <3>1
  <2>3. k \div Ratio < n
    <3> DEFINE d == k \div Ratio
    <3> SUFFICES ASSUME ~(d < n) PROVE FALSE
      OBVIOUS
    <3>1. n = d \/ n * Ratio + Ratio <= d * Ratio
      BY <1>1, <2>2, MultiplesApart
    <3>2. n * Ratio \in Nat /\ d * Ratio \in Nat /\ k = d * Ratio + (k % Ratio)
      BY <1>1, <2>2
    <3> HIDE DEF d
    <3> QED
      BY <1>1, <1>3, <2>1, <2>2, <3>1, <3>2
  <2>4. k \div Ratio \in 0..(n - 1)
    BY <1>1, <2>2, <2>3
  <2> QED
    BY <2>4, BlockPlaces DEF n
<1>4. VecKeep(MlaCall(PosKept(keep)), IndexOf(q)) = 0..last
  <2>1. VecKeep(MlaCall(PosKept(keep)), IndexOf(q))
          = {k \in 0..last : k < n * Ratio => \E b \in keep[q] : BlockIndex(b) = k \div Ratio}
    BY ColumnsSelected
  <2> HIDE DEF n, last
  <2> QED
    BY <1>3, <2>1
<1>5. KeptOK(PosKept(keep))
  BY PublishedIsOK
<1> QED
  BY <1>4, <1>5, WholeWindow

-----------------------------------------------------------------------------
(* One request, from its first position *)

\* The windows 0..n-1 of one sequence are n.
LEMMA OneRow ==
    ASSUME NEW n \in Nat
    PROVE  Cardinality({<<1, v>> : v \in 0..(n - 1)}) = n
<1> DEFINE D == 0..(n - 1)
           R == {<<1, v>> : v \in D}
           f == [v \in D |-> <<1, v>>]
<1>1. IsFiniteSet(D) /\ Cardinality(D) = n
  BY FS_Interval
<1>2. f \in Bijection(D, R)
  <2>1. f \in [D -> R] /\ \A p, q \in D : f[p] = f[q] => p = q
    OBVIOUS
  <2>2. \A v \in R : \E q \in D : f[q] = v
    OBVIOUS
  <2> QED
    BY <2>1, <2>2 DEF Bijection, Injection, Surjection, IsInjective
<1>3. ExistsBijection(D, R)
  BY <1>2 DEF ExistsBijection
<1> HIDE DEF D, R
<1> QED
  BY <1>1, <1>3, FS_Bijection DEF D, R

\* The batch is the prefill of one request, from 0 and within the window.
OnePrompt ==
    fb.extend /\ fb.n = 1 /\ fb.start[1] = 0 /\ fb.stop[1] <= Window

\* Its blocks are its windows, in place.
LEMMA BlocksOfOne ==
    ASSUME BatchOK, OnePrompt
    PROVE  LET n == fb.stop[1] \div Ratio
           IN  /\ n \in Nat /\ Cardinality(Blocks) = n
               /\ Blocks = {<<1, w>> : w \in 0..(n - 1)}
               /\ \A w \in 0..(n - 1) : BlockIndex(<<1, w>>) = w
<1> DEFINE n == fb.stop[1] \div Ratio
<1>1. fb.stop[1] \in Nat /\ Ratio \in Nat \ {0}
  BY IndexerAssumption DEF BatchOK, OnePrompt
<1>2. n \in Nat
  BY <1>1
<1>3. DOMAIN Ext = {1} /\ Ext[1] = fb.stop[1]
  <2>1. Ext = [i \in 1..1 |-> fb.stop[i] - fb.start[i]]
    BY DEF Ext, Len, OnePrompt
  <2>2. fb.stop[1] - 0 = fb.stop[1] /\ fb.start[1] = 0 /\ 1 \in 1..1
    BY <1>1 DEF OnePrompt
  <2> QED
    BY <2>1, <2>2
<1>4. Blocks = {<<1, w>> : w \in 0..(n - 1)}
  BY <1>3 DEF Blocks
<1> HIDE DEF n
<1>5. Cardinality(Blocks) = n
  BY <1>2, <1>4, OneRow
<1>6. ASSUME NEW w \in 0..(n - 1) PROVE BlockIndex(<<1, w>>) = w
  <2> DEFINE V == {a \in Blocks : Before(a, <<1, w>>)}
             U == {<<1, v>> : v \in 0..(w - 1)}
  <2>1. w \in Nat
    BY <1>2
  <2>2. ASSUME NEW a \in V PROVE a \in U
    <3>1. PICK v \in 0..(n - 1) : a = <<1, v>>
      BY <1>4
    <3>2. v < w
      BY <3>1 DEF Before
    <3> QED
      BY <1>2, <2>1, <3>1, <3>2
  <2>3. ASSUME NEW a \in U PROVE a \in V
    <3>1. PICK v \in 0..(w - 1) : a = <<1, v>>
      OBVIOUS
    <3>2. v \in 0..(n - 1) /\ v < w
      BY <1>2, <2>1, <3>1
    <3> QED
      BY <1>4, <3>1, <3>2 DEF Before
  <2>4. V = U
    BY <2>2, <2>3
  <2>5. BlockIndex(<<1, w>>) = Cardinality(V)
    BY DEF BlockIndex
  <2> HIDE DEF V
  <2> QED
    BY <2>1, <2>4, <2>5, OneRow
<1> QED
  BY <1>2, <1>4, <1>5, <1>6 DEF n

\* What a selection means to keep for a query, and what the query then reads.
MeantFor(q, keep) ==
    {t \in InWindow(q) : \/ t[2] >= (fb.stop[t[1]] \div Ratio) * Ratio
                         \/ <<t[1], t[2] \div Ratio>> \in keep[q]}

\* Its queries read what the selection means to keep for them.
LEMMA OnePromptReads ==
    ASSUME BatchOK, OnePrompt, NEW keep \in [Tokens -> SUBSET Blocks], NEW q \in Tokens,
           MeantFor(q, keep) # {}
    PROVE  LET c == MlaCall(PosKept(keep))
           IN  KeysRead(c, VecRow(c, IndexOf(q))) = MeantFor(q, keep)
<1> DEFINE c == MlaCall(PosKept(keep))
           n == fb.stop[1] \div Ratio
           K == VecKeep(c, IndexOf(q))
<1>1. q[1] = 1 /\ q[2] \in Nat /\ q[2] < fb.stop[1] /\ fb.stop[1] \in Nat
  BY IndexerAssumption, TokenIsPair DEF BatchOK, OnePrompt
<1>2. First(q[2]) = 0 /\ q[2] - First(q[2]) = q[2]
  <2>1. q[2] < Window /\ Window \in Nat
    BY <1>1, IndexerAssumption DEF OnePrompt
  <2> QED
    BY <1>1, <2>1 DEF First
<1>3. /\ n \in Nat /\ Cardinality(Blocks) = n
      /\ Blocks = {<<1, w>> : w \in 0..(n - 1)}
      /\ \A w \in 0..(n - 1) : BlockIndex(<<1, w>>) = w
  BY BlocksOfOne
<1>4. Ratio \in Nat \ {0}
  BY IndexerAssumption
<1>5. K = {k \in 0..q[2] : k < n * Ratio => \E b \in keep[q] : BlockIndex(b) = k \div Ratio}
  BY <1>2, <1>3, ColumnsSelected
<1>6. keep[q] \subseteq Blocks
  OBVIOUS
<1>7. ASSUME NEW k \in 0..q[2]
      PROVE  k \in K <=> k >= n * Ratio \/ <<1, k \div Ratio>> \in keep[q]
  <2>1. (\E b \in keep[q] : BlockIndex(b) = k \div Ratio) <=> <<1, k \div Ratio>> \in keep[q]
    <3>1. ASSUME NEW b \in keep[q], BlockIndex(b) = k \div Ratio
          PROVE  <<1, k \div Ratio>> \in keep[q]
      <4>1. PICK w \in 0..(n - 1) : b = <<1, w>>
        BY <1>3, <1>6
      <4>2. w = k \div Ratio
        BY <1>3, <3>1, <4>1
      <4> QED
        BY <4>1, <4>2
    <3>2. ASSUME <<1, k \div Ratio>> \in keep[q]
          PROVE  \E b \in keep[q] : BlockIndex(b) = k \div Ratio
      <4>1. PICK w \in 0..(n - 1) : <<1, k \div Ratio>> = <<1, w>>
        BY <1>3, <1>6, <3>2
      <4>2. BlockIndex(<<1, k \div Ratio>>) = k \div Ratio
        BY <1>3, <4>1
      <4> QED
        BY <3>2, <4>2
    <3> QED
      BY <3>1, <3>2
  <2>2. k \in Nat /\ n * Ratio \in Nat
    BY <1>1, <1>3, <1>4
  <2> HIDE DEF n, K
  <2> QED
    BY <1>5, <2>1, <2>2
<1>8. InWindow(q) = {<<1, p>> : p \in 0..q[2]}
  BY <1>1, <1>2 DEF InWindow
<1>9. MeantFor(q, keep) = {<<1, k>> : k \in K}
  <2>1. \A t \in InWindow(q) : \E k \in 0..q[2] : t = <<1, k>>
    BY <1>8
  <2>2. \A k \in 0..q[2] : <<1, k>> \in InWindow(q)
    BY <1>8
  <2>3. \A k \in K : k \in 0..q[2]
    BY <1>5
  <2>4. ASSUME NEW k \in 0..q[2] PROVE <<1, k>> \in MeantFor(q, keep) <=> k \in K
    BY <1>7, <2>2 DEF MeantFor
  <2>5. \A t \in MeantFor(q, keep) : t \in InWindow(q)
    BY DEF MeantFor
  <2> HIDE DEF K
  <2>6. ASSUME NEW t \in MeantFor(q, keep) PROVE \E k \in K : t = <<1, k>>
    <3>1. PICK k \in 0..q[2] : t = <<1, k>>
      BY <2>1, <2>5
    <3> QED
      BY <2>4, <3>1
  <2>7. ASSUME NEW k \in K PROVE <<1, k>> \in MeantFor(q, keep)
    BY <2>3, <2>4
  <2> QED
    BY <2>6, <2>7
<1>10. KeptOK(PosKept(keep))
  BY PublishedIsOK
<1>11. K # {}
  <2> HIDE DEF K
  <2> QED
    BY <1>9
<1>12. KeysRead(c, VecRow(c, IndexOf(q))) = {<<q[1], First(q[2]) + k>> : k \in K}
  BY <1>10, <1>11, ReadsKept
<1>13. \A k \in K : First(q[2]) + k = k
  <2>1. \A k \in K : k \in 0..q[2]
    BY <1>5
  <2> HIDE DEF K
  <2> QED
    BY <1>1, <1>2, <2>1
<1> HIDE DEF K
<1> QED
  BY <1>1, <1>9, <1>12, <1>13

-----------------------------------------------------------------------------
(* The invariant *)

\* Where a pass is.
Control ==
    /\ pc \in {"idle", "index", "attend"}
    /\ layer \in 1..NumLayers
    /\ pc = "index" => Indexed[layer]

\* What the holder holds: the selection of this layer and batch, if an
\* indexer has published one and nothing has taken it, and nothing otherwise.
Holder ==
    IF pc = "attend" /\ Indexed[layer]
    THEN /\ chosen \in [Tokens -> SUBSET Blocks]
         /\ Cardinality(Blocks) <= TopK => \A t \in Tokens : chosen[t] = Blocks
         /\ sel = IF Blocks = {} THEN NoKept ELSE PosKept(chosen)
    ELSE sel = NoKept

\* The type of what has been read.
ReadsTyped ==
    \A c \in ctx : c.layer \in 1..NumLayers /\ c.q \in Tokens /\ c.keys \subseteq Nat \X Nat

\* The inductive invariant: the holder's state beside what the runs check.
IndexerInv ==
    /\ BatchOK /\ Control /\ Holder /\ ReadsTyped
    /\ OthersStayDense /\ FewBlocksDropNothing /\ OneRequestExact

\* There is a first layer.
LEMMA LayersAreSome == 1 \in 1..NumLayers /\ NumLayers \in Nat
  BY IndexerAssumption

\* It holds before the first pass.
LEMMA IndexerInit == Init => IndexerInv
<1> SUFFICES ASSUME Init PROVE IndexerInv
  OBVIOUS
<1>1. BatchOK
  BY DEF Init, NoBatch, BatchOK
<1>2. Control /\ Holder
  BY LayersAreSome DEF Init, Control, Holder
<1>3. ctx = {}
  BY DEF Init
<1> QED
  BY <1>1, <1>2, <1>3 DEF IndexerInv, ReadsTyped, OthersStayDense, FewBlocksDropNothing, OneRequestExact

\* A pass begins with an empty holder.
LEMMA BeginPreserves ==
    ASSUME IndexerInv, pc = "idle", NEW extend \in BOOLEAN, NEW n \in 1..MaxBatch,
           NEW start \in [1..n -> 0..(MaxPos - 1)], NEW stop \in [1..n -> 1..MaxPos],
           Begin(extend, n, start, stop)
    PROVE  IndexerInv'
<1>1. BatchOK'
  <2>1. n \in Nat
    BY IndexerAssumption
  <2>2. /\ fb' = [extend |-> extend, n |-> n, start |-> start, stop |-> stop]
        /\ \A i \in 1..n : start[i] < stop[i]
    BY DEF Begin
  <2> QED
    BY <2>1, <2>2 DEF BatchOK
<1>2. sel' = NoKept /\ ctx' = {} /\ layer' = 1 /\ pc' = IF Indexed[1] THEN "index" ELSE "attend"
  BY DEF Begin, IndexerInv, Holder
<1>3. Control' /\ Holder'
  BY <1>2, LayersAreSome DEF Control, Holder
<1> QED
  BY <1>1, <1>2, <1>3 DEF IndexerInv, ReadsTyped, OthersStayDense, FewBlocksDropNothing, OneRequestExact

\* Steps of a pass leave the batch alone.
LEMMA SameBatch ==
    ASSUME fb' = fb
    PROVE  /\ BatchOK' = BatchOK /\ Tokens' = Tokens /\ Blocks' = Blocks
           /\ \A keep : PosKept(keep)' = PosKept(keep)
  BY DEF BatchOK, Tokens, Blocks, Ext, Len, PosKept, IndexOf, BlockIndex

\* If there are no more blocks than index_topk, they are all selected.
LEMMA SelectedBlocks ==
    ASSUME BatchOK, NEW k \in Selections
    PROVE  k \in SUBSET Blocks /\ (Cardinality(Blocks) <= TopK => k = Blocks)
<1>1. /\ k \in SUBSET Blocks
      /\ Cardinality(k) = IF TopK < Cardinality(Blocks) THEN TopK ELSE Cardinality(Blocks)
  BY DEF Selections
<1>2. IsFiniteSet(Blocks) /\ Cardinality(Blocks) \in Nat /\ TopK \in Nat
  BY BlockPlaces, IndexerAssumption
<1>3. ASSUME Cardinality(Blocks) <= TopK PROVE k = Blocks
  <2>1. Cardinality(Blocks) = Cardinality(k)
    BY <1>1, <1>2, <1>3
  <2> QED
    BY <1>1, <1>2, <2>1, FS_Subset, Zenon
<1> QED
  BY <1>1, <1>3

\* An indexer publishes a selection of its batch for its layer.
LEMMA IndexPreserves == IndexerInv /\ Index => IndexerInv'
<1> SUFFICES ASSUME IndexerInv, Index PROVE IndexerInv'
  OBVIOUS
<1>1. /\ pc = "index" /\ Blocks # {} /\ pc' = "attend" /\ ctx' = {}
      /\ fb' = fb /\ layer' = layer /\ Indexed[layer] /\ layer \in 1..NumLayers
  BY DEF Index, IndexerInv, Control
<1>2. PICK keep \in [Tokens -> Selections] : sel' = PosKept(keep) /\ chosen' = keep
  BY DEF Index
<1>3. /\ BatchOK' = BatchOK /\ Tokens' = Tokens /\ Blocks' = Blocks
      /\ PosKept(keep)' = PosKept(keep)
  BY <1>1, SameBatch
<1>4. keep \in [Tokens -> SUBSET Blocks] /\ (Cardinality(Blocks) <= TopK => \A t \in Tokens : keep[t] = Blocks)
  <2>1. \A t \in Tokens : keep[t] \in SUBSET Blocks /\ (Cardinality(Blocks) <= TopK => keep[t] = Blocks)
    BY SelectedBlocks DEF IndexerInv
  <2> QED
    BY <2>1
<1>5. Holder'
  <2>1. PosKept(chosen)' = PosKept(keep)
    BY <1>2, <1>3
  <2> QED
    BY <1>1, <1>2, <1>3, <1>4, <2>1 DEF Holder
<1>6. BatchOK' /\ Control'
  BY <1>1, <1>3 DEF IndexerInv, Control
<1> QED
  BY <1>1, <1>5, <1>6 DEF IndexerInv, ReadsTyped, OthersStayDense, FewBlocksDropNothing, OneRequestExact

\* An indexer that returns early leaves nothing to take.
LEMMA IndexNothingPreserves == IndexerInv /\ IndexNothing => IndexerInv'
<1> SUFFICES ASSUME IndexerInv, IndexNothing PROVE IndexerInv'
  OBVIOUS
<1>1. /\ pc = "index" /\ Blocks = {} /\ pc' = "attend" /\ ctx' = {} /\ sel' = NoKept
      /\ fb' = fb /\ layer' = layer /\ Indexed[layer] /\ layer \in 1..NumLayers
      /\ chosen' = [t \in Tokens |-> {}]
  BY DEF IndexNothing, IndexerInv, Control, Holder
<1>2. BatchOK' = BatchOK /\ Tokens' = Tokens /\ Blocks' = Blocks
  BY <1>1, SameBatch
<1>3. Holder'
  BY <1>1, <1>2 DEF Holder
<1>4. BatchOK' /\ Control'
  BY <1>1, <1>2 DEF IndexerInv, Control
<1> QED
  BY <1>1, <1>3, <1>4 DEF IndexerInv, ReadsTyped, OthersStayDense, FewBlocksDropNothing, OneRequestExact

\* What the queries of an attention call read.
LEMMA AttendReads ==
    ASSUME IndexerInv, pc = "attend", NEW q \in Tokens
    PROVE  LET keys == KeysRead(MlaCall(sel), VecRow(MlaCall(sel), IndexOf(q)))
           IN  /\ keys \subseteq Nat \X Nat
               /\ ~Indexed[layer] \/ Cardinality(Blocks) <= TopK => keys = InWindow(q)
               /\ (Indexed[layer] /\ OnePrompt /\ MeantFor(q, chosen) # {}
                     => keys = MeantFor(q, chosen))
<1> DEFINE keys == KeysRead(MlaCall(sel), VecRow(MlaCall(sel), IndexOf(q)))
<1>1. BatchOK /\ Holder
  BY DEF IndexerInv
<1>2. keys \subseteq Nat \X Nat
  <2>1. fb.n \in Nat /\ MaxPos \in Nat
    BY <1>1, IndexerAssumption DEF BatchOK
  <2>2. \A t \in keys : t \in (1..fb.n) \X (0..(MaxPos - 1))
    BY DEF KeysRead
  <2> QED
    BY <2>1, <2>2
<1>3. CASE sel = NoKept
  <2>1. keys = InWindow(q)
    BY <1>1, <1>3, NoKeptDropsNothing
  <2>2. ASSUME Indexed[layer], OnePrompt PROVE MeantFor(q, chosen) = InWindow(q)
    <3>1. chosen \in [Tokens -> SUBSET Blocks] /\ Blocks = {}
      BY <1>1, <1>3, <2>2, PublishedIsOK DEF Holder
    <3>2. fb.stop[1] \div Ratio = 0
      BY <1>1, <2>2, <3>1, BlocksOfOne, FS_EmptySet
    <3>3. \A t \in InWindow(q) : t[1] = 1 /\ t[2] \in Nat
      <4>1. q[1] = 1 /\ q[2] \in Nat
        BY <1>1, <2>2, IndexerAssumption, TokenIsPair DEF OnePrompt
      <4>2. First(q[2]) \in Nat
        BY <4>1, WindowStart
      <4> QED
        BY <4>1, <4>2 DEF InWindow
    <3>4. 0 * Ratio = 0
      BY IndexerAssumption
    <3> QED
      BY <3>2, <3>3, <3>4 DEF MeantFor
  <2> HIDE DEF keys
  <2> QED
    BY <1>2, <2>1, <2>2 DEF keys
<1>4. CASE sel # NoKept
  <2>1. /\ Indexed[layer] /\ chosen \in [Tokens -> SUBSET Blocks] /\ sel = PosKept(chosen)
        /\ Cardinality(Blocks) <= TopK => chosen[q] = Blocks
    BY <1>1, <1>4 DEF Holder
  <2>2. Cardinality(Blocks) <= TopK => keys = InWindow(q)
    BY <1>1, <2>1, AllBlocksDropNothing
  <2>3. OnePrompt /\ MeantFor(q, chosen) # {} => keys = MeantFor(q, chosen)
    BY <1>1, <2>1, OnePromptReads
  <2> HIDE DEF keys
  <2> QED
    BY <1>2, <2>1, <2>2, <2>3 DEF keys
<1> QED
  BY <1>3, <1>4

\* The attention takes the holder and leaves it empty for the next layer.
LEMMA AttendPreserves == IndexerInv /\ Attend => IndexerInv'
<1> SUFFICES ASSUME IndexerInv, Attend PROVE IndexerInv'
  OBVIOUS
<1> DEFINE Reads(q) == KeysRead(MlaCall(sel), VecRow(MlaCall(sel), IndexOf(q)))
<1>1. /\ pc = "attend" /\ sel' = NoKept /\ fb' = fb /\ chosen' = chosen
      /\ layer \in 1..NumLayers /\ NumLayers \in Nat
      /\ ctx' = {[layer |-> layer, q |-> t, keys |-> Reads(t)] : t \in Tokens}
      /\ IF layer < NumLayers
         THEN layer' = layer + 1 /\ pc' = IF Indexed[layer + 1] THEN "index" ELSE "attend"
         ELSE layer' = layer /\ pc' = "idle"
  BY LayersAreSome DEF Attend, TakeSel, IndexerInv, Control
<1>2. BatchOK' = BatchOK /\ Tokens' = Tokens /\ Blocks' = Blocks
  BY <1>1, SameBatch
<1>3. ASSUME NEW q \in Tokens
      PROVE  /\ Reads(q) \subseteq Nat \X Nat
             /\ ~Indexed[layer] \/ Cardinality(Blocks) <= TopK => Reads(q) = InWindow(q)
             /\ (Indexed[layer] /\ OnePrompt /\ MeantFor(q, chosen) # {}
                   => Reads(q) = MeantFor(q, chosen))
  BY <1>1, AttendReads
<1> HIDE DEF Reads
<1>4. \A c \in ctx' : c.layer = layer /\ c.q \in Tokens /\ c.keys = Reads(c.q)
  BY <1>1
<1>5. Control'
  BY <1>1 DEF Control
<1>6. Holder'
  BY <1>1 DEF Holder
<1>7. ReadsTyped'
  BY <1>1, <1>2, <1>3, <1>4 DEF ReadsTyped
<1>8. OthersStayDense' /\ FewBlocksDropNothing'
  <2>1. \A q : InWindow(q)' = InWindow(q)
    BY DEF InWindow, First
  <2> QED
    BY <1>2, <1>3, <1>4, <2>1 DEF OthersStayDense, FewBlocksDropNothing
<1>9. OneRequestExact'
  <2> SUFFICES ASSUME NEW c \in ctx', Indexed[c.layer], OnePrompt', Meant(c)' # {}
               PROVE  c.keys = Meant(c)'
    BY DEF OneRequestExact, OnePrompt
  <2>1. c.layer = layer /\ c.q \in Tokens /\ c.keys = Reads(c.q)
    BY <1>4
  <2>2. Meant(c)' = MeantFor(c.q, chosen)
    BY <1>1 DEF Meant, MeantFor, InWindow, First
  <2>3. OnePrompt
    BY <1>1 DEF OnePrompt
  <2> QED
    BY <1>3, <2>1, <2>2, <2>3
<1> QED
  BY <1>2, <1>5, <1>6, <1>7, <1>8, <1>9 DEF IndexerInv

\* In every pass over every batch the holder has the selection of the layer
\* about to attend, or nothing.
THEOREM IndexerInvariant == Spec => []IndexerInv
<1>1. Init => IndexerInv
  BY IndexerInit
<1>2. IndexerInv /\ [Next]_vars => IndexerInv'
  <2> SUFFICES ASSUME IndexerInv, [Next]_vars PROVE IndexerInv'
    OBVIOUS
  <2>1. ASSUME pc = "idle", NEW extend \in BOOLEAN, NEW n \in 1..MaxBatch,
               NEW start \in [1..n -> 0..(MaxPos - 1)], NEW stop \in [1..n -> 1..MaxPos],
               Begin(extend, n, start, stop)
        PROVE  IndexerInv'
    BY <2>1, BeginPreserves
  <2>2. CASE Index
    BY <2>2, IndexPreserves
  <2>3. CASE IndexNothing
    BY <2>3, IndexNothingPreserves
  <2>4. CASE Attend
    BY <2>4, AttendPreserves
  <2>5. CASE UNCHANGED vars
    <3>1. /\ BatchOK' = BatchOK /\ Tokens' = Tokens /\ Blocks' = Blocks
          /\ PosKept(chosen)' = PosKept(chosen)
      BY <2>5 DEF vars, BatchOK, Tokens, Blocks, Ext, Len, PosKept, IndexOf, BlockIndex
    <3>2. Control' /\ Holder' /\ ReadsTyped'
      BY <2>5, <3>1 DEF vars, IndexerInv, Control, Holder, ReadsTyped
    <3>3. OthersStayDense' /\ FewBlocksDropNothing'
      BY <2>5, <3>1 DEF vars, IndexerInv, OthersStayDense, FewBlocksDropNothing
    <3>4. OneRequestExact'
      BY <2>5 DEF vars, IndexerInv, OneRequestExact, Meant
    <3> QED
      BY <3>1, <3>2, <3>3, <3>4 DEF IndexerInv
  <2> QED
    BY <2>1, <2>2, <2>3, <2>4, <2>5 DEF Next
<1> QED
  BY <1>1, <1>2, PTL DEF Spec

-----------------------------------------------------------------------------
(* What the runs check, for every value of the constants *)

\* A selection reaches the layer and the batch it was made for, and no other.
THEOREM SelectionReachesItsLayer == Spec => []SelectionStays
<1>1. IndexerInv => SelectionStays
  <2> SUFFICES ASSUME IndexerInv PROVE SelectionStays
    OBVIOUS
  <2>1. ASSUME sel # NoKept
        PROVE  /\ pc = "attend" /\ Indexed[layer]
               /\ sel.rows = Cardinality(Tokens) /\ sel.cov = Cardinality(Blocks) * Ratio
               /\ sel.bits \subseteq (0..(sel.rows - 1)) \X (0..(sel.cov - 1))
    <3>1. /\ pc = "attend" /\ Indexed[layer] /\ sel = PosKept(chosen) /\ BatchOK
          /\ chosen \in [Tokens -> SUBSET Blocks]
      BY <2>1 DEF IndexerInv, Holder
    <3> QED
      BY <3>1, PublishedIsOK
  <2> QED
    BY <2>1 DEF IndexerInv, Control, ReadsTyped, SelectionStays, TypeOK, SelFresh
<1> QED
  BY <1>1, IndexerInvariant, PTL

\* For every batch and every selection the vectorized mask is the loop's.
THEOREM MasksAreEqual == Spec => []MasksAgree
<1>1. IndexerInv => MasksAgree
  <2> SUFFICES ASSUME IndexerInv, pc = "attend"
               PROVE  VecMask(MlaCall(sel)) = LoopMask(MlaCall(sel))
    BY DEF MasksAgree
  <2>1. KeptOK(sel)
    BY PublishedIsOK DEF IndexerInv, Holder, KeptOK
  <2> QED
    BY <2>1, CallIsOK, FormsAgree DEF IndexerInv
<1> QED
  BY <1>1, IndexerInvariant, PTL

\* What a query loses is what top-k dropped for it: nothing while there are
\* few blocks, and in the prefill of one request the blocks not chosen.
THEOREM SelectionIsExact == Spec => []SelectionExact
<1>1. IndexerInv => SelectionExact
  BY DEF IndexerInv, SelectionExact
<1> QED
  BY <1>1, IndexerInvariant, PTL

=============================================================================
