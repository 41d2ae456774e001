--------------------------- MODULE KvPoolProofs ---------------------------
(*************************************************************************)
(* Proofs about the paged KV pool, for every page size, pool, batch,     *)
(* length, window and capacity.                                          *)
(*                                                                       *)
(* PagedAlloc.  The inductive invariant PageTable says that the table is *)
(* a page table: each position sits at its own offset of the page of its *)
(* block, blocks and pages correspond one to one, and the pages of blocks *)
(* are the pages that are not free.  Both kernels are shown to produce   *)
(* rows of one shape (RowSpec), and the prefix sum to give the rows      *)
(* disjoint ranges of the free list that cover it.                       *)
(*                                                                       *)
(* CompressedLocs.  The location a compressed block is written to is the *)
(* one it is read from, and no two blocks have the same: for every ratio *)
(* that divides the page size.  Both rest on PageTable.                  *)
(*                                                                       *)
(* KvStash.  The stash runs the allocator: each of its steps is a step of *)
(* PagedAlloc or leaves the allocator alone, hence PageTable holds.  What *)
(* the stash owes to it is that no two live positions share a slot: a    *)
(* write then replaces no key that a live request still needs.           *)
(*                                                                       *)
(* Without indices the marked slots are read by rank.  A request that    *)
(* owns all of them, its slots increasing, is alone in its batch, and the *)
(* rank of its slot is its position: the last section.                   *)
(*************************************************************************)
EXTENDS CompressedLocs, KvStash, TLAPS, WellFoundedInduction, FiniteSetTheorems

-----------------------------------------------------------------------------
(* Natural numbers. *)

\* Floor division by a positive number.
LEMMA DivMod ==
    ASSUME NEW n \in Nat, NEW d \in Nat \ {0}
    PROVE  /\ n = (n \div d) * d + (n % d)
           /\ n % d \in 0..(d - 1)
           /\ n \div d \in Nat
  OBVIOUS

\* Multiples of d are at least d apart.
LEMMA MultiplesApart ==
    ASSUME NEW d \in Nat \ {0}, NEW a \in Int, NEW b \in Int, a < b
    PROVE  a * d + d <= b * d
  OBVIOUS

\* Quotient and remainder are unique.
LEMMA DivUnique ==
    ASSUME NEW n \in Nat, NEW d \in Nat \ {0},
           NEW q \in Int, NEW e \in 0..(d - 1), n = q * d + e
    PROVE  n \div d = q /\ n % d = e
<1> DEFINE Q == n \div d
<1>1. Q \in Nat /\ n % d \in 0..(d - 1) /\ n = Q * d + (n % d)
  OBVIOUS
<1> HIDE DEF Q
<1>2. (Q < q => Q * d + d <= q * d) /\ (q < Q => q * d + d <= Q * d)
  BY <1>1, MultiplesApart
<1>3. Q = q
  BY <1>1, <1>2
<1> QED
  BY <1>1, <1>3 DEF Q

\* The d-blocks that fit in n elements are the first n \div d.
LEMMA FullBlocks ==
    ASSUME NEW n \in Nat, NEW d \in Nat \ {0}, NEW w \in Nat
    PROVE  w < n \div d <=> (w + 1) * d <= n
<1> DEFINE Q == n \div d
           v == w + 1
<1>1. Q \in Nat /\ n % d \in 0..(d - 1) /\ n = Q * d + (n % d) /\ v \in Nat
  OBVIOUS
<1> HIDE DEF Q, v
<1>2. (Q < v => Q * d + d <= v * d) /\ (v < Q => v * d + d <= Q * d)
  BY <1>1, MultiplesApart
<1>3. v <= Q <=> v * d <= n
  BY <1>1, <1>2
<1> QED
  BY <1>1, <1>3 DEF Q, v

\* A nonempty set of naturals has a least element: what the proofs use in
\* place of induction.
LEMMA LeastElement ==
    ASSUME NEW T \in SUBSET Nat, T # {}
    PROVE  \E x \in T : \A y \in T : x <= y
<1> DEFINE Lt == {p \in Nat \X Nat : p[1] < p[2]}
<1>1. OpToRel(<, Nat) = Lt
  BY Zenon DEF OpToRel
<1>2. IsWellFoundedOn(Lt, Nat)
  BY <1>1, NatLessThanWellFounded, Zenon
<1> HIDE DEF Lt
<1>3. PICK x \in T : \A y \in T : ~(<<y, x>> \in Lt)
  BY <1>2, WFMin, Zenon
<1>4. \A y \in T : ~(y < x)
  BY <1>3 DEF Lt
<1> QED
  BY <1>4

\* A nonempty set of naturals with a bound has a greatest element.
LEMMA GreatestElement ==
    ASSUME NEW T \in SUBSET Nat, T # {}, NEW m \in Nat, \A x \in T : x <= m
    PROVE  \E x \in T : \A y \in T : x >= y
<1> DEFINE U == {m - x : x \in T}
<1>1. \A x \in T : m - x \in Nat
  OBVIOUS
<1>2. U \in SUBSET Nat /\ U # {}
  <2> HIDE DEF U
  <2>1. \A u \in U : u \in Nat
    BY <1>1 DEF U
  <2>2. PICK x \in T : TRUE
    OBVIOUS
  <2>3. m - x \in U
    BY <2>2 DEF U
  <2> QED
    BY <2>1, <2>3
<1>3. PICK u \in U : \A v \in U : u <= v
  BY <1>2, LeastElement, Zenon
<1>4. PICK x \in T : u = m - x
  BY <1>3
<1>5. ASSUME NEW y \in T PROVE x >= y
  <2>1. m - y \in U
    OBVIOUS
  <2>2. m - x <= m - y
    BY <1>3, <1>4, <2>1
  <2> QED
    BY <1>4, <2>2
<1> QED
  BY <1>5

-----------------------------------------------------------------------------
(* Arithmetic *)

\* The same for the page size.
LEMMA PageDiv ==
    ASSUME NEW n \in Nat
    PROVE  /\ n = (n \div PageSize) * PageSize + (n % PageSize)
           /\ n % PageSize \in 0..(PageSize - 1)
           /\ n \div PageSize \in Nat
           /\ (n \div PageSize) * PageSize \in Nat
<1>1. PageSize \in Nat \ {0}
  BY PagedAllocAssumption
<1>2. /\ n = (n \div PageSize) * PageSize + (n % PageSize)
      /\ n % PageSize \in 0..(PageSize - 1)
      /\ n \div PageSize \in Nat
  BY <1>1, DivMod, Zenon
<1>3. (n \div PageSize) * PageSize \in Nat
  <2> DEFINE g == n \div PageSize
  <2>1. g \in Nat
    BY <1>2
  <2> HIDE DEF g
  <2>2. g * PageSize \in Nat
    BY <1>1, <2>1
  <2> QED
    BY <2>2 DEF g
<1> QED
  BY <1>2, <1>3, Zenon

LEMMA PageDivUnique ==
    ASSUME NEW n \in Nat, NEW q \in Int, q * PageSize <= n, n < q * PageSize + PageSize
    PROVE  n \div PageSize = q /\ n % PageSize = n - q * PageSize
<1> USE PagedAllocAssumption
<1> DEFINE m == q * PageSize
           e == n - m
<1>1. m \in Int
  OBVIOUS
<1>2. e \in 0..(PageSize - 1) /\ n = m + e
  BY <1>1
<1>3. n \div PageSize = q /\ n % PageSize = e
  <2>1. n = q * PageSize + e
    BY <1>2
  <2> HIDE DEF e
  <2> QED
    BY <2>1, <1>2, DivUnique
<1> QED
  BY <1>3

\* CeilDiv(n) is the number of blocks n tokens touch.
LEMMA CeilDivBounds ==
    ASSUME NEW n \in Nat
    PROVE  /\ CeilDiv(n) \in Nat
           /\ n <= CeilDiv(n) * PageSize
           /\ CeilDiv(n) * PageSize < n + PageSize
<1> USE PagedAllocAssumption
<1>1. n + PageSize - 1 \in Nat
  OBVIOUS
<1>2. /\ n + PageSize - 1 = CeilDiv(n) * PageSize + ((n + PageSize - 1) % PageSize)
      /\ (n + PageSize - 1) % PageSize \in 0..(PageSize - 1)
      /\ CeilDiv(n) \in Nat
  BY <1>1, DivMod DEF CeilDiv
<1>3. CeilDiv(n) * PageSize \in Nat
  BY <1>2
<1> HIDE DEF CeilDiv
<1> QED
  BY <1>2, <1>3

\* A block is below CeilDiv(n) exactly when its first position is below n.
LEMMA CeilDivBlock ==
    ASSUME NEW n \in Nat, NEW b \in Nat
    PROVE  b < CeilDiv(n) <=> b * PageSize < n
<1> USE PagedAllocAssumption
<1>1. /\ CeilDiv(n) \in Nat
      /\ n <= CeilDiv(n) * PageSize
      /\ CeilDiv(n) * PageSize < n + PageSize
  BY CeilDivBounds
<1>2. CeilDiv(n) * PageSize \in Nat /\ b * PageSize \in Nat
  BY <1>1
<1>3. ASSUME b < CeilDiv(n) PROVE b * PageSize < n
  <2>1. b * PageSize + PageSize <= CeilDiv(n) * PageSize
    BY <1>1, <1>3, MultiplesApart
  <2> QED
    BY <1>1, <1>2, <2>1
<1>4. ASSUME CeilDiv(n) <= b PROVE n <= b * PageSize
  <2>1. CASE CeilDiv(n) = b
    BY <1>1, <2>1
  <2>2. CASE CeilDiv(n) < b
    <3>1. CeilDiv(n) * PageSize + PageSize <= b * PageSize
      BY <1>1, <2>2, MultiplesApart
    <3> QED
      BY <1>1, <1>2, <3>1
  <2> QED
    BY <1>1, <1>4, <2>1, <2>2
<1> QED
  BY <1>1, <1>2, <1>3, <1>4

\* A position is below n only if its block is below CeilDiv(n).
LEMMA CeilDivPosition ==
    ASSUME NEW n \in Nat, NEW p \in Nat, p < n
    PROVE  p \div PageSize < CeilDiv(n)
<1> USE PagedAllocAssumption
<1>1. /\ p = (p \div PageSize) * PageSize + (p % PageSize)
      /\ p % PageSize \in Nat
      /\ p \div PageSize \in Nat
  BY DivMod
<1>2. (p \div PageSize) * PageSize \in Nat
  BY <1>1
<1>3. (p \div PageSize) * PageSize < n
  BY <1>1, <1>2
<1> QED
  BY <1>1, <1>3, CeilDivBlock

LEMMA CeilDivMonotone ==
    ASSUME NEW m \in Nat, NEW n \in Nat, m <= n
    PROVE  CeilDiv(m) <= CeilDiv(n)
<1> USE PagedAllocAssumption
<1>1. CeilDiv(m) \in Nat /\ CeilDiv(n) \in Nat
  BY CeilDivBounds
<1> SUFFICES ASSUME CeilDiv(n) < CeilDiv(m) PROVE FALSE
  BY <1>1
<1>2. CeilDiv(n) * PageSize < m
  BY <1>1, CeilDivBlock
<1>3. n <= CeilDiv(n) * PageSize
  BY CeilDivBounds
<1>4. CeilDiv(n) * PageSize \in Nat
  BY <1>1
<1> QED
  BY <1>2, <1>3, <1>4

\* The token before pre is in the last of pre's blocks, and so are the
\* positions up to the end of that block.
LEMMA LastBlock ==
    ASSUME NEW pre \in Nat \ {0}, NEW p \in Nat,
           pre <= p, p < CeilDiv(pre) * PageSize
    PROVE  /\ p \div PageSize = CeilDiv(pre) - 1
           /\ (pre - 1) \div PageSize = CeilDiv(pre) - 1
           /\ p % PageSize = ((pre - 1) % PageSize) + (p - (pre - 1))
<1> USE PagedAllocAssumption
<1> DEFINE c == CeilDiv(pre)
<1>1. c \in Nat /\ pre <= c * PageSize /\ c * PageSize < pre + PageSize
  BY CeilDivBounds
<1>2. c * PageSize \in Nat /\ c - 1 \in Int /\ (c - 1) * PageSize = c * PageSize - PageSize
  BY <1>1
<1>3. /\ (c - 1) * PageSize <= p
      /\ p < (c - 1) * PageSize + PageSize
      /\ (c - 1) * PageSize <= pre - 1
      /\ pre - 1 < (c - 1) * PageSize + PageSize
      /\ pre - 1 \in Nat
  BY <1>1, <1>2
<1>5. p \div PageSize = c - 1 /\ p % PageSize = p - (c - 1) * PageSize
  BY <1>2, <1>3, PageDivUnique
<1>6. /\ (pre - 1) \div PageSize = c - 1
      /\ (pre - 1) % PageSize = pre - 1 - (c - 1) * PageSize
  BY <1>2, <1>3, PageDivUnique
<1>7. (c - 1) * PageSize \in Int
  BY <1>2
<1>8. p % PageSize = ((pre - 1) % PageSize) + (p - (pre - 1))
  BY <1>5, <1>6, <1>7
<1> QED
  BY <1>5, <1>6, <1>8

-----------------------------------------------------------------------------
(* The shape of the rows the kernels write *)

\* The row's slots sit at their position's offset; those of blocks the
\* request already has in the page of its last slot, those of new blocks in
\* consecutive entries of free_pages from nps on.
RowSpec(row, pre, seq, lastLoc, pages, nps) ==
    \A p \in pre..(seq - 1) :
        /\ row[p] \in Nat
        /\ row[p] % PageSize = p % PageSize
        /\ row[p] \div PageSize =
              IF p \div PageSize < CeilDiv(pre)
              THEN lastLoc \div PageSize
              ELSE pages[nps + (p \div PageSize - CeilDiv(pre))]

\* What the kernels may assume of a row's arguments.
RowArgs(pre, seq, lastLoc, pages, nps) ==
    /\ pre < seq
    /\ pre > 0 => lastLoc \in Nat /\ lastLoc % PageSize = (pre - 1) % PageSize
    /\ \A b \in CeilDiv(pre)..(CeilDiv(seq) - 1) : pages[nps + (b - CeilDiv(pre))] \in Nat

\* A slot behind the last one, inside the last page.
LEMMA OldPageSlot ==
    ASSUME NEW pre \in Nat \ {0}, NEW p \in Nat, pre <= p,
           p < CeilDiv(pre) * PageSize,
           NEW ll \in Nat, ll % PageSize = (pre - 1) % PageSize
    PROVE  /\ ll + 1 + (p - pre) \in Nat
           /\ (ll + 1 + (p - pre)) % PageSize = p % PageSize
           /\ (ll + 1 + (p - pre)) \div PageSize = ll \div PageSize
           /\ p \div PageSize < CeilDiv(pre)
<1> USE PagedAllocAssumption
<1>1. /\ p \div PageSize = CeilDiv(pre) - 1
      /\ p % PageSize = ((pre - 1) % PageSize) + (p - (pre - 1))
  BY LastBlock
<1>2. CeilDiv(pre) \in Nat
  BY CeilDivBounds
<1> DEFINE g == ll \div PageSize
           l == ll + 1 + (p - pre)
<1>3. /\ ll = g * PageSize + (ll % PageSize)
      /\ g \in Nat
      /\ g * PageSize \in Nat
      /\ ll % PageSize \in 0..(PageSize - 1)
  BY PageDiv
<1>4. p % PageSize \in 0..(PageSize - 1)
  BY PageDiv
<1>5. l \in Nat /\ l = g * PageSize + (p % PageSize)
  BY <1>1, <1>3, <1>4
<1> HIDE DEF g, l
<1>6. g * PageSize <= l /\ l < g * PageSize + PageSize
  BY <1>3, <1>4, <1>5
<1>7. l \div PageSize = g /\ l % PageSize = l - g * PageSize
  <2>1. g \in Int /\ l \in Nat
    BY <1>3, <1>5
  <2> QED
    BY <2>1, <1>6, PageDivUnique, Zenon
<1>8. l % PageSize = p % PageSize
  BY <1>3, <1>4, <1>5, <1>7
<1> QED
  BY <1>1, <1>2, <1>5, <1>7, <1>8 DEF g, l

\* A slot of a page, at an offset.
LEMMA PageSlot ==
    ASSUME NEW pg \in Nat, NEW e \in 0..(PageSize - 1)
    PROVE  /\ pg * PageSize + e \in Nat
           /\ (pg * PageSize + e) % PageSize = e
           /\ (pg * PageSize + e) \div PageSize = pg
<1> USE PagedAllocAssumption
<1>1. pg * PageSize \in Nat
  OBVIOUS
<1>2. pg * PageSize + e \in Nat
  BY <1>1
<1> QED
  BY <1>2, DivUnique

\* alloc_extend writes a row of that shape.
LEMMA ExtendRowSpec ==
    ASSUME NEW pre \in Nat, NEW seq \in Nat, NEW ll \in Int, NEW pages, NEW nps \in Nat,
           RowArgs(pre, seq, ll, pages, nps)
    PROVE  RowSpec(ExtendRow(pre, seq, ll, pages, nps), pre, seq, ll, pages, nps)
<1> USE PagedAllocAssumption
<1> DEFINE c == CeilDiv(pre)
           f == seq \div PageSize
           row == ExtendRow(pre, seq, ll, pages, nps)
<1> SUFFICES ASSUME NEW p \in pre..(seq - 1)
             PROVE  /\ row[p] \in Nat
                    /\ row[p] % PageSize = p % PageSize
                    /\ row[p] \div PageSize =
                         IF p \div PageSize < c THEN ll \div PageSize
                         ELSE pages[nps + (p \div PageSize - c)]
  BY DEF RowSpec
<1>1. p \in Nat /\ pre <= p /\ p < seq
  OBVIOUS
<1>2. c \in Nat /\ pre <= c * PageSize /\ c * PageSize \in Nat
  BY CeilDivBounds
<1>3. /\ seq = f * PageSize + (seq % PageSize)
      /\ seq % PageSize \in 0..(PageSize - 1)
      /\ f \in Nat
      /\ f * PageSize \in Nat
  BY PageDiv
<1>4. /\ p = (p \div PageSize) * PageSize + (p % PageSize)
      /\ p % PageSize \in 0..(PageSize - 1)
      /\ p \div PageSize \in Nat
      /\ (p \div PageSize) * PageSize \in Nat
  BY <1>1, PageDiv
<1>5. p \div PageSize < CeilDiv(seq) /\ CeilDiv(seq) \in Nat
  BY <1>1, CeilDivPosition, CeilDivBounds
<1>6. row[p] = IF p < c * PageSize
               THEN ll + 1 + (p - pre)
               ELSE IF p < f * PageSize
               THEN pages[nps + (p - c * PageSize) \div PageSize] * PageSize
                       + ((p - c * PageSize) % PageSize)
               ELSE pages[nps + NumNewPages(pre, seq) - 1] * PageSize
                       + (p - f * PageSize)
  BY DEF ExtendRow
<1> HIDE DEF c, f, row
<1>7. CASE p < c * PageSize
  <2>1. pre > 0
    BY <1>1, <1>2, <1>7, CeilDivBounds DEF c
  <2>2. ll \in Nat /\ ll % PageSize = (pre - 1) % PageSize
    BY <2>1 DEF RowArgs
  <2>3. row[p] = ll + 1 + (p - pre)
    BY <1>6, <1>7
  <2>4. /\ ll + 1 + (p - pre) \in Nat
        /\ (ll + 1 + (p - pre)) % PageSize = p % PageSize
        /\ (ll + 1 + (p - pre)) \div PageSize = ll \div PageSize
        /\ p \div PageSize < c
    <3>1. pre \in Nat \ {0}
      BY <2>1
    <3> QED
      BY <1>1, <1>7, <3>1, <2>2, OldPageSlot, Zenon DEF c
  <2> QED
    BY <2>3, <2>4
<1>8. ASSUME c * PageSize <= p
      PROVE  c <= p \div PageSize /\ p - c * PageSize \in Nat
  <2>1. p - c * PageSize \in Nat
    BY <1>1, <1>2, <1>8
  <2> SUFFICES ASSUME p \div PageSize < c PROVE FALSE
    BY <1>2, <1>4, <2>1
  <2>2. (p \div PageSize) * PageSize + PageSize <= c * PageSize
    BY <1>2, <1>4, MultiplesApart
  <2> QED
    BY <1>2, <1>4, <1>8, <2>2
<1>9. ASSUME c * PageSize <= p
      PROVE  pages[nps + (p \div PageSize - c)] \in Nat
  <2>1. p \div PageSize \in c..(CeilDiv(seq) - 1)
    BY <1>2, <1>4, <1>5, <1>8, <1>9
  <2> QED
    BY <2>1 DEF RowArgs, c
<1>10. ASSUME c * PageSize <= p,
              row[p] = pages[nps + (p \div PageSize - c)] * PageSize + (p % PageSize)
       PROVE  /\ row[p] \in Nat
              /\ row[p] % PageSize = p % PageSize
              /\ row[p] \div PageSize =
                    IF p \div PageSize < c THEN ll \div PageSize
                    ELSE pages[nps + (p \div PageSize - c)]
  <2>1. pages[nps + (p \div PageSize - c)] \in Nat
    BY <1>9, <1>10
  <2>2. ~(p \div PageSize < c)
    BY <1>2, <1>4, <1>8, <1>10
  <2> DEFINE pg == pages[nps + (p \div PageSize - c)]
             e == p % PageSize
  <2>3. pg \in Nat /\ e \in 0..(PageSize - 1) /\ row[p] = pg * PageSize + e
    BY <1>4, <1>10, <2>1
  <2> HIDE DEF pg, e
  <2>4. row[p] \in Nat /\ row[p] % PageSize = e /\ row[p] \div PageSize = pg
    BY <2>3, PageSlot
  <2> QED
    BY <2>2, <2>4 DEF pg, e
<1>11. CASE c * PageSize <= p /\ p < f * PageSize
  <2>1. /\ p - c * PageSize = (p \div PageSize - c) * PageSize + (p % PageSize)
        /\ p - c * PageSize \in Nat
        /\ p \div PageSize - c \in Int
    BY <1>2, <1>4, <1>8, <1>11
  <2>2. /\ (p - c * PageSize) \div PageSize = p \div PageSize - c
        /\ (p - c * PageSize) % PageSize = p % PageSize
    <3> DEFINE n == p - c * PageSize
               q == p \div PageSize - c
               e == p % PageSize
    <3>1. n \in Nat /\ q \in Int /\ e \in 0..(PageSize - 1) /\ n = q * PageSize + e
      BY <1>4, <2>1
    <3> HIDE DEF n, q, e
    <3>2. n \div PageSize = q /\ n % PageSize = e
      BY <3>1, DivUnique
    <3> QED
      BY <3>2 DEF n, q, e
  <2>3. row[p] = pages[nps + (p - c * PageSize) \div PageSize] * PageSize
                    + ((p - c * PageSize) % PageSize)
    BY <1>1, <1>2, <1>6, <1>11
  <2> QED
    BY <1>10, <1>11, <2>2, <2>3
<1>12. CASE c * PageSize <= p /\ f * PageSize <= p
  <2>1. f * PageSize <= p /\ p < f * PageSize + PageSize
    BY <1>1, <1>3, <1>12
  <2>2. p \div PageSize = f /\ p % PageSize = p - f * PageSize
    <3>1. f \in Int
      BY <1>3
    <3> QED
      BY <1>1, <2>1, <3>1, PageDivUnique, Zenon
  <2>3. f < CeilDiv(seq)
    BY <1>5, <2>2
  <2>4. ~(f + 1 < CeilDiv(seq))
    <3> SUFFICES ASSUME f + 1 < CeilDiv(seq) PROVE FALSE
      OBVIOUS
    <3>1. (f + 1) * PageSize < seq
      BY <1>3, CeilDivBlock
    <3>2. (f + 1) * PageSize = f * PageSize + PageSize
      BY <1>3
    <3> QED
      BY <1>3, <3>1, <3>2
  <2>5. CeilDiv(seq) = f + 1
    BY <1>3, <1>5, <2>3, <2>4
  <2>6. nps + NumNewPages(pre, seq) - 1 = nps + (p \div PageSize - c)
    BY <1>2, <1>3, <2>2, <2>5 DEF NumNewPages, c
  <2>7. row[p] = pages[nps + NumNewPages(pre, seq) - 1] * PageSize + (p - f * PageSize)
    BY <1>1, <1>2, <1>3, <1>6, <1>12
  <2> QED
    BY <1>10, <1>12, <2>2, <2>6, <2>7
<1> QED
  BY <1>1, <1>2, <1>3, <1>7, <1>11, <1>12 DEF c

\* alloc_decode writes a row of that shape.
LEMMA DecodeRowSpec ==
    ASSUME NEW pre \in Nat \ {0}, NEW ll \in Int, NEW pages, NEW nps \in Nat,
           RowArgs(pre, pre + 1, ll, pages, nps)
    PROVE  RowSpec(DecodeRow(pre, pre + 1, ll, pages, nps), pre, pre + 1, ll, pages, nps)
<1> USE PagedAllocAssumption
<1> DEFINE c == CeilDiv(pre)
           d == CeilDiv(pre + 1)
           row == DecodeRow(pre, pre + 1, ll, pages, nps)
<1> SUFFICES /\ row[pre] \in Nat
             /\ row[pre] % PageSize = pre % PageSize
             /\ row[pre] \div PageSize =
                  IF pre \div PageSize < c THEN ll \div PageSize
                  ELSE pages[nps + (pre \div PageSize - c)]
  BY DEF RowSpec
<1>1. /\ c \in Nat /\ pre <= c * PageSize /\ c * PageSize \in Nat
      /\ d \in Nat
  BY CeilDivBounds
<1>2. row[pre] = IF d - c = 0 THEN ll + 1 ELSE pages[nps] * PageSize
  BY DEF DecodeRow, NumNewPages
<1> HIDE DEF c, d, row
<1>3. c < d <=> c * PageSize < pre + 1
  BY <1>1, CeilDivBlock DEF d
<1>4. c <= d
  BY CeilDivMonotone DEF c, d
<1>5. CASE c = d
  <2>1. pre < c * PageSize
    BY <1>1, <1>3, <1>5
  <2>2. ll \in Nat /\ ll % PageSize = (pre - 1) % PageSize
    BY DEF RowArgs
  <2>3. /\ ll + 1 + (pre - pre) \in Nat
        /\ (ll + 1 + (pre - pre)) % PageSize = pre % PageSize
        /\ (ll + 1 + (pre - pre)) \div PageSize = ll \div PageSize
        /\ pre \div PageSize < c
    <3>1. pre \in Nat /\ pre <= pre
      OBVIOUS
    <3> QED
      BY <2>1, <2>2, <3>1, OldPageSlot, Zenon DEF c
  <2>4. ll + 1 + (pre - pre) = ll + 1
    BY <2>2
  <2> QED
    BY <1>1, <1>2, <1>5, <2>3, <2>4
<1>6. CASE c < d
  <2>1. pre = c * PageSize
    BY <1>1, <1>3, <1>6
  <2>2. c * PageSize <= pre /\ pre < c * PageSize + PageSize /\ c \in Int
    BY <1>1, <2>1
  <2>3. pre \div PageSize = c /\ pre % PageSize = pre - c * PageSize
    <3>1. pre \in Nat
      OBVIOUS
    <3> QED
      BY <2>2, <3>1, PageDivUnique, Zenon
  <2>4. pre % PageSize = 0
    BY <2>1, <2>3
  <2>5. c \in c..(d - 1) /\ nps + (c - c) = nps
    BY <1>1, <1>6
  <2>6. pages[nps + (c - c)] \in Nat
    BY <2>5 DEF RowArgs, c, d
  <2> DEFINE pg == pages[nps]
  <2>7. pg \in Nat /\ 0 \in 0..(PageSize - 1) /\ row[pre] = pg * PageSize
    BY <1>1, <1>2, <1>6, <2>5, <2>6
  <2> HIDE DEF pg
  <2>8. row[pre] = pg * PageSize + 0
    BY <2>7
  <2>9. row[pre] \in Nat /\ row[pre] % PageSize = 0 /\ row[pre] \div PageSize = pg
    <3>1. /\ pg * PageSize + 0 \in Nat
          /\ (pg * PageSize + 0) % PageSize = 0
          /\ (pg * PageSize + 0) \div PageSize = pg
      BY <2>7, PageSlot, Zenon
    <3> QED
      BY <2>8, <3>1, Zenon
  <2> QED
    BY <1>1, <2>3, <2>4, <2>5, <2>9 DEF pg
<1> QED
  BY <1>1, <1>4, <1>5, <1>6

-----------------------------------------------------------------------------
(* The prefix sum *)

\* What the proofs need of new_page_start: it never decreases, ...
LEMMA StartMonotone ==
    ASSUME NEW n \in Nat \ {0}, NEW start \in [1..(n + 1) -> Nat],
           \A i \in 1..n : start[i] <= start[i + 1],
           NEW i \in 1..(n + 1), NEW j \in 1..(n + 1), i <= j
    PROVE  start[i] <= start[j]
<1> DEFINE T == {k \in Nat : k \in i..(n + 1) /\ start[k] < start[i]}
<1> SUFFICES ASSUME ~(start[i] <= start[j]) PROVE FALSE
  OBVIOUS
<1>0. start[i] \in Nat /\ start[j] \in Nat
  OBVIOUS
<1>1. T \in SUBSET Nat /\ j \in T
  BY <1>0
<1>2. PICK k \in T : \A m \in T : k <= m
  BY <1>1, LeastElement
<1>3. k \in i..(n + 1) /\ start[k] < start[i] /\ k # i
  BY <1>2
<1>4. k - 1 \in i..n /\ k - 1 \in Nat /\ (k - 1) + 1 = k
  BY <1>3
<1>5. start[k - 1] <= start[k]
  BY <1>4
<1>6. k - 1 \in 1..(n + 1) /\ k \in 1..(n + 1)
  BY <1>3, <1>4
<1>7. start[k - 1] < start[i]
  BY <1>3, <1>5, <1>6
<1>8. k - 1 \in T
  BY <1>4, <1>7
<1> QED
  BY <1>2, <1>4, <1>8

\* ... and every index of the array belongs to the range of some row.
LEMMA StartCovers ==
    ASSUME NEW n \in Nat \ {0}, NEW start \in [1..(n + 1) -> Nat], start[1] = 0,
           NEW j \in Nat, j < start[n + 1]
    PROVE  \E i \in 1..n : start[i] <= j /\ j < start[i + 1]
<1> DEFINE T == {k \in Nat : k \in 1..(n + 1) /\ j < start[k]}
<1>1. n + 1 \in T
  OBVIOUS
<1>2. T \in SUBSET Nat /\ T # {}
  BY <1>1
<1>3. PICK k \in T : \A m \in T : k <= m
  BY <1>2, LeastElement
<1>4. k \in 1..(n + 1) /\ j < start[k] /\ k # 1
  BY <1>3
<1>5. k - 1 \in 1..n /\ k - 1 \in Nat /\ (k - 1) + 1 = k
  BY <1>4
<1>6. k - 1 \notin T
  BY <1>3, <1>5
<1>7. start[k - 1] <= j
  <2>1. k - 1 \in 1..(n + 1)
    BY <1>5
  <2>2. start[k - 1] \in Nat
    BY <2>1
  <2> QED
    BY <1>5, <1>6, <2>1, <2>2
<1> QED
  BY <1>4, <1>5, <1>7

-----------------------------------------------------------------------------
(* The inductive invariant *)

Types ==
    /\ free \subseteq Page
    /\ seqLen \in [Req -> 0..MaxLen]
    /\ DOMAIN reqToToken = Req
    /\ \A r \in Req : reqToToken[r] \in [Positions(r) -> Nat]

Offsets ==
    \A r \in Req : \A p \in Positions(r) :
        reqToToken[r][p] % PageSize = p % PageSize

PagesTaken ==
    \A r \in Req : \A p \in Positions(r) : PageOf(r, p) \in Page \ free

BlockIsPage ==
    \A r, s \in Req : \A p \in Positions(r), q \in Positions(s) :
        PageOf(r, p) = PageOf(s, q) <=> r = s /\ p \div PageSize = q \div PageSize

NoPageLost ==
    \A pg \in Page \ free : \E r \in Req : \E p \in Positions(r) : PageOf(r, p) = pg

PageTable == Types /\ Offsets /\ PagesTaken /\ BlockIsPage /\ NoPageLost

\* A kernel call and what its callee knows when it commits.
Call(n, batch, target, start, pages, rows) ==
    /\ n \in 1..MaxBatch
    /\ batch \in Batches(n)
    /\ target \in [1..n -> 1..MaxLen]
    /\ \A i \in 1..n : target[i] > seqLen[batch[i]]
    /\ start \in [1..(n + 1) -> 0..NumPages]
    /\ IsNewPageStart(start, n, batch, target)
    /\ pages \in FreePages(start[n + 1])
    /\ \A i \in 1..n :
          RowSpec(rows[i], seqLen[batch[i]], target[i], LastLoc(batch[i]), pages, start[i])
    /\ Commit(n, batch, target, rows, {pages[j] : j \in 0..(start[n + 1] - 1)})

\* The ranges of the rows are disjoint, inside the array, and as long as the
\* row's new blocks.
LEMMA RowRanges ==
    ASSUME Types, NEW n \in 1..MaxBatch, NEW batch \in Batches(n),
           NEW target \in [1..n -> 1..MaxLen],
           \A i \in 1..n : target[i] > seqLen[batch[i]],
           NEW start \in [1..(n + 1) -> 0..NumPages],
           IsNewPageStart(start, n, batch, target)
    PROVE  /\ \A i \in 1..n :
                 /\ start[i] \in Nat /\ start[i + 1] \in Nat
                 /\ start[i + 1] = start[i] + (CeilDiv(target[i]) - CeilDiv(seqLen[batch[i]]))
                 /\ start[i] <= start[i + 1] /\ start[i + 1] <= start[n + 1]
                 /\ batch[i] \in Req /\ seqLen[batch[i]] \in Nat /\ target[i] \in Nat
                 /\ CeilDiv(seqLen[batch[i]]) \in Nat /\ CeilDiv(target[i]) \in Nat
           /\ \A i, k \in 1..n : i < k => start[i + 1] <= start[k]
           /\ \A j \in 0..(start[n + 1] - 1) :
                 \E i \in 1..n : start[i] <= j /\ j < start[i + 1]
<1>1. n \in Nat \ {0} /\ start \in [1..(n + 1) -> Nat] /\ start[1] = 0
  BY PagedAllocAssumption DEF IsNewPageStart
<1>2. ASSUME NEW i \in 1..n
      PROVE  /\ batch[i] \in Req /\ seqLen[batch[i]] \in Nat /\ target[i] \in Nat
             /\ CeilDiv(seqLen[batch[i]]) \in Nat /\ CeilDiv(target[i]) \in Nat
             /\ CeilDiv(seqLen[batch[i]]) <= CeilDiv(target[i])
             /\ start[i] \in Nat /\ start[i + 1] \in Nat
             /\ start[i + 1] = start[i] + (CeilDiv(target[i]) - CeilDiv(seqLen[batch[i]]))
             /\ start[i] <= start[i + 1]
  <2>1. batch[i] \in Req /\ target[i] \in Nat
    BY DEF Batches
  <2>2. seqLen[batch[i]] \in Nat
    BY <2>1 DEF Types
  <2>3. seqLen[batch[i]] <= target[i]
    BY <2>1, <2>2
  <2>4. /\ CeilDiv(seqLen[batch[i]]) \in Nat /\ CeilDiv(target[i]) \in Nat
        /\ CeilDiv(seqLen[batch[i]]) <= CeilDiv(target[i])
    BY <2>1, <2>2, <2>3, CeilDivBounds, CeilDivMonotone
  <2>5. start[i] \in Nat /\ start[i + 1] \in Nat
    BY <1>1
  <2>6. start[i + 1] = start[i] + (CeilDiv(target[i]) - CeilDiv(seqLen[batch[i]]))
    BY DEF IsNewPageStart, NumNewPages
  <2> QED
    BY <2>1, <2>2, <2>4, <2>5, <2>6
<1>3. \A i \in 1..n : start[i] <= start[i + 1]
  BY <1>2
<1>4. \A i \in 1..n : start[i + 1] <= start[n + 1]
  <2> SUFFICES ASSUME NEW i \in 1..n PROVE start[i + 1] <= start[n + 1]
    OBVIOUS
  <2>1. i + 1 \in 1..(n + 1) /\ n + 1 \in 1..(n + 1) /\ i + 1 <= n + 1
    BY <1>1
  <2> QED
    BY <1>1, <1>3, <2>1, StartMonotone
<1>5. \A i, k \in 1..n : i < k => start[i + 1] <= start[k]
  <2> SUFFICES ASSUME NEW i \in 1..n, NEW k \in 1..n, i < k PROVE start[i + 1] <= start[k]
    OBVIOUS
  <2>1. i + 1 \in 1..(n + 1) /\ k \in 1..(n + 1) /\ i + 1 <= k
    BY <1>1
  <2> QED
    BY <1>1, <1>3, <2>1, StartMonotone
<1>6. \A j \in 0..(start[n + 1] - 1) :
         \E i \in 1..n : start[i] <= j /\ j < start[i + 1]
  <2> SUFFICES ASSUME NEW j \in 0..(start[n + 1] - 1)
               PROVE  \E i \in 1..n : start[i] <= j /\ j < start[i + 1]
    OBVIOUS
  <2>1. j \in Nat /\ j < start[n + 1]
    BY <1>1
  <2> QED
    BY <1>1, <2>1, StartCovers
<1> QED
  BY <1>2, <1>4, <1>5, <1>6

\* What Commit does, row by row.
LEMMA CommitEffect ==
    ASSUME NEW n \in 1..MaxBatch, NEW batch \in Batches(n), NEW target, NEW rows, NEW taken,
           Commit(n, batch, target, rows, taken)
    PROVE  /\ \A i \in 1..n :
                 /\ seqLen'[batch[i]] = target[i]
                 /\ reqToToken'[batch[i]] =
                       [p \in 0..(target[i] - 1) |->
                          IF p < seqLen[batch[i]] THEN reqToToken[batch[i]][p] ELSE rows[i][p]]
           /\ \A r \in Req : (\A i \in 1..n : batch[i] # r) =>
                 seqLen'[r] = seqLen[r] /\ reqToToken'[r] = reqToToken[r]
           /\ seqLen' = [r \in Req |-> seqLen'[r]]
           /\ reqToToken' = [r \in Req |-> reqToToken'[r]]
           /\ free' = free \ taken
<1> DEFINE served == {batch[i] : i \in 1..n}
           row(r) == CHOOSE i \in 1..n : batch[i] = r
<1>1. ASSUME NEW i \in 1..n PROVE row(batch[i]) = i /\ batch[i] \in Req /\ batch[i] \in served
  <2>1. \A k \in 1..n : batch[k] = batch[i] => k = i
    BY DEF Batches
  <2>2. batch[i] \in Req /\ batch[i] \in served
    BY DEF Batches
  <2> QED
    BY <2>1, <2>2
<1>2. /\ seqLen' = [r \in Req |-> IF r \in served THEN target[row(r)] ELSE seqLen[r]]
      /\ reqToToken' = [r \in Req |->
            IF r \in served
            THEN [p \in 0..(target[row(r)] - 1) |->
                    IF p < seqLen[r] THEN reqToToken[r][p] ELSE rows[row(r)][p]]
            ELSE reqToToken[r]]
      /\ free' = free \ taken
  BY DEF Commit
<1>3. ASSUME NEW i \in 1..n
      PROVE  /\ seqLen'[batch[i]] = target[i]
             /\ reqToToken'[batch[i]] =
                   [p \in 0..(target[i] - 1) |->
                      IF p < seqLen[batch[i]] THEN reqToToken[batch[i]][p] ELSE rows[i][p]]
  <2> HIDE DEF served, row
  <2> QED
    BY <1>1, <1>2, Zenon
<1>4. ASSUME NEW r \in Req, \A i \in 1..n : batch[i] # r
      PROVE  seqLen'[r] = seqLen[r] /\ reqToToken'[r] = reqToToken[r]
  <2>1. r \notin served
    BY <1>4
  <2> HIDE DEF served, row
  <2> QED
    BY <1>2, <2>1, Zenon
<1>5. seqLen' = [r \in Req |-> seqLen'[r]] /\ reqToToken' = [r \in Req |-> reqToToken'[r]]
  <2> HIDE DEF served, row
  <2> QED
    BY <1>2, Zenon
<1> QED
  BY <1>2, <1>3, <1>4, <1>5

\* A position of the new table lies in a block the request had, and then in
\* that block's page, or in a new block, and then in the row's entry for it.
LEMMA NewPosition ==
    ASSUME PageTable, NEW n, NEW batch, NEW target, NEW start, NEW pages, NEW rows,
           Call(n, batch, target, start, pages, rows),
           NEW r \in Req, NEW p \in Positions(r)'
    PROVE  /\ p \in Nat
           /\ reqToToken'[r][p] \in Nat
           /\ reqToToken'[r][p] % PageSize = p % PageSize
           /\ \/ \E q \in Positions(r) :
                    /\ q \div PageSize = p \div PageSize
                    /\ PageOf(r, p)' = PageOf(r, q)
              \/ \E i \in 1..n :
                    /\ batch[i] = r
                    /\ p \div PageSize \in CeilDiv(seqLen[r])..(CeilDiv(target[i]) - 1)
                    /\ PageOf(r, p)' = pages[start[i] + (p \div PageSize - CeilDiv(seqLen[r]))]
<1> USE DEF Call
<1> DEFINE len == seqLen[r]
<1>1. len \in Nat /\ reqToToken[r] \in [0..(len - 1) -> Nat]
  BY DEF PageTable, Types, Positions
<1>2. /\ \A i \in 1..n :
            /\ seqLen'[batch[i]] = target[i]
            /\ reqToToken'[batch[i]] =
                  [x \in 0..(target[i] - 1) |->
                     IF x < seqLen[batch[i]] THEN reqToToken[batch[i]][x] ELSE rows[i][x]]
      /\ (\A i \in 1..n : batch[i] # r) =>
            seqLen'[r] = seqLen[r] /\ reqToToken'[r] = reqToToken[r]
  BY CommitEffect
<1>3. ASSUME p \in Positions(r), reqToToken'[r][p] = reqToToken[r][p], p \in Nat
      PROVE  /\ reqToToken'[r][p] \in Nat
             /\ reqToToken'[r][p] % PageSize = p % PageSize
             /\ \E q \in Positions(r) :
                    /\ q \div PageSize = p \div PageSize
                    /\ PageOf(r, p)' = PageOf(r, q)
  <2>1. reqToToken[r][p] \in Nat
    BY <1>1, <1>3 DEF Positions
  <2>2. reqToToken[r][p] % PageSize = p % PageSize
    BY <1>3 DEF PageTable, Offsets
  <2>3. PageOf(r, p)' = PageOf(r, p)
    BY <1>3 DEF PageOf
  <2> QED
    BY <1>3, <2>1, <2>2, <2>3
<1>4. CASE \A i \in 1..n : batch[i] # r
  <2>1. p \in Positions(r) /\ p \in Nat /\ reqToToken'[r][p] = reqToToken[r][p]
    BY <1>1, <1>2, <1>4 DEF Positions
  <2> QED
    BY <1>3, <2>1
<1>5. ASSUME NEW i \in 1..n, batch[i] = r
      PROVE  /\ p \in Nat
             /\ reqToToken'[r][p] \in Nat
             /\ reqToToken'[r][p] % PageSize = p % PageSize
             /\ \/ \E q \in Positions(r) :
                      /\ q \div PageSize = p \div PageSize
                      /\ PageOf(r, p)' = PageOf(r, q)
                \/ /\ p \div PageSize \in CeilDiv(seqLen[r])..(CeilDiv(target[i]) - 1)
                   /\ PageOf(r, p)' = pages[start[i] + (p \div PageSize - CeilDiv(seqLen[r]))]
  <2>1. target[i] \in Nat /\ len < target[i]
    BY <1>5 DEF Batches
  <2>2. seqLen'[r] = target[i]
    BY <1>2, <1>5
  <2>3. p \in 0..(target[i] - 1) /\ p \in Nat
    BY <2>1, <2>2 DEF Positions
  <2>4. reqToToken'[r][p] = IF p < len THEN reqToToken[r][p] ELSE rows[i][p]
    BY <1>2, <1>5, <2>3
  <2>5. CASE p < len
    <3>1. p \in Positions(r) /\ reqToToken'[r][p] = reqToToken[r][p]
      BY <1>1, <2>3, <2>4, <2>5 DEF Positions
    <3> QED
      BY <1>3, <2>3, <3>1
  <2>6. CASE ~(p < len)
    <3>1. p \in len..(target[i] - 1)
      BY <1>1, <2>1, <2>3, <2>6
    <3>2. /\ rows[i][p] \in Nat
          /\ rows[i][p] % PageSize = p % PageSize
          /\ rows[i][p] \div PageSize =
                IF p \div PageSize < CeilDiv(len) THEN LastLoc(r) \div PageSize
                ELSE pages[start[i] + (p \div PageSize - CeilDiv(len))]
      BY <1>5, <3>1 DEF RowSpec
    <3>3. PageOf(r, p)' = rows[i][p] \div PageSize
      BY <2>4, <2>6 DEF PageOf
    <3>4. p \div PageSize \in Nat
      BY <2>3, PageDiv
    <3>5. CeilDiv(len) \in Nat /\ CeilDiv(target[i]) \in Nat
      BY <1>1, <2>1, CeilDivBounds
    <3>6. CASE p \div PageSize < CeilDiv(len)
      <4>1. (p \div PageSize) * PageSize < len
        BY <1>1, <3>4, <3>6, CeilDivBlock
      <4>2. (p \div PageSize) * PageSize \in Nat
        BY <2>3, PageDiv
      <4>3. len > 0 /\ len - 1 \in Positions(r) /\ len - 1 \in Nat
        BY <1>1, <4>1, <4>2 DEF Positions
      <4>4. LastLoc(r) = reqToToken[r][len - 1]
        BY <4>3 DEF LastLoc
      <4>5. PageOf(r, p)' = PageOf(r, len - 1)
        BY <3>2, <3>3, <3>6, <4>4 DEF PageOf
      <4>6. (len - 1) \div PageSize = p \div PageSize
        <5> DEFINE b == p \div PageSize
        <5>1. p = b * PageSize + (p % PageSize) /\ p % PageSize \in 0..(PageSize - 1)
          BY <2>3, PageDiv
        <5>2. b * PageSize <= len - 1 /\ len - 1 < b * PageSize + PageSize /\ b \in Int
          <6> DEFINE B == b * PageSize
                     e == p % PageSize
          <6>1. B \in Nat /\ B < len /\ p = B + e /\ e \in 0..(PageSize - 1)
            BY <4>1, <4>2, <5>1
          <6>2. len \in Nat /\ PageSize \in Nat
            BY PagedAllocAssumption, <1>1
          <6>3. b \in Int
            BY <3>4
          <6> HIDE DEF B, e, len, b
          <6>4. B <= len - 1 /\ len - 1 < B + PageSize
            BY <2>3, <2>6, <6>1, <6>2
          <6> QED
            BY <6>3, <6>4 DEF B
        <5> HIDE DEF b
        <5>3. (len - 1) \div PageSize = b
          BY <4>3, <5>2, PageDivUnique, Zenon
        <5> QED
          BY <5>3 DEF b
      <4>7. \E q \in Positions(r) :
               q \div PageSize = p \div PageSize /\ PageOf(r, p)' = PageOf(r, q)
        BY <4>3, <4>5, <4>6
      <4>8. reqToToken'[r][p] = rows[i][p]
        BY <2>4, <2>6
      <4> QED
        BY <2>3, <3>2, <4>7, <4>8
    <3>7. CASE ~(p \div PageSize < CeilDiv(len))
      <4>1. p \div PageSize < CeilDiv(target[i])
        BY <2>1, <2>3, CeilDivPosition
      <4>2. p \div PageSize \in CeilDiv(len)..(CeilDiv(target[i]) - 1)
        BY <3>4, <3>5, <3>7, <4>1
      <4> QED
        BY <2>3, <2>4, <2>6, <3>2, <3>3, <3>7, <4>2
    <3> QED
      BY <3>6, <3>7
  <2> QED
    BY <2>5, <2>6
<1> QED
  BY <1>4, <1>5

\* A kernel call preserves the page table.
LEMMA CallPreserves ==
    ASSUME PageTable, NEW n, NEW batch, NEW target, NEW start, NEW pages, NEW rows,
           Call(n, batch, target, start, pages, rows)
    PROVE  PageTable'
<1> DEFINE k == start[n + 1]
           C(r) == CeilDiv(seqLen[r])
           idx(i, b) == start[i] + (b - C(batch[i]))
           blk(p) == p \div PageSize
<1>1. n \in 1..MaxBatch /\ batch \in Batches(n) /\ Types
  BY DEF Call, PageTable
<1>2. /\ \A i \in 1..n :
            /\ start[i] \in Nat /\ start[i + 1] \in Nat
            /\ start[i + 1] = start[i] + (CeilDiv(target[i]) - CeilDiv(seqLen[batch[i]]))
            /\ start[i] <= start[i + 1] /\ start[i + 1] <= start[n + 1]
            /\ batch[i] \in Req /\ seqLen[batch[i]] \in Nat /\ target[i] \in Nat
            /\ CeilDiv(seqLen[batch[i]]) \in Nat /\ CeilDiv(target[i]) \in Nat
      /\ \A i, m \in 1..n : i < m => start[i + 1] <= start[m]
      /\ \A j \in 0..(start[n + 1] - 1) :
            \E i \in 1..n : start[i] <= j /\ j < start[i + 1]
  BY <1>1, RowRanges DEF Call
<1>3. /\ k \in Nat
      /\ \A j \in 0..(k - 1) : pages[j] \in free
      /\ \A i, j \in 0..(k - 1) : pages[i] = pages[j] => i = j
  <2>1. k \in Nat
    BY <1>1, PagedAllocAssumption DEF Call
  <2>2. pages \in FreePages(k)
    BY DEF Call
  <2> QED
    BY <2>1, <2>2 DEF FreePages
<1>4. /\ \A i \in 1..n :
            /\ seqLen'[batch[i]] = target[i]
            /\ reqToToken'[batch[i]] =
                  [x \in 0..(target[i] - 1) |->
                     IF x < seqLen[batch[i]] THEN reqToToken[batch[i]][x] ELSE rows[i][x]]
      /\ \A r \in Req : (\A i \in 1..n : batch[i] # r) =>
            seqLen'[r] = seqLen[r] /\ reqToToken'[r] = reqToToken[r]
      /\ seqLen' = [r \in Req |-> seqLen'[r]]
      /\ reqToToken' = [r \in Req |-> reqToToken'[r]]
      /\ free' = free \ {pages[j] : j \in 0..(k - 1)}
  BY <1>1, CommitEffect DEF Call
<1>5. ASSUME NEW i \in 1..n, NEW b \in C(batch[i])..(CeilDiv(target[i]) - 1)
      PROVE  /\ idx(i, b) \in start[i]..(start[i + 1] - 1)
             /\ idx(i, b) \in 0..(k - 1)
  BY <1>2, <1>3
<1>6. ASSUME NEW r \in Req, NEW p \in Positions(r)'
      PROVE  /\ p \in Nat /\ blk(p) \in Nat
             /\ reqToToken'[r][p] \in Nat
             /\ reqToToken'[r][p] % PageSize = p % PageSize
             /\ \/ \E q \in Positions(r) : blk(q) = blk(p) /\ PageOf(r, p)' = PageOf(r, q)
                \/ \E i \in 1..n :
                      /\ batch[i] = r
                      /\ blk(p) \in C(r)..(CeilDiv(target[i]) - 1)
                      /\ PageOf(r, p)' = pages[idx(i, blk(p))]
  <2>1. /\ p \in Nat
        /\ reqToToken'[r][p] \in Nat
        /\ reqToToken'[r][p] % PageSize = p % PageSize
        /\ \/ \E q \in Positions(r) :
                 /\ q \div PageSize = p \div PageSize
                 /\ PageOf(r, p)' = PageOf(r, q)
           \/ \E i \in 1..n :
                 /\ batch[i] = r
                 /\ p \div PageSize \in CeilDiv(seqLen[r])..(CeilDiv(target[i]) - 1)
                 /\ PageOf(r, p)' = pages[start[i] + (p \div PageSize - CeilDiv(seqLen[r]))]
    BY NewPosition, SMTT(60)
  <2>2. p \div PageSize \in Nat
    BY <2>1, PageDiv
  <2>3. \A i \in 1..n : batch[i] = r =>
           idx(i, blk(p)) = start[i] + (p \div PageSize - CeilDiv(seqLen[r]))
    OBVIOUS
  <2> QED
    BY <2>1, <2>2, <2>3
<1>7. ASSUME NEW r \in Req, NEW q \in Positions(r)
      PROVE  /\ PageOf(r, q) \in Page \ free
             /\ q \in Nat /\ blk(q) < C(r)
  <2>1. seqLen[r] \in Nat
    BY <1>1 DEF Types
  <2>2. q \in Nat /\ q < seqLen[r]
    BY <2>1 DEF Positions
  <2> QED
    BY <2>1, <2>2, CeilDivPosition DEF PageTable, PagesTaken
<1> HIDE DEF k, C, idx, blk
<1>8. Types'
  <2>1. free' \subseteq Page
    BY <1>1, <1>4 DEF Types
  <2>2. ASSUME NEW r \in Req
        PROVE  /\ seqLen'[r] \in 0..MaxLen
               /\ reqToToken'[r] \in [Positions(r)' -> Nat]
    <3>1. CASE \A i \in 1..n : batch[i] # r
      <4>1. seqLen'[r] = seqLen[r] /\ reqToToken'[r] = reqToToken[r]
        BY <1>4, <3>1
      <4> QED
        BY <1>1, <4>1 DEF Types, Positions
    <3>2. ASSUME NEW i \in 1..n, batch[i] = r
          PROVE  /\ seqLen'[r] \in 0..MaxLen
                 /\ reqToToken'[r] \in [Positions(r)' -> Nat]
      <4>1. seqLen'[r] = target[i] /\ target[i] \in 1..MaxLen
        BY <1>4, <3>2 DEF Call
      <4>2. reqToToken'[r] = [x \in Positions(r)' |->
                 IF x < seqLen[r] THEN reqToToken[r][x] ELSE rows[i][x]]
        BY <1>4, <3>2, <4>1 DEF Positions
      <4>3. \A x \in Positions(r)' : reqToToken'[r][x] \in Nat
        BY <1>6
      <4> QED
        BY <4>1, <4>2, <4>3, PagedAllocAssumption
    <3> QED
      BY <3>1, <3>2
  <2>3. seqLen' \in [Req -> 0..MaxLen]
    BY <1>4, <2>2
  <2>4. DOMAIN reqToToken' = Req
    BY <1>4
  <2> QED
    BY <2>1, <2>2, <2>3, <2>4 DEF Types
<1>9. Offsets'
  BY <1>6 DEF Offsets
<1>10. PagesTaken'
  <2> SUFFICES ASSUME NEW r \in Req, NEW p \in Positions(r)'
               PROVE  PageOf(r, p)' \in Page \ free'
    BY DEF PagesTaken, Page
  <2>1. CASE \E q \in Positions(r) : blk(q) = blk(p) /\ PageOf(r, p)' = PageOf(r, q)
    BY <1>4, <1>7, <2>1
  <2>2. ASSUME NEW i \in 1..n, batch[i] = r, blk(p) \in C(r)..(CeilDiv(target[i]) - 1),
               PageOf(r, p)' = pages[idx(i, blk(p))]
        PROVE  PageOf(r, p)' \in Page \ free'
    <3>1. idx(i, blk(p)) \in 0..(k - 1)
      BY <1>5, <2>2
    <3> QED
      BY <1>1, <1>3, <1>4, <2>2, <3>1 DEF Types
  <2> QED
    BY <1>6, <2>1, <2>2
<1>11. BlockIsPage'
  <2> SUFFICES ASSUME NEW r \in Req, NEW s \in Req,
                      NEW p \in Positions(r)', NEW q \in Positions(s)'
               PROVE  PageOf(r, p)' = PageOf(s, q)' <=> r = s /\ blk(p) = blk(q)
    BY DEF BlockIsPage, blk
  <2> DEFINE Old(t, x) == \E y \in Positions(t) : blk(y) = blk(x) /\ PageOf(t, x)' = PageOf(t, y)
             New(t, x, i) == /\ batch[i] = t
                             /\ blk(x) \in C(t)..(CeilDiv(target[i]) - 1)
                             /\ PageOf(t, x)' = pages[idx(i, blk(x))]
  <2>1. CASE Old(r, p) /\ Old(s, q)
    <3>1. PICK x \in Positions(r) : blk(x) = blk(p) /\ PageOf(r, p)' = PageOf(r, x)
      BY <2>1
    <3>2. PICK y \in Positions(s) : blk(y) = blk(q) /\ PageOf(s, q)' = PageOf(s, y)
      BY <2>1
    <3>3. PageOf(r, x) = PageOf(s, y) <=> r = s /\ blk(x) = blk(y)
      BY DEF PageTable, BlockIsPage, blk
    <3> QED
      BY <3>1, <3>2, <3>3
  <2>2. ASSUME NEW t \in Req, NEW u \in Req, NEW x \in Positions(t)', NEW y \in Positions(u)',
               Old(t, x), NEW i \in 1..n, New(u, y, i)
        PROVE  PageOf(t, x)' # PageOf(u, y)' /\ ~(t = u /\ blk(x) = blk(y))
    <3>1. PICK z \in Positions(t) : blk(z) = blk(x) /\ PageOf(t, x)' = PageOf(t, z)
      BY <2>2
    <3>2. PageOf(t, z) \notin free /\ blk(z) < C(t)
      BY <1>7
    <3>3. idx(i, blk(y)) \in 0..(k - 1)
      BY <1>5, <2>2
    <3>4. PageOf(u, y)' \in free
      BY <1>3, <2>2, <3>3
    <3>5. C(u) <= blk(y) /\ C(u) \in Nat /\ blk(y) \in Nat
      BY <1>2, <1>6, <2>2 DEF C
    <3>6. blk(x) \in Nat
      BY <1>6
    <3> QED
      BY <3>1, <3>2, <3>4, <3>5, <3>6
  <2>3. ASSUME NEW i \in 1..n, New(r, p, i), NEW m \in 1..n, New(s, q, m)
        PROVE  PageOf(r, p)' = PageOf(s, q)' <=> r = s /\ blk(p) = blk(q)
    <3>1. /\ idx(i, blk(p)) \in start[i]..(start[i + 1] - 1)
          /\ idx(i, blk(p)) \in 0..(k - 1)
          /\ idx(m, blk(q)) \in start[m]..(start[m + 1] - 1)
          /\ idx(m, blk(q)) \in 0..(k - 1)
      BY <1>5, <2>3
    <3>2. PageOf(r, p)' = PageOf(s, q)' <=> idx(i, blk(p)) = idx(m, blk(q))
      BY <1>3, <2>3, <3>1
    <3>3. CASE i = m
      <4>1. r = s
        BY <2>3, <3>3
      <4>2. blk(p) \in Nat /\ blk(q) \in Nat
        BY <1>6
      <4>3. C(batch[i]) \in Nat /\ start[i] \in Nat
        BY <1>2 DEF C
      <4>4. /\ idx(i, blk(p)) = start[i] + (blk(p) - C(batch[i]))
            /\ idx(m, blk(q)) = start[i] + (blk(q) - C(batch[i]))
        BY <3>3 DEF idx
      <4>5. idx(i, blk(p)) = idx(m, blk(q)) <=> blk(p) = blk(q)
        <5>1. ASSUME blk(p) = blk(q) PROVE idx(i, blk(p)) = idx(m, blk(q))
          BY <3>3, <5>1
        <5>2. ASSUME idx(i, blk(p)) = idx(m, blk(q)) PROVE blk(p) = blk(q)
          <6>1. start[i] + (blk(p) - C(batch[i])) = start[i] + (blk(q) - C(batch[i]))
            BY <4>4, <5>2
          <6>2. PICK x \in Nat : x = blk(p)
            BY <4>2
          <6>3. PICK y \in Nat : y = blk(q)
            BY <4>2
          <6>4. start[i] + (x - C(batch[i])) = start[i] + (y - C(batch[i]))
            BY <6>1, <6>2, <6>3
          <6> QED
            BY <4>3, <6>2, <6>3, <6>4
        <5> QED
          BY <5>1, <5>2
      <4> QED
        BY <3>2, <4>1, <4>5
    <3>4. CASE i # m
      <4>1. r # s
        BY <1>1, <2>3, <3>4 DEF Batches
      <4>2. i < m \/ m < i
        BY <1>1, <3>4
      <4>3. start[i + 1] <= start[m] \/ start[m + 1] <= start[i]
        BY <1>2, <4>2
      <4>4. idx(i, blk(p)) # idx(m, blk(q))
        BY <1>2, <3>1, <4>3
      <4> QED
        BY <3>2, <4>1, <4>4
    <3> QED
      BY <3>3, <3>4
  <2>4. Old(r, p) \/ \E i \in 1..n : New(r, p, i)
    BY <1>6
  <2>5. Old(s, q) \/ \E i \in 1..n : New(s, q, i)
    BY <1>6
  <2>6. ASSUME Old(r, p), NEW i \in 1..n, New(s, q, i)
        PROVE  PageOf(r, p)' = PageOf(s, q)' <=> r = s /\ blk(p) = blk(q)
    BY <2>2, <2>6
  <2>7. ASSUME Old(s, q), NEW i \in 1..n, New(r, p, i)
        PROVE  PageOf(r, p)' = PageOf(s, q)' <=> r = s /\ blk(p) = blk(q)
    BY <2>2, <2>7
  <2> HIDE DEF Old, New
  <2> QED
    BY <2>1, <2>3, <2>4, <2>5, <2>6, <2>7
<1>12. NoPageLost'
  <2> SUFFICES ASSUME NEW pg \in Page, pg \notin free'
               PROVE  \E r \in Req : \E p \in Positions(r)' : PageOf(r, p)' = pg
    BY DEF NoPageLost, Page
  <2>1. CASE pg \notin free
    <3>1. PICK r \in Req : \E p \in Positions(r) : PageOf(r, p) = pg
      BY <2>1 DEF PageTable, NoPageLost
    <3>2. PICK p \in Positions(r) : PageOf(r, p) = pg
      BY <3>1
    <3>3. seqLen[r] \in Nat
      BY <1>1 DEF Types
    <3>4. p \in Positions(r)' /\ reqToToken'[r][p] = reqToToken[r][p]
      <4>1. CASE \A i \in 1..n : batch[i] # r
        BY <1>4, <4>1 DEF Positions
      <4>2. ASSUME NEW i \in 1..n, batch[i] = r
            PROVE  p \in Positions(r)' /\ reqToToken'[r][p] = reqToToken[r][p]
        <5>1. seqLen[r] < target[i] /\ target[i] \in Nat
          BY <1>2, <4>2 DEF Call
        <5>2. p \in 0..(target[i] - 1) /\ p < seqLen[r]
          BY <3>3, <5>1 DEF Positions
        <5> QED
          BY <1>4, <4>2, <5>2 DEF Positions
      <4> QED
        BY <4>1, <4>2
    <3>5. PageOf(r, p)' = pg
      BY <3>2, <3>4 DEF PageOf
    <3> QED
      BY <3>4, <3>5
  <2>2. CASE pg \in free
    <3>1. PICK j \in 0..(k - 1) : pg = pages[j]
      BY <1>4, <2>2
    <3>2. PICK i \in 1..n : start[i] <= j /\ j < start[i + 1]
      BY <1>2, <3>1 DEF k
    <3>3. batch[i] \in Req /\ C(batch[i]) \in Nat /\ target[i] \in Nat
      BY <1>2 DEF C
    <3>4. PICK r \in Req : r = batch[i]
      BY <3>3
    <3>5. C(r) + (j - start[i]) \in Nat
      BY <1>2, <1>3, <3>2, <3>3, <3>4
    <3>6. PICK b \in Nat : b = C(r) + (j - start[i])
      BY <3>5
    <3>7. b * PageSize \in Nat
      BY PagedAllocAssumption
    <3>8. PICK p \in Nat : p = b * PageSize
      BY <3>7
    <3>9. /\ b \in Nat /\ C(r) <= b /\ b < CeilDiv(target[i]) /\ idx(i, b) = j
          /\ r \in Req /\ C(r) \in Nat /\ target[i] \in Nat
      BY <1>2, <1>3, <3>2, <3>3, <3>4, <3>6 DEF C, idx
    <3>10. p \in Nat /\ p < target[i]
      BY <3>9, <3>8, CeilDivBlock
    <3>11. blk(p) = b
      <4>1. b * PageSize <= p /\ p < b * PageSize + PageSize /\ b \in Int
        BY PagedAllocAssumption, <3>9, <3>10, <3>8
      <4> QED
        BY <3>10, <4>1, PageDivUnique, Zenon DEF blk
    <3>12. seqLen'[r] = target[i]
      BY <1>4, <3>4
    <3>13. p \in Positions(r)'
      BY <3>9, <3>10, <3>12 DEF Positions
    <3>14. ~ \E q \in Positions(r) : blk(q) = blk(p) /\ PageOf(r, p)' = PageOf(r, q)
      <4> SUFFICES ASSUME NEW q \in Positions(r), blk(q) = blk(p) PROVE FALSE
        OBVIOUS
      <4>1. blk(q) < C(r)
        BY <1>7, <3>9
      <4> QED
        BY <3>9, <3>11, <4>1
    <3>15. PICK m \in 1..n : batch[m] = r /\ PageOf(r, p)' = pages[idx(m, blk(p))]
      BY <1>6, <3>9, <3>13, <3>14
    <3>16. m = i
      BY <1>1, <3>15, <3>4 DEF Batches
    <3>17. PageOf(r, p)' = pg
      BY <3>1, <3>9, <3>11, <3>15, <3>16
    <3> QED
      BY <3>9, <3>13, <3>17
  <2> QED
    BY <2>1, <2>2
<1> QED
  BY <1>8, <1>9, <1>10, <1>11, <1>12 DEF PageTable

\* The page table gives each row of a call the arguments its kernel assumes:
\* a last slot at the offset of the last position, and a page per new block.
LEMMA CallRowArgs ==
    ASSUME PageTable, NEW n \in 1..MaxBatch, NEW batch \in Batches(n),
           NEW target \in [1..n -> 1..MaxLen],
           \A i \in 1..n : target[i] > seqLen[batch[i]],
           NEW start \in [1..(n + 1) -> 0..NumPages],
           IsNewPageStart(start, n, batch, target),
           NEW pages \in FreePages(start[n + 1]), NEW i \in 1..n
    PROVE  /\ seqLen[batch[i]] \in Nat /\ target[i] \in Nat /\ start[i] \in Nat
           /\ LastLoc(batch[i]) \in Int
           /\ RowArgs(seqLen[batch[i]], target[i], LastLoc(batch[i]), pages, start[i])
<1> DEFINE r == batch[i]
           len == seqLen[r]
<1>1. Types
  BY DEF PageTable
<1>2. /\ start[i] \in Nat /\ start[i + 1] \in Nat
      /\ start[i + 1] = start[i] + (CeilDiv(target[i]) - CeilDiv(len))
      /\ start[i + 1] <= start[n + 1]
      /\ r \in Req /\ len \in Nat /\ target[i] \in Nat
      /\ CeilDiv(len) \in Nat /\ CeilDiv(target[i]) \in Nat
  BY <1>1, RowRanges
<1> HIDE DEF r
<1>3. start[n + 1] \in Nat
  BY PagedAllocAssumption
<1>4. ASSUME len = 0 PROVE LastLoc(r) = -1
  BY <1>4 DEF LastLoc
<1>5. ASSUME len > 0
      PROVE LastLoc(r) \in Nat /\ LastLoc(r) % PageSize = (len - 1) % PageSize
  <2>1. LastLoc(r) = reqToToken[r][len - 1] /\ len - 1 \in Positions(r)
    <3>1. len # 0 /\ len - 1 \in 0..(len - 1)
      BY <1>2, <1>5
    <3>2. LastLoc(r) = reqToToken[r][len - 1]
      BY <3>1 DEF LastLoc
    <3>3. len - 1 \in Positions(r)
      BY <3>1 DEF Positions
    <3> QED
      BY <3>2, <3>3
  <2>2. reqToToken[r] \in [Positions(r) -> Nat]
    BY <1>1, <1>2 DEF Types
  <2>3. reqToToken[r][len - 1] % PageSize = (len - 1) % PageSize
    BY <1>2, <2>1 DEF PageTable, Offsets
  <2> QED
    BY <2>1, <2>2, <2>3
<1>6. ASSUME NEW b \in CeilDiv(len)..(CeilDiv(target[i]) - 1)
      PROVE  pages[start[i] + (b - CeilDiv(len))] \in Nat
  <2> DEFINE c == CeilDiv(len)
             d == CeilDiv(target[i])
             j == start[i] + (b - c)
  <2>1. /\ c \in Nat /\ d \in Nat /\ b \in c..(d - 1)
        /\ start[i + 1] = start[i] + (d - c)
    BY <1>2
  <2>2. start[i] \in Nat /\ start[i + 1] \in Nat /\ start[i + 1] <= start[n + 1]
    BY <1>2
  <2> HIDE DEF c, d
  <2>3. \A v, w, x, y \in Nat : \A z \in x..(y - 1) :
           v + (y - x) <= w => v + (z - x) \in 0..(w - 1)
    OBVIOUS
  <2>4. j \in 0..(start[n + 1] - 1)
    BY <1>3, <2>1, <2>2, <2>3
  <2> HIDE DEF j
  <2>5. pages[j] \in free
    BY <2>4 DEF FreePages
  <2>6. pages[j] \in Nat
    <3>1. pages[j] \in Page
      BY <1>1, <2>5 DEF Types
    <3> QED
      BY <3>1 DEF Page
  <2> QED
    BY <2>6 DEF c, j
<1>7. LastLoc(r) \in Int
  BY <1>2, <1>4, <1>5 DEF LastLoc
<1>8. len < target[i]
  BY <1>2 DEF r
<1> QED
  BY <1>2, <1>5, <1>6, <1>7, <1>8 DEF RowArgs, r

\* Both kernels make a Call: alloc_extend for any growth, alloc_decode for
\* the growth by one it is called with.
LEMMA AllocExtendPreserves ==
    ASSUME PageTable, NEW n \in 1..MaxBatch, NEW batch \in Batches(n),
           NEW target \in [1..n -> 1..MaxLen], AllocExtend(n, batch, target)
    PROVE  PageTable'
<1>1. \A i \in 1..n : target[i] > seqLen[batch[i]]
  BY DEF AllocExtend
<1>2. PICK start \in [1..(n + 1) -> 0..NumPages] :
         /\ IsNewPageStart(start, n, batch, target)
         /\ \E pages \in FreePages(start[n + 1]) :
               Commit(n, batch, target,
                      [i \in 1..n |-> ExtendRow(seqLen[batch[i]], target[i],
                                                LastLoc(batch[i]), pages, start[i])],
                      {pages[j] : j \in 0..(start[n + 1] - 1)})
  BY DEF AllocExtend
<1>3. PICK pages \in FreePages(start[n + 1]) :
         Commit(n, batch, target,
                [i \in 1..n |-> ExtendRow(seqLen[batch[i]], target[i],
                                          LastLoc(batch[i]), pages, start[i])],
                {pages[j] : j \in 0..(start[n + 1] - 1)})
  BY <1>2
<1> DEFINE rows == [i \in 1..n |-> ExtendRow(seqLen[batch[i]], target[i],
                                             LastLoc(batch[i]), pages, start[i])]
<1>4. ASSUME NEW i \in 1..n
      PROVE  RowSpec(rows[i], seqLen[batch[i]], target[i], LastLoc(batch[i]), pages, start[i])
  <2>1. /\ seqLen[batch[i]] \in Nat /\ target[i] \in Nat /\ start[i] \in Nat
        /\ LastLoc(batch[i]) \in Int
        /\ RowArgs(seqLen[batch[i]], target[i], LastLoc(batch[i]), pages, start[i])
    BY <1>1, <1>2, CallRowArgs
  <2>2. RowSpec(ExtendRow(seqLen[batch[i]], target[i], LastLoc(batch[i]), pages, start[i]),
                seqLen[batch[i]], target[i], LastLoc(batch[i]), pages, start[i])
    BY <2>1, ExtendRowSpec
  <2> QED
    BY <2>2
<1> HIDE DEF rows
<1>5. Commit(n, batch, target, rows, {pages[j] : j \in 0..(start[n + 1] - 1)})
  BY <1>3 DEF rows
<1>6. Call(n, batch, target, start, pages, rows)
  BY <1>1, <1>2, <1>4, <1>5 DEF Call
<1> QED
  BY <1>6, CallPreserves

LEMMA AllocDecodePreserves ==
    ASSUME PageTable, NEW n \in 1..MaxBatch, NEW batch \in Batches(n),
           NEW target \in [1..n -> 1..MaxLen], AllocDecode(n, batch, target)
    PROVE  PageTable'
<1>1. \A i \in 1..n : seqLen[batch[i]] > 0 /\ target[i] = seqLen[batch[i]] + 1
  BY DEF AllocDecode
<1>2. PICK start \in [1..(n + 1) -> 0..NumPages] :
         /\ IsNewPageStart(start, n, batch, target)
         /\ \E pages \in FreePages(start[n + 1]) :
               Commit(n, batch, target,
                      [i \in 1..n |-> DecodeRow(seqLen[batch[i]], target[i],
                                                LastLoc(batch[i]), pages, start[i])],
                      {pages[j] : j \in 0..(start[n + 1] - 1)})
  BY DEF AllocDecode
<1>3. PICK pages \in FreePages(start[n + 1]) :
         Commit(n, batch, target,
                [i \in 1..n |-> DecodeRow(seqLen[batch[i]], target[i],
                                          LastLoc(batch[i]), pages, start[i])],
                {pages[j] : j \in 0..(start[n + 1] - 1)})
  BY <1>2
<1> DEFINE rows == [i \in 1..n |-> DecodeRow(seqLen[batch[i]], target[i],
                                             LastLoc(batch[i]), pages, start[i])]
<1>4. \A i \in 1..n : target[i] > seqLen[batch[i]]
  <2> SUFFICES ASSUME NEW i \in 1..n PROVE target[i] > seqLen[batch[i]]
    OBVIOUS
  <2>1. batch[i] \in Req
    BY DEF Batches
  <2>2. seqLen[batch[i]] \in Nat
    BY <2>1 DEF PageTable, Types
  <2> QED
    BY <1>1, <2>2
<1>5. ASSUME NEW i \in 1..n
      PROVE  RowSpec(rows[i], seqLen[batch[i]], target[i], LastLoc(batch[i]), pages, start[i])
  <2>1. /\ seqLen[batch[i]] \in Nat /\ start[i] \in Nat
        /\ LastLoc(batch[i]) \in Int
        /\ RowArgs(seqLen[batch[i]], target[i], LastLoc(batch[i]), pages, start[i])
    BY <1>2, <1>4, CallRowArgs
  <2>2. seqLen[batch[i]] \in Nat \ {0} /\ target[i] = seqLen[batch[i]] + 1
    BY <1>1, <2>1
  <2>3. RowSpec(DecodeRow(seqLen[batch[i]], seqLen[batch[i]] + 1, LastLoc(batch[i]),
                          pages, start[i]),
                seqLen[batch[i]], seqLen[batch[i]] + 1, LastLoc(batch[i]), pages, start[i])
    BY <2>1, <2>2, DecodeRowSpec
  <2> QED
    BY <2>2, <2>3
<1> HIDE DEF rows
<1>6. Commit(n, batch, target, rows, {pages[j] : j \in 0..(start[n + 1] - 1)})
  BY <1>3 DEF rows
<1>7. Call(n, batch, target, start, pages, rows)
  BY <1>2, <1>4, <1>5, <1>6 DEF Call
<1> QED
  BY <1>7, CallPreserves

\* A released request's pages hold no token of another request (BlockIsPage),
\* so giving them back frees no live page and leaves every other entry alone.
LEMMA ReleasePreserves ==
    ASSUME PageTable, NEW r \in Req, Release(r)
    PROVE  PageTable'
<1>1. /\ free' = free \cup PagesOf(r)
      /\ seqLen' = [seqLen EXCEPT ![r] = 0]
      /\ reqToToken' = [reqToToken EXCEPT ![r] = [p \in {} |-> 0]]
      /\ Types /\ Offsets /\ PagesTaken /\ BlockIsPage /\ NoPageLost
  BY DEF Release, PageTable
<1>2. /\ seqLen'[r] = 0 /\ reqToToken'[r] = [p \in {} |-> 0]
      /\ \A s \in Req \ {r} : seqLen'[s] = seqLen[s] /\ reqToToken'[s] = reqToToken[s]
  BY <1>1 DEF Types
<1>3. Positions(r)' = {}
  BY <1>2 DEF Positions
<1>4. ASSUME NEW s \in Req, NEW p \in Positions(s)'
      PROVE  /\ s # r /\ p \in Positions(s)
             /\ reqToToken'[s][p] = reqToToken[s][p]
             /\ PageOf(s, p)' = PageOf(s, p)
  <2>1. s # r
    BY <1>3
  <2> QED
    BY <1>2, <2>1 DEF Positions, PageOf
<1>5. PagesOf(r) = {PageOf(r, p) : p \in Positions(r)}
  BY DEF PagesOf, PageOf, Positions
<1>6. Types'
  <2>1. free' \subseteq Page
    BY <1>1, <1>5 DEF Types, PagesTaken
  <2>2. seqLen' \in [Req -> 0..MaxLen] /\ DOMAIN reqToToken' = Req
    BY <1>1, PagedAllocAssumption DEF Types
  <2>3. ASSUME NEW s \in Req PROVE reqToToken'[s] \in [Positions(s)' -> Nat]
    <3>1. CASE s = r
      BY <1>2, <1>3, <3>1
    <3>2. CASE s # r
      BY <1>1, <1>2, <3>2 DEF Types, Positions
    <3> QED
      BY <3>1, <3>2
  <2> QED
    BY <2>1, <2>2, <2>3 DEF Types
<1>7. Offsets'
  BY <1>1, <1>4 DEF Offsets
<1>8. PagesTaken'
  <2> SUFFICES ASSUME NEW s \in Req, NEW p \in Positions(s)'
               PROVE  PageOf(s, p)' \in Page \ free'
    BY DEF PagesTaken, Page
  <2>1. s # r /\ p \in Positions(s) /\ PageOf(s, p)' = PageOf(s, p)
    BY <1>4
  <2>2. PageOf(s, p) \notin PagesOf(r)
    BY <1>1, <1>5, <2>1 DEF BlockIsPage
  <2> QED
    BY <1>1, <2>1, <2>2 DEF PagesTaken
<1>9. BlockIsPage'
  <2> SUFFICES ASSUME NEW s \in Req, NEW t \in Req,
                      NEW p \in Positions(s)', NEW q \in Positions(t)'
               PROVE  PageOf(s, p)' = PageOf(t, q)' <=> s = t /\ p \div PageSize = q \div PageSize
    BY DEF BlockIsPage
  <2>1. p \in Positions(s) /\ PageOf(s, p)' = PageOf(s, p)
    BY <1>4
  <2>2. q \in Positions(t) /\ PageOf(t, q)' = PageOf(t, q)
    BY <1>4
  <2> QED
    BY <1>1, <2>1, <2>2 DEF BlockIsPage
<1>10. NoPageLost'
  <2> SUFFICES ASSUME NEW pg \in Page, pg \notin free'
               PROVE  \E s \in Req : \E p \in Positions(s)' : PageOf(s, p)' = pg
    BY DEF NoPageLost, Page
  <2>1. pg \notin free /\ pg \notin PagesOf(r)
    BY <1>1
  <2>2. PICK s \in Req : \E p \in Positions(s) : PageOf(s, p) = pg
    BY <1>1, <2>1 DEF NoPageLost
  <2>3. PICK p \in Positions(s) : PageOf(s, p) = pg
    BY <2>2
  <2>4. s # r
    BY <1>5, <2>1, <2>3
  <2>5. p \in Positions(s)' /\ PageOf(s, p)' = pg
    BY <1>2, <2>3, <2>4 DEF Positions, PageOf
  <2> QED
    BY <2>5
<1> QED
  BY <1>6, <1>7, <1>8, <1>9, <1>10 DEF PageTable

-----------------------------------------------------------------------------
(* The theorems *)

LEMMA InitPageTable == Init => PageTable
<1> SUFFICES ASSUME Init PROVE PageTable
  OBVIOUS
<1>1. ASSUME NEW r \in Req PROVE Positions(r) = {}
  BY DEF Init, Positions
<1>2. Types
  BY <1>1, PagedAllocAssumption DEF Init, Types
<1> QED
  BY <1>1, <1>2 DEF Init, PageTable, Offsets, PagesTaken, BlockIsPage, NoPageLost

\* Every reachable state of the allocator is a page table: blocks of live
\* requests and pages in use correspond one to one, at the right offsets.
THEOREM PageTableInvariant == Spec => []PageTable
<1>1. Init => PageTable
  BY InitPageTable
<1>2. PageTable /\ [Next]_vars => PageTable'
  <2> SUFFICES ASSUME PageTable, [Next]_vars PROVE PageTable'
    OBVIOUS
  <2>1. ASSUME NEW n \in 1..MaxBatch, NEW batch \in Batches(n),
               NEW target \in [1..n -> 1..MaxLen],
               AllocExtend(n, batch, target) \/ AllocDecode(n, batch, target)
        PROVE  PageTable'
    BY <2>1, AllocExtendPreserves, AllocDecodePreserves
  <2>2. ASSUME NEW r \in Req, Release(r) PROVE PageTable'
    BY <2>2, ReleasePreserves
  <2>3. CASE UNCHANGED vars
    <3>1. /\ seqLen' = seqLen /\ reqToToken' = reqToToken /\ free' = free
      BY <2>3 DEF vars
    <3>2. \A r \in Req : /\ Positions(r)' = Positions(r)
                         /\ \A p \in Positions(r) : PageOf(r, p)' = PageOf(r, p)
      BY <3>1 DEF Positions, PageOf
    <3>3. Types'
      BY <3>1, <3>2 DEF PageTable, Types
    <3>4. Offsets' /\ PagesTaken'
      BY <3>1, <3>2 DEF PageTable, Offsets, PagesTaken
    <3>5. BlockIsPage'
      BY <3>1, <3>2 DEF PageTable, BlockIsPage
    <3>6. NoPageLost'
      BY <3>1, <3>2 DEF PageTable, NoPageLost
    <3> QED
      BY <3>3, <3>4, <3>5, <3>6 DEF PageTable
  <2> QED
    BY <2>1, <2>2, <2>3 DEF Next
<1> QED
  BY <1>1, <1>2, PTL DEF Spec

\* A slot lies in its page, and the page is one of the pool's.
LEMMA SlotInPool ==
    ASSUME PageTable, NEW r \in Req, NEW p \in Positions(r)
    PROVE  reqToToken[r][p] \in PoolSlot
<1>1. PICK s \in Nat : s = reqToToken[r][p]
  BY DEF PageTable, Types
<1>2. PICK g \in Nat : g = s \div PageSize
  BY <1>1, PageDiv, Zenon
<1>3. g \in 1..NumPages
  BY <1>1, <1>2 DEF PageTable, PagesTaken, PageOf, Page
<1>4. /\ s = g * PageSize + (s % PageSize)
      /\ s % PageSize \in 0..(PageSize - 1)
  BY <1>1, <1>2, PageDiv
<1>5. g * PageSize \in Nat /\ NumPages * PageSize \in Nat /\ PageSize \in Nat
  BY <1>2, PagedAllocAssumption
<1>6. PageSize <= g * PageSize
  BY <1>3, PagedAllocAssumption
<1>7. g * PageSize <= NumPages * PageSize
  BY <1>3, PagedAllocAssumption
<1>8. s \in PoolSlot
  BY <1>1, <1>4, <1>5, <1>6, <1>7 DEF PoolSlot
<1> QED
  BY <1>1, <1>8

\* Each variable of the allocator keeps its type; in particular no batch is
\* given an index outside the pool, or in the page that is never handed out.
THEOREM TypeCorrect == Spec => []TypeOK
<1>1. PageTable => TypeOK
  BY SlotInPool DEF PageTable, Types, TypeOK
<1> QED
  BY <1>1, PageTableInvariant, PTL

\* Equal slots have equal pages, hence one request and one block, and equal
\* offsets, hence one position.
LEMMA ExclusiveSlots ==
    ASSUME PageTable
    PROVE  NoSlotShared
<1> SUFFICES ASSUME NEW r \in Req, NEW s \in Req,
                    NEW p \in Positions(r), NEW q \in Positions(s),
                    reqToToken[r][p] = reqToToken[s][q]
             PROVE  r = s /\ p = q
  BY DEF NoSlotShared
<1>1. PageOf(r, p) = PageOf(s, q)
  BY DEF PageOf
<1>2. r = s /\ p \div PageSize = q \div PageSize
  BY <1>1 DEF PageTable, BlockIsPage
<1>3. p % PageSize = q % PageSize
  BY DEF PageTable, Offsets
<1>4. p \in Nat /\ q \in Nat
  BY DEF PageTable, Types, Positions
<1>5. /\ p = (p \div PageSize) * PageSize + (p % PageSize)
      /\ q = (q \div PageSize) * PageSize + (q % PageSize)
  BY <1>4, PageDiv
<1>6. p = q
  BY <1>2, <1>3, <1>5, Zenon
<1> QED
  BY <1>2, <1>6

\* No two live positions are ever given the same slot, for every page size,
\* pool, batch and order of the free list.
THEOREM SlotsAreExclusive == Spec => []NoSlotShared
<1>1. PageTable => NoSlotShared
  BY ExclusiveSlots
<1> QED
  BY <1>1, PageTableInvariant, PTL

\* A slot can always be rebuilt from a page table: the offset is that of the
\* position and the positions of one block share one page.
THEOREM SlotsFollowPages == Spec => []PageAligned
<1>1. PageTable => PageAligned
  <2> SUFFICES ASSUME PageTable, NEW r \in Req, NEW p \in Positions(r), NEW q \in Positions(r)
               PROVE  /\ reqToToken[r][p] % PageSize = p % PageSize
                      /\ p \div PageSize = q \div PageSize => PageOf(r, p) = PageOf(r, q)
    BY DEF PageAligned
  <2>1. reqToToken[r][p] % PageSize = p % PageSize
    BY DEF PageTable, Offsets
  <2>2. PageOf(r, p) = PageOf(r, q) <=> p \div PageSize = q \div PageSize
    BY DEF PageTable, BlockIsPage
  <2> QED
    BY <2>1, <2>2
<1> QED
  BY <1>1, PageTableInvariant, PTL

\* No page leaks and none is both free and in use, after any sequence of
\* kernel calls and releases.
THEOREM PagesAreConserved == Spec => []PagesConserved
<1>1. PageTable => PagesConserved
  BY DEF PageTable, PagesConserved, PagesTaken, NoPageLost
<1> QED
  BY <1>1, PageTableInvariant, PTL

\* What the allocator owes the rest of the program, for every page size, pool,
\* batch and order of the free list (alloc_extend_cpu, alloc_decode_cpu).
THEOREM AllocatorIsExact == Spec => []AllocatorExact
<1>1. NoSlotShared /\ PageAligned /\ PagesConserved => AllocatorExact
  BY DEF AllocatorExact
<1> QED
  BY SlotsAreExclusive, SlotsFollowPages, PagesAreConserved, <1>1, PTL

-----------------------------------------------------------------------------
(* Where compressed blocks are kept. *)

\* Blocks of d tokens, k to a page, counted over a pages and j blocks.
LEMMA BlocksOfPages ==
    ASSUME NEW a \in Nat, NEW j \in Nat, NEW k \in Nat, NEW d \in Nat
    PROVE  (a * k + j) * d = a * (k * d) + j * d
  OBVIOUS

LEMMA RatioDivides ==
    ASSUME NEW ratio \in Ratios
    PROVE  /\ ratio \in Nat \ {0}
           /\ PageSize \div ratio \in Nat \ {0}
           /\ PageSize = (PageSize \div ratio) * ratio
<1>1. ratio \in Nat \ {0} /\ PageSize \in Nat \ {0}
  BY CompressedLocsAssumption, PagedAllocAssumption
<1>2. PICK k \in 1..PageSize : PageSize = k * ratio
  BY CompressedLocsAssumption
<1>3. k \in Int /\ 0 \in 0..(ratio - 1) /\ PageSize = k * ratio + 0
  BY <1>1, <1>2
<1>4. PageSize \div ratio = k
  BY <1>1, <1>3, DivUnique
<1> QED
  BY <1>1, <1>2, <1>4

\* Where a token that completes a block stands in its page, and what the two
\* sides of the metadata make of it.
LEMMA BlockLocation ==
    ASSUME PageTable, NEW r \in Req, NEW ratio \in Ratios, NEW p \in Positions(r),
           (p + 1) % ratio = 0
    PROVE  LET k == PageSize \div ratio
               j == (p % PageSize) \div ratio
           IN  /\ j \in 0..(k - 1)
               /\ p \div PageSize \in Nat
               /\ p = (p \div PageSize) * PageSize + (j * ratio + (ratio - 1))
               /\ CompressedOutLoc(r, p, ratio) = PageOf(r, p) * k + j
               /\ BlockPosition(p, ratio) \div ratio = (p \div PageSize) * k + j
<1> DEFINE k == PageSize \div ratio
           P == p \div PageSize
           o == p % PageSize
           j == o \div ratio
           e == o % ratio
           slot == reqToToken[r][p]
           page == PageOf(r, p)
<1>1. /\ ratio \in Nat \ {0} /\ k \in Nat \ {0} /\ PageSize = k * ratio
      /\ PageSize \in Nat \ {0}
  BY RatioDivides, PagedAllocAssumption
<1>2. p \in Nat /\ slot \in Nat
  BY DEF PageTable, Types, Positions
<1>3. P \in Nat /\ o \in 0..(PageSize - 1) /\ p = P * PageSize + o
  BY <1>1, <1>2, DivMod
<1>4. j \in Nat /\ e \in 0..(ratio - 1) /\ o = j * ratio + e
  <2>1. o \in Nat
    BY <1>1, <1>3
  <2> HIDE DEF o
  <2> QED
    BY <1>1, <2>1, DivMod
<1>5. j < k
  <2>1. SUFFICES ASSUME j >= k PROVE FALSE
    BY <1>1, <1>4
  <2> HIDE DEF o, j, e, k
  <2>2. j * ratio >= k * ratio
    <3>1. CASE j = k
      BY <1>1, <3>1
    <3>2. CASE k < j
      BY <1>1, <1>4, <3>2, MultiplesApart
    <3> QED
      BY <1>1, <1>4, <2>1, <3>1, <3>2
  <2> QED
    BY <1>1, <1>3, <1>4, <2>2
<1>6. p = (P * k + j) * ratio + e
  <2> HIDE DEF P, o, j, e, k
  <2>1. (P * k + j) * ratio = P * PageSize + j * ratio
    BY <1>1, <1>3, <1>4, BlocksOfPages
  <2> QED
    BY <1>1, <1>3, <1>4, <2>1
<1>7. P * k + j \in Nat
  <2> HIDE DEF P, j, k
  <2> QED
    BY <1>1, <1>3, <1>4
<1>8. p \div ratio = P * k + j /\ p % ratio = e
  <2> HIDE DEF P, o, j, e, k
  <2> QED
    BY <1>1, <1>2, <1>4, <1>6, <1>7, DivUnique
<1>9. e = ratio - 1
  <2> DEFINE Q == (p + 1) \div ratio
  <2>1. Q \in Nat /\ p + 1 = Q * ratio + 0
    <3>1. p + 1 \in Nat
      BY <1>2
    <3>2. Q \in Nat /\ p + 1 = Q * ratio + ((p + 1) % ratio)
      BY <1>1, <3>1, DivMod, Zenon
    <3> QED
      BY <1>2, <3>2
  <2>2. Q >= 1
    <3>1. SUFFICES ASSUME Q = 0 PROVE FALSE
      BY <2>1
    <3> QED
      BY <1>1, <1>2, <2>1, <3>1
  <2>3. p = (Q - 1) * ratio + (ratio - 1)
    <3> HIDE DEF Q
    <3>1. (Q - 1) * ratio = Q * ratio - ratio
      BY <1>1, <2>1
    <3> QED
      BY <1>1, <1>2, <2>1, <3>1
  <2>4. Q - 1 \in Int /\ ratio - 1 \in 0..(ratio - 1)
    BY <1>1, <2>1
  <2>5. p % ratio = ratio - 1
    <3> HIDE DEF Q
    <3> QED
      BY <1>1, <1>2, <2>3, <2>4, DivUnique
  <2> QED
    BY <1>8, <2>5
<1>10. slot = page * PageSize + o /\ page \in Nat
  <2>1. slot % PageSize = o
    BY DEF PageTable, Offsets
  <2>2. slot = page * PageSize + (slot % PageSize) /\ page \in Nat
    BY <1>1, <1>2, DivMod DEF PageOf
  <2> QED
    BY <2>1, <2>2
<1>11. CompressedOutLoc(r, p, ratio) = page * k + j
  <2> HIDE DEF page, o, j, e, k, slot
  <2>1. (page * k + j) * ratio = page * PageSize + j * ratio
    BY <1>1, <1>10, <1>4, BlocksOfPages
  <2>2. slot = (page * k + j) * ratio + e /\ page * k + j \in Int
    BY <1>1, <1>4, <1>10, <2>1
  <2>3. slot \div ratio = page * k + j
    BY <1>1, <1>2, <1>4, <2>2, DivUnique
  <2> QED
    BY <2>3 DEF CompressedOutLoc, slot
<1>12. BlockPosition(p, ratio) \div ratio = P * k + j
  <2> HIDE DEF P, j, e, k
  <2>1. BlockPosition(p, ratio) = (P * k + j) * ratio + 0
    BY <1>1, <1>2, <1>4, <1>6, <1>7, <1>8 DEF BlockPosition
  <2>2. BlockPosition(p, ratio) \in Nat
    BY <1>1, <1>7, <2>1
  <2>3. 0 \in 0..(ratio - 1) /\ P * k + j \in Int
    BY <1>1, <1>7
  <2> QED
    BY <1>1, <2>1, <2>2, <2>3, DivUnique
<1> QED
  BY <1>3, <1>4, <1>5, <1>9, <1>11, <1>12, <1>1

\* What page_indices has of a block of r.
LEMMA LookUp ==
    ASSUME PageTable, NEW r \in Req, NEW ratio \in Ratios, NEW p \in Positions(r),
           (p + 1) % ratio = 0
    PROVE  CompressedOutLoc(r, p, ratio)
              = PageIndices(r, ratio)[BlockPosition(p, ratio) \div ratio]
<1> DEFINE k == PageSize \div ratio
           P == p \div PageSize
           j == (p % PageSize) \div ratio
           b == P * k + j
           C == CeilDiv(MaxLen)
<1>1. /\ j \in 0..(k - 1) /\ P \in Nat
      /\ p = P * PageSize + (j * ratio + (ratio - 1))
      /\ CompressedOutLoc(r, p, ratio) = PageOf(r, p) * k + j
      /\ BlockPosition(p, ratio) \div ratio = b
  BY BlockLocation
<1>2. ratio \in Nat \ {0} /\ k \in Nat \ {0} /\ PageSize = k * ratio /\ PageSize \in Nat \ {0}
  BY RatioDivides, PagedAllocAssumption
<1>3. p \in Nat /\ seqLen[r] \in 0..MaxLen /\ p < seqLen[r] /\ MaxLen \in Nat
  BY PagedAllocAssumption DEF PageTable, Types, Positions
<1>4. b \in Nat /\ b \div k = P /\ b % k = j
  <2> HIDE DEF P, j, k
  <2>1. P * k \in Nat /\ j \in Nat
    BY <1>1, <1>2
  <2>2. b \in Nat /\ b = P * k + j
    BY <2>1
  <2>3. P \in Int /\ j \in 0..(k - 1) /\ k \in Nat \ {0}
    BY <1>1, <1>2
  <2> HIDE DEF b
  <2> QED
    BY <2>2, <2>3, DivUnique, Zenon
<1>5. b < CompressedSeqLen(r, ratio)
  <2> HIDE DEF P, j, k
  <2>1. b * ratio = P * PageSize + j * ratio
    BY <1>1, <1>2, BlocksOfPages
  <2>2. (b + 1) * ratio = b * ratio + ratio
    BY <1>2, <1>4
  <2> HIDE DEF b
  <2>3. (b + 1) * ratio <= seqLen[r]
    BY <1>1, <1>2, <1>3, <1>4, <2>1, <2>2
  <2>4. seqLen[r] \in Nat
    BY <1>3
  <2>5. b < seqLen[r] \div ratio
    BY <1>2, <1>4, <2>3, <2>4, FullBlocks
  <2> QED
    BY <2>5 DEF CompressedSeqLen
<1>6. C \in Nat /\ P < C
  <2>1. C \in Nat
    BY <1>3, CeilDivBounds
  <2>2. P < CeilDiv(seqLen[r])
    BY <1>3, CeilDivPosition
  <2>3. CeilDiv(seqLen[r]) <= C /\ CeilDiv(seqLen[r]) \in Nat
    BY <1>3, CeilDivMonotone, CeilDivBounds
  <2> HIDE DEF P, C
  <2> QED
    BY <1>1, <2>1, <2>2, <2>3
<1>7. b \in 0..(C * k - 1)
  <2> HIDE DEF P, j, k, C
  <2>1. P * k + k <= C * k
    BY <1>1, <1>2, <1>6, MultiplesApart
  <2> QED
    BY <1>1, <1>2, <1>4, <1>6, <2>1
<1>8. TableRow(r)[P] = PageOf(r, p)
  <2>1. P \in 0..(C - 1)
    BY <1>1, <1>6
  <2>2. /\ P * PageSize \in Positions(r)
        /\ (P * PageSize) \div PageSize = P
    <3> HIDE DEF P, j, k, C
    <3>1. P * PageSize \in Nat /\ P * PageSize <= p /\ P * PageSize = P * PageSize + 0
      BY <1>1, <1>2, <1>3
    <3> QED
      BY <1>1, <1>2, <1>3, <3>1, DivUnique DEF Positions
  <2>3. PageOf(r, P * PageSize) = PageOf(r, p)
    BY <2>2 DEF PageTable, BlockIsPage
  <2>4. P * PageSize < seqLen[r]
    BY <1>3, <2>2 DEF Positions
  <2> HIDE DEF P, j, k
  <2> QED
    BY <2>1, <2>3, <2>4 DEF TableRow
<1>9. PageIndices(r, ratio)[b] = TableRow(r)[b \div k] * k + (b % k)
  <2> HIDE DEF b
  <2> QED
    BY <1>5, <1>7 DEF PageIndices
<1> QED
  BY <1>1, <1>4, <1>8, <1>9

\* A block is looked up where the token that completed it has written it, for
\* every pool, ratio and sequence of calls.
THEOREM LocationsAreRead == Spec => []LocationsAgree
<1>1. PageTable => LocationsAgree
  <2> SUFFICES ASSUME PageTable, NEW r \in Req, NEW ratio \in Ratios,
                      NEW b \in DOMAIN PageIndices(r, ratio), PageIndices(r, ratio)[b] # -1
               PROVE  b * ratio + ratio - 1 \in Positions(r)
    BY LookUp DEF LocationsAgree
  <2>1. ratio \in Nat \ {0} /\ seqLen[r] \in Nat
    BY RatioDivides DEF PageTable, Types
  <2>2. b \in Nat /\ b < CompressedSeqLen(r, ratio)
    BY DEF PageIndices
  <2>3. (b + 1) * ratio <= seqLen[r]
    BY <2>1, <2>2, FullBlocks DEF CompressedSeqLen
  <2>4. (b + 1) * ratio = b * ratio + ratio /\ b * ratio \in Nat
    BY <2>1, <2>2
  <2> QED
    BY <2>1, <2>3, <2>4 DEF Positions
<1> QED
  BY <1>1, PageTableInvariant, PTL

\* No block of a live request is ever overwritten by another's, nor by the
\* writes of the tokens that complete none.
THEOREM LocationsAreApart == Spec => []LocationsApart
<1>1. PageTable => LocationsApart
  <2> SUFFICES ASSUME PageTable, NEW r \in Req, NEW s \in Req, NEW ratio \in Ratios,
                      NEW p \in Positions(r), NEW q \in Positions(s),
                      (p + 1) % ratio = 0,
                      CompressedOutLoc(r, p, ratio) = CompressedOutLoc(s, q, ratio)
               PROVE  r = s /\ p = q
    BY DEF LocationsApart
  <2> DEFINE k == PageSize \div ratio
             j == (p % PageSize) \div ratio
             i == (q % PageSize) \div ratio
             a == PageOf(r, p)
             c == PageOf(s, q)
  <2>1. /\ j \in 0..(k - 1)
        /\ p = (p \div PageSize) * PageSize + (j * ratio + (ratio - 1))
        /\ CompressedOutLoc(r, p, ratio) = a * k + j
    BY BlockLocation
  <2>2. ratio \in Nat \ {0} /\ k \in Nat \ {0}
    BY RatioDivides
  <2>3. a \in Nat \ {0} /\ c \in Nat \ {0}
    BY PagedAllocAssumption DEF PageTable, PagesTaken, Page
  <2>4. a * k + j >= 1
    <3> HIDE DEF k, j, a
    <3>1. a * k >= 1
      BY <2>2, <2>3
    <3> QED
      BY <2>1, <2>2, <2>3, <3>1
  <2>5. (q + 1) % ratio = 0
    BY <2>1, <2>4 DEF CompressedOutLoc
  <2>6. /\ i \in 0..(k - 1)
        /\ q = (q \div PageSize) * PageSize + (i * ratio + (ratio - 1))
        /\ CompressedOutLoc(s, q, ratio) = c * k + i
    BY <2>5, BlockLocation
  <2>7. a = c /\ j = i
    <3> HIDE DEF k, j, i, a, c
    <3>1. a * k \in Nat /\ j \in Nat /\ a * k + j = c * k + i
      <4>1. a * k \in Nat /\ j \in Nat
        BY <2>1, <2>2, <2>3
      <4>2. a * k + j = c * k + i
        BY <2>1, <2>6, Zenon
      <4> QED
        BY <4>1, <4>2
    <3> DEFINE loc == a * k + j
    <3>2. loc \in Nat /\ loc = a * k + j /\ loc = c * k + i
      BY <3>1
    <3> HIDE DEF loc
    <3>3. a \in Int /\ c \in Int /\ j \in 0..(k - 1) /\ i \in 0..(k - 1)
      BY <2>1, <2>3, <2>6
    <3>4. loc \div k = a /\ loc % k = j
      BY <2>2, <3>2, <3>3, DivUnique, Zenon
    <3>5. loc \div k = c /\ loc % k = i
      BY <2>2, <3>2, <3>3, DivUnique, Zenon
    <3> QED
      BY <3>4, <3>5
  <2>8. r = s /\ p \div PageSize = q \div PageSize
    BY <2>7 DEF PageTable, BlockIsPage
  <2> QED
    BY <2>1, <2>6, <2>7, <2>8
<1> QED
  BY <1>1, PageTableInvariant, PTL

\* A compressed block is found where it was written, and is overwritten by no
\* other (the c4 and c128 locations of the attention metadata).
THEOREM LocationsAreExact == Spec => []LocationsExact
<1>1. LocationsAgree /\ LocationsApart => LocationsExact
  BY DEF LocationsExact
<1> QED
  BY LocationsAreRead, LocationsAreApart, <1>1, PTL

-----------------------------------------------------------------------------
(* The stash *)

\* The batch is of live requests, and its tokens are their last positions.
BatchLive ==
    /\ fb.n \in Nat
    /\ \A i \in 1..fb.n : /\ fb.row[i] \in Req
                          /\ fb.start[i] \in Nat
                          /\ fb.stop[i] = seqLen[fb.row[i]]
                          /\ fb.start[i] < fb.stop[i]
    /\ pc = "write" => fb.n # 0
    /\ pc = "idle" => fb = NoBatch

\* A batch does not name a row twice.
RowsDiffer == \A i, j \in 1..fb.n : fb.row[i] = fb.row[j] => i = j

\* What the last attention call read is forgotten when a batch starts.
NothingRead == pc # "idle" => ctx = {}

StashInv == StashTypeOK /\ BatchLive /\ StashHoldsLive /\ GatherExact

-----------------------------------------------------------------------------
(* What a kernel call does to the table, seen from the stash. *)

LEMMA CallGrows ==
    ASSUME PageTable, NEW n \in 1..MaxBatch, NEW batch \in Batches(n),
           NEW target \in [1..n -> 1..MaxLen],
           AllocExtend(n, batch, target) \/ AllocDecode(n, batch, target)
    PROVE  /\ n \in Nat \ {0}
           /\ \A i \in 1..n : /\ batch[i] \in Req
                              /\ seqLen[batch[i]] \in Nat
                              /\ seqLen'[batch[i]] = target[i]
                              /\ seqLen[batch[i]] < target[i]
           /\ \A r \in Req : (\A i \in 1..n : batch[i] # r) => seqLen'[r] = seqLen[r]
           /\ \A r \in Req : \A p \in Positions(r) : reqToToken'[r][p] = reqToToken[r][p]
<1>1. n \in Nat \ {0}
  BY PagedAllocAssumption
<1>2. PICK rows, taken : Commit(n, batch, target, rows, taken)
  BY DEF AllocExtend, AllocDecode
<1>3. /\ \A i \in 1..n :
           /\ seqLen'[batch[i]] = target[i]
           /\ reqToToken'[batch[i]] =
                 [p \in 0..(target[i] - 1) |->
                    IF p < seqLen[batch[i]] THEN reqToToken[batch[i]][p] ELSE rows[i][p]]
      /\ \A r \in Req : (\A i \in 1..n : batch[i] # r) =>
           seqLen'[r] = seqLen[r] /\ reqToToken'[r] = reqToToken[r]
  BY <1>2, CommitEffect
<1>4. ASSUME NEW i \in 1..n
      PROVE  /\ batch[i] \in Req /\ seqLen[batch[i]] \in Nat /\ target[i] \in Nat
             /\ seqLen[batch[i]] < target[i]
  <2>1. batch[i] \in Req /\ target[i] \in Nat
    BY DEF Batches
  <2>2. seqLen[batch[i]] \in Nat
    BY <2>1 DEF PageTable, Types
  <2>3. seqLen[batch[i]] < target[i]
    BY <2>1, <2>2 DEF AllocExtend, AllocDecode
  <2> QED
    BY <2>1, <2>2, <2>3
<1>5. ASSUME NEW r \in Req, NEW p \in Positions(r)
      PROVE  reqToToken'[r][p] = reqToToken[r][p]
  <2>1. CASE \A i \in 1..n : batch[i] # r
    BY <1>3, <2>1
  <2>2. CASE \E i \in 1..n : batch[i] = r
    <3>1. PICK i \in 1..n : batch[i] = r
      BY <2>2
    <3>2. p \in 0..(seqLen[batch[i]] - 1)
      BY <3>1 DEF Positions
    <3>3. p \in 0..(target[i] - 1) /\ p < seqLen[batch[i]]
      BY <1>4, <3>2
    <3> QED
      BY <1>3, <3>1, <3>3
  <2> QED
    BY <2>1, <2>2
<1> QED
  BY <1>1, <1>3, <1>4, <1>5

\* The positions of a request, and a token of the batch is one of them.
LEMMA TokenIsLive ==
    ASSUME PageTable, BatchLive, NEW t \in Tokens
    PROVE  /\ t.row \in Req /\ t.pos \in Positions(t.row)
           /\ t = [row |-> t.row, pos |-> t.pos]
           /\ reqToToken[t.row][t.pos] \in OutLoc
<1>1. PICK i \in 1..fb.n :
         t \in {[row |-> fb.row[i], pos |-> p] : p \in fb.start[i]..(fb.stop[i] - 1)}
  BY DEF Tokens
<1>2. PICK p \in fb.start[i]..(fb.stop[i] - 1) : t = [row |-> fb.row[i], pos |-> p]
  BY <1>1
<1>3. fb.row[i] \in Req /\ fb.start[i] \in Nat /\ fb.stop[i] = seqLen[fb.row[i]]
  BY DEF BatchLive
<1>4. seqLen[fb.row[i]] \in Nat
  BY <1>3 DEF PageTable, Types
<1>5. p \in Positions(fb.row[i])
  BY <1>3, <1>4 DEF Positions
<1> QED
  BY <1>2, <1>3, <1>5 DEF OutLoc

\* The largest slot of a batch exists, as slots are in the pool.
LEMMA NeedBounds ==
    ASSUME PageTable, BatchLive, pc = "write"
    PROVE  /\ Need \in Nat \ {0}
           /\ \A s \in OutLoc : s \in Nat /\ s < Need
<1>1. ASSUME NEW s \in OutLoc PROVE s \in PoolSlot
  <2>1. PICK t \in Tokens : s = reqToToken[t.row][t.pos]
    BY DEF OutLoc
  <2>2. t.row \in Req /\ t.pos \in Positions(t.row)
    BY TokenIsLive
  <2> QED
    BY <2>1, <2>2, SlotInPool
<1>2. PICK m \in Nat : m = NumPages * PageSize + PageSize - 1
  <2>1. NumPages * PageSize \in Nat
    BY PagedAllocAssumption
  <2> QED
    BY <2>1, PagedAllocAssumption
<1>3. OutLoc \in SUBSET Nat /\ \A s \in OutLoc : s <= m
  BY <1>1, <1>2, PagedAllocAssumption DEF PoolSlot
<1>4. OutLoc # {}
  <2>1. 1 \in 1..fb.n
    BY DEF BatchLive
  <2>2. fb.start[1] \in fb.start[1]..(fb.stop[1] - 1)
    <3>1. fb.row[1] \in Req /\ fb.start[1] \in Nat /\ fb.stop[1] = seqLen[fb.row[1]]
          /\ fb.start[1] < fb.stop[1]
      BY <2>1 DEF BatchLive
    <3>2. fb.stop[1] \in Nat
      BY <3>1 DEF PageTable, Types
    <3> QED
      BY <3>1, <3>2
  <2>3. [row |-> fb.row[1], pos |-> fb.start[1]] \in Tokens
    BY <2>1, <2>2 DEF Tokens
  <2> QED
    BY <2>3 DEF OutLoc
<1>5. PICK x \in OutLoc : \A y \in OutLoc : x >= y
  BY <1>3, <1>4, GreatestElement
<1>6. Max(OutLoc) \in OutLoc /\ \A y \in OutLoc : Max(OutLoc) >= y
  BY <1>5 DEF Max
<1>7. PICK k \in Nat : k = Max(OutLoc)
  BY <1>3, <1>6
<1>8. \A y \in OutLoc : y \in Nat /\ y < k + 1
  BY <1>3, <1>6, <1>7
<1> QED
  BY <1>7, <1>8 DEF Need

\* The buffer a write leaves has every slot written and all it had before.
LEMMA Grown ==
    ASSUME PageTable, BatchLive, StashTypeOK, pc = "write", StashWrite
    PROVE  /\ cap' \in Nat /\ cap <= cap'
           /\ DOMAIN buf' = 0..(cap' - 1)
           /\ \A s \in OutLoc : s \in 0..(cap' - 1) /\ buf'[s] = KeyFor(s)
           /\ \A s \in 0..(cap - 1) : s \notin OutLoc => buf'[s] = buf[s]
           /\ valid' = valid \cup OutLoc
           /\ stale' = stale \ OutLoc
<1> DEFINE grown == IF cap = 0 THEN (IF Need > MinCap THEN Need ELSE MinCap)
                    ELSE IF Need > cap
                    THEN (IF Need > 2 * cap THEN Need ELSE 2 * cap) ELSE cap
<1>1. /\ cap' = grown
      /\ buf' = [s \in 0..(grown - 1) |->
                   IF s \in OutLoc THEN KeyFor(s)
                   ELSE IF s < cap THEN buf[s] ELSE ZeroKey]
      /\ valid' = valid \cup OutLoc
      /\ stale' = stale \ OutLoc
  BY DEF StashWrite
<1>2. PICK k \in Nat : k = Need /\ k # 0
  BY NeedBounds
<1>3. cap \in Nat /\ MinCap \in Nat
  BY KvStashAssumption DEF StashTypeOK
<1>4. grown \in Nat /\ cap <= grown /\ k <= grown
  BY <1>2, <1>3
<1>5. \A s \in OutLoc : s \in Nat /\ s < k
  BY <1>2, NeedBounds
<1> HIDE DEF grown
<1>6. \A s \in OutLoc : s \in 0..(grown - 1)
  BY <1>2, <1>4, <1>5
<1>7. ASSUME NEW s \in 0..(cap - 1), s \notin OutLoc PROVE buf'[s] = buf[s]
  <2>1. s \in 0..(grown - 1) /\ s < cap
    BY <1>3, <1>4
  <2> QED
    BY <1>1, <1>7, <2>1
<1>8. ASSUME NEW s \in OutLoc PROVE s \in 0..(cap' - 1) /\ buf'[s] = KeyFor(s)
  BY <1>1, <1>6
<1> QED
  BY <1>1, <1>3, <1>4, <1>7, <1>8

\* The key written for a live position is its own, as no other has its slot.
LEMMA KeyIsOwn ==
    ASSUME PageTable, BatchLive, NEW r \in Req, NEW p \in Positions(r),
           reqToToken[r][p] \in OutLoc
    PROVE  /\ [row |-> r, pos |-> p] \in Tokens
           /\ KeyFor(reqToToken[r][p]) = [row |-> r, pos |-> p]
<1>1. ASSUME NEW t \in Tokens, reqToToken[t.row][t.pos] = reqToToken[r][p]
      PROVE  t = [row |-> r, pos |-> p]
  <2>1. t.row \in Req /\ t.pos \in Positions(t.row) /\ t = [row |-> t.row, pos |-> t.pos]
    BY TokenIsLive
  <2>2. t.row = r /\ t.pos = p
    BY <1>1, <2>1, ExclusiveSlots DEF NoSlotShared
  <2> QED
    BY <2>1, <2>2
<1>2. PICK t \in Tokens : reqToToken[t.row][t.pos] = reqToToken[r][p]
  BY DEF OutLoc
<1> QED
  BY <1>1, <1>2 DEF KeyFor

-----------------------------------------------------------------------------
(* Each step preserves the invariant. *)

LEMMA BeginPreserves ==
    ASSUME PageTable, StashInv, NEW n \in 1..MaxBatch, NEW batch \in Batches(n),
           NEW target \in [1..n -> 1..MaxLen], Begin(n, batch, target)
    PROVE  StashInv'
<1>1. /\ n \in Nat \ {0}
      /\ \A i \in 1..n : /\ batch[i] \in Req
                         /\ seqLen[batch[i]] \in Nat
                         /\ seqLen'[batch[i]] = target[i]
                         /\ seqLen[batch[i]] < target[i]
      /\ \A r \in Req : (\A i \in 1..n : batch[i] # r) => seqLen'[r] = seqLen[r]
      /\ \A r \in Req : \A p \in Positions(r) : reqToToken'[r][p] = reqToToken[r][p]
  BY CallGrows DEF Begin
<1>2. /\ pc = "idle" /\ pc' = "write" /\ ctx' = {}
      /\ fb' = [n |-> n, row |-> batch,
                start |-> [i \in 1..n |-> seqLen[batch[i]]], stop |-> target]
      /\ cap' = cap /\ buf' = buf /\ valid' = valid /\ stale' = stale
  BY DEF Begin
<1>3. StashTypeOK'
  BY <1>2 DEF StashInv, StashTypeOK
<1>4. BatchLive'
  BY <1>1, <1>2 DEF BatchLive
<1>5. StashHoldsLive'
  <2> SUFFICES ASSUME NEW r \in Req, NEW p \in Positions(r)'
               PROVE  (pc' = "write" /\ [row |-> r, pos |-> p] \in Tokens') \/ Stashed(r, p)'
    BY DEF StashHoldsLive
  <2>1. CASE p \in Positions(r)
    <3>1. Stashed(r, p)
      BY <1>2, <2>1 DEF StashInv, StashHoldsLive
    <3>2. reqToToken'[r][p] = reqToToken[r][p]
      BY <1>1, <2>1
    <3> QED
      BY <1>2, <3>1, <3>2 DEF Stashed
  <2>2. CASE p \notin Positions(r)
    <3>1. PICK i \in 1..n : batch[i] = r
      BY <1>1, <2>2 DEF Positions
    <3>2. p \in seqLen[r]..(target[i] - 1)
      <4>1. p \in 0..(target[i] - 1)
        BY <1>1, <3>1 DEF Positions
      <4>2. p \notin 0..(seqLen[r] - 1) /\ seqLen[r] \in Nat /\ target[i] \in Nat
        BY <1>1, <2>2, <3>1 DEF Positions
      <4> QED
        BY <4>1, <4>2
    <3>3. fb'.row[i] = r /\ fb'.start[i] = seqLen[r] /\ fb'.stop[i] = target[i] /\ fb'.n = n
      BY <1>2, <3>1
    <3>4. [row |-> r, pos |-> p] \in Tokens'
      BY <3>1, <3>2, <3>3 DEF Tokens
    <3> QED
      BY <1>2, <3>4
  <2> QED
    BY <2>1, <2>2
<1>6. GatherExact'
  BY <1>2 DEF GatherExact
<1> QED
  BY <1>3, <1>4, <1>5, <1>6 DEF StashInv

LEMMA WritePreserves ==
    ASSUME PageTable, StashInv, Write
    PROVE  StashInv'
<1>1. /\ pc = "write" /\ pc' = "attend" /\ StashWrite
      /\ seqLen' = seqLen /\ reqToToken' = reqToToken /\ fb' = fb /\ ctx' = ctx
  BY DEF Write
<1>2. BatchLive /\ StashTypeOK
  BY DEF StashInv
<1>3. /\ cap' \in Nat /\ cap <= cap'
      /\ DOMAIN buf' = 0..(cap' - 1)
      /\ \A s \in OutLoc : s \in 0..(cap' - 1) /\ buf'[s] = KeyFor(s)
      /\ \A s \in 0..(cap - 1) : s \notin OutLoc => buf'[s] = buf[s]
      /\ valid' = valid \cup OutLoc
      /\ stale' = stale \ OutLoc
  BY <1>1, <1>2, Grown
<1>4. StashTypeOK'
  <2>1. cap \in Nat /\ valid \subseteq 0..(cap - 1) /\ stale \subseteq valid
    BY <1>2 DEF StashTypeOK
  <2>2. valid' \subseteq 0..(cap' - 1)
    <3> SUFFICES ASSUME NEW s \in valid' PROVE s \in 0..(cap' - 1)
      OBVIOUS
    <3>1. CASE s \in OutLoc
      BY <1>3, <3>1
    <3>2. CASE s \in valid
      <4>1. s \in 0..(cap - 1)
        BY <2>1, <3>2
      <4>2. PICK m \in Nat : m = cap
        BY <2>1
      <4>3. PICK k \in Nat : k = cap'
        BY <1>3
      <4>4. m <= k
        BY <1>3, <4>2, <4>3
      <4>5. s \in 0..(m - 1)
        BY <4>1, <4>2
      <4>6. s \in 0..(k - 1)
        BY <4>4, <4>5
      <4> QED
        BY <4>3, <4>6
    <3> QED
      BY <1>3, <3>1, <3>2
  <2>3. stale' \subseteq valid'
    BY <1>3, <2>1
  <2> QED
    BY <1>1, <1>3, <2>2, <2>3 DEF StashTypeOK
<1>5. BatchLive'
  BY <1>1, <1>2 DEF BatchLive
<1>6. StashHoldsLive'
  <2> SUFFICES ASSUME NEW r \in Req, NEW p \in Positions(r) PROVE Stashed(r, p)'
    BY <1>1 DEF StashHoldsLive, Positions
  <2>1. PICK s : s = reqToToken[r][p] /\ s = reqToToken'[r][p]
    BY <1>1
  <2>2. CASE s \in OutLoc
    <3>1. KeyFor(s) = [row |-> r, pos |-> p]
      BY <1>2, <2>1, <2>2, KeyIsOwn
    <3> QED
      BY <1>3, <2>1, <2>2, <3>1 DEF Stashed
  <2>3. CASE s \notin OutLoc
    <3>1. [row |-> r, pos |-> p] \notin Tokens
      <4> SUFFICES ASSUME NEW t \in Tokens, t = [row |-> r, pos |-> p] PROVE FALSE
        OBVIOUS
      <4>1. t.row = r /\ t.pos = p
        OBVIOUS
      <4> QED
        BY <1>2, <2>1, <2>3, <4>1, TokenIsLive
    <3>2. Stashed(r, p)
      BY <3>1 DEF StashInv, StashHoldsLive
    <3>3. s \in valid /\ s \notin stale /\ buf[s] = [row |-> r, pos |-> p]
      BY <2>1, <3>2 DEF Stashed
    <3>4. s \in 0..(cap - 1)
      BY <1>2, <3>3 DEF StashTypeOK
    <3> QED
      BY <1>3, <2>1, <2>3, <3>3, <3>4 DEF Stashed
  <2> QED
    BY <2>2, <2>3
<1>7. GatherExact'
  BY <1>1 DEF StashInv, GatherExact
<1> QED
  BY <1>4, <1>5, <1>6, <1>7 DEF StashInv

\* What a query reads through its indices is its window, as each position
\* of a live request is stashed.
LEMMA GatherWindow ==
    ASSUME PageTable, StashTypeOK, NEW r \in Req, NEW p \in Positions(r),
           \A q \in Positions(r) : Stashed(r, q)
    PROVE  Gather(Indices([row |-> r, pos |-> p])) =
              {[key |-> [row |-> r, pos |-> q], stale |-> FALSE]
                 : q \in {x \in 0..p : x > p - Window}}
<1> DEFINE t == [row |-> r, pos |-> p]
           W == {x \in 0..p : x > p - Window}
           slots == {x \in Indices(t) : x < cap /\ x \in valid}
           entry(q) == [key |-> [row |-> r, pos |-> q], stale |-> FALSE]
<1>1. Indices(t) = {reqToToken[r][q] : q \in W}
  BY DEF Indices
<1>2. ASSUME NEW q \in W
      PROVE  /\ reqToToken[r][q] \in slots
             /\ [key |-> buf[reqToToken[r][q]], stale |-> reqToToken[r][q] \in stale] = entry(q)
  <2>1. seqLen[r] \in Nat
    BY DEF PageTable, Types
  <2>2. q \in Positions(r)
    BY <2>1 DEF Positions
  <2>3. PICK s : s = reqToToken[r][q]
    OBVIOUS
  <2>4. s \in valid /\ s \notin stale /\ buf[s] = [row |-> r, pos |-> q]
    BY <2>2, <2>3 DEF Stashed
  <2>5. s < cap
    BY <2>4 DEF StashTypeOK
  <2>6. (s \in stale) = FALSE
    BY <2>4
  <2>7. s \in slots
    BY <1>1, <2>3, <2>4, <2>5
  <2> QED
    BY <2>3, <2>4, <2>6, <2>7
<1>3. \A s \in slots : \E q \in W : s = reqToToken[r][q]
  BY <1>1
<1>4. Gather(Indices(t)) = {[key |-> buf[s], stale |-> s \in stale] : s \in slots}
  BY DEF Gather
<1> HIDE DEF slots, W, entry
<1>5. {[key |-> buf[s], stale |-> s \in stale] : s \in slots} = {entry(q) : q \in W}
  BY <1>2, <1>3
<1> QED
  BY <1>4, <1>5 DEF W, entry

LEMMA AttendIndexedPreserves ==
    ASSUME PageTable, StashInv, AttendIndexed
    PROVE  StashInv'
<1>1. /\ pc = "attend" /\ pc' = "idle" /\ fb' = NoBatch
      /\ ctx' = {[row |-> t.row, pos |-> t.pos, dense |-> FALSE, keys |-> Gather(Indices(t))]
                   : t \in Tokens}
      /\ seqLen' = seqLen /\ reqToToken' = reqToToken
      /\ cap' = cap /\ buf' = buf /\ valid' = valid /\ stale' = stale
  BY DEF AttendIndexed
<1>2. BatchLive /\ StashTypeOK /\ \A r \in Req : \A p \in Positions(r) : Stashed(r, p)
  BY <1>1 DEF StashInv, StashHoldsLive
<1>3. StashTypeOK'
  BY <1>1, <1>2 DEF StashTypeOK
<1>4. BatchLive'
  BY <1>1 DEF BatchLive, NoBatch
<1>5. StashHoldsLive'
  BY <1>1, <1>2 DEF StashHoldsLive, Positions, Stashed
<1>6. GatherExact'
  <2> SUFFICES ASSUME NEW c \in ctx'
               PROVE  c.keys = {[key |-> [row |-> c.row, pos |-> p], stale |-> FALSE]
                                  : p \in {x \in 0..c.pos : x > c.pos - Window}}
    BY DEF GatherExact
  <2>1. PICK t \in Tokens :
           c = [row |-> t.row, pos |-> t.pos, dense |-> FALSE, keys |-> Gather(Indices(t))]
    BY <1>1
  <2>2. t.row \in Req /\ t.pos \in Positions(t.row) /\ t = [row |-> t.row, pos |-> t.pos]
    BY <1>2, TokenIsLive
  <2>3. Gather(Indices(t)) = {[key |-> [row |-> t.row, pos |-> p], stale |-> FALSE]
                                : p \in {x \in 0..t.pos : x > t.pos - Window}}
    BY <1>2, <2>2, GatherWindow, Zenon
  <2>4. c.row = t.row /\ c.pos = t.pos /\ c.keys = Gather(Indices(t))
    BY <2>1
  <2> QED
    BY <2>3, <2>4, Zenon
<1> QED
  BY <1>3, <1>4, <1>5, <1>6 DEF StashInv

LEMMA AttendDensePreserves ==
    ASSUME PageTable, StashInv, AttendDense
    PROVE  StashInv'
<1>1. /\ pc = "attend" /\ pc' = "idle" /\ fb' = NoBatch
      /\ \A c \in ctx' : c.dense
      /\ seqLen' = seqLen /\ reqToToken' = reqToToken
      /\ cap' = cap /\ buf' = buf /\ valid' = valid /\ stale' = stale
  BY DEF AttendDense
<1>2. BatchLive /\ StashTypeOK /\ \A r \in Req : \A p \in Positions(r) : Stashed(r, p)
  BY <1>1 DEF StashInv, StashHoldsLive
<1>3. StashTypeOK'
  BY <1>1, <1>2 DEF StashTypeOK
<1>4. BatchLive'
  BY <1>1 DEF BatchLive, NoBatch
<1>5. StashHoldsLive'
  BY <1>1, <1>2 DEF StashHoldsLive, Positions, Stashed
<1>6. GatherExact'
  BY <1>1 DEF GatherExact
<1> QED
  BY <1>3, <1>4, <1>5, <1>6 DEF StashInv

LEMMA EndPreserves ==
    ASSUME PageTable, StashInv, NEW x \in Req, End(x)
    PROVE  StashInv'
<1>1. /\ pc = "idle" /\ pc' = pc /\ fb' = fb /\ ctx' = {}
      /\ cap' = cap /\ buf' = buf /\ valid' = valid
      /\ stale' = stale \cup {reqToToken[x][p] : p \in 0..(seqLen[x] - 1)}
      /\ seqLen' = [seqLen EXCEPT ![x] = 0]
      /\ reqToToken' = [reqToToken EXCEPT ![x] = [p \in {} |-> 0]]
  BY DEF End, Release
<1>2. \A r \in Req : \A p \in Positions(r) : Stashed(r, p)
  BY <1>1 DEF StashInv, StashHoldsLive
<1>3. StashTypeOK'
  <2>1. stale \subseteq valid /\ \A p \in 0..(seqLen[x] - 1) : reqToToken[x][p] \in valid
    BY <1>2 DEF StashInv, StashTypeOK, Stashed, Positions
  <2>2. stale' \subseteq valid'
    BY <1>1, <2>1
  <2> QED
    BY <1>1, <2>2 DEF StashInv, StashTypeOK
<1>4. BatchLive'
  BY <1>1 DEF StashInv, BatchLive, NoBatch
<1>5. StashHoldsLive'
  <2> SUFFICES ASSUME NEW r \in Req, NEW p \in Positions(r)' PROVE Stashed(r, p)'
    BY DEF StashHoldsLive
  <2>1. seqLen \in [Req -> 0..MaxLen] /\ DOMAIN reqToToken = Req
    BY DEF PageTable, Types
  <2>2. r # x /\ p \in Positions(r) /\ reqToToken'[r] = reqToToken[r]
    BY <1>1, <2>1 DEF Positions
  <2>3. \A q \in 0..(seqLen[x] - 1) : reqToToken[x][q] # reqToToken[r][p]
    BY <2>2, ExclusiveSlots DEF NoSlotShared, Positions
  <2> QED
    BY <1>1, <1>2, <2>2, <2>3 DEF Stashed
<1>6. GatherExact'
  BY <1>1 DEF GatherExact
<1> QED
  BY <1>3, <1>4, <1>5, <1>6 DEF StashInv

-----------------------------------------------------------------------------
(* The theorems *)

LEMMA StashInitInv == StashInit => StashInv
<1> SUFFICES ASSUME StashInit PROVE StashInv
  OBVIOUS
<1>1. /\ cap = 0 /\ buf = [s \in {} |-> ZeroKey] /\ valid = {} /\ stale = {}
      /\ fb = NoBatch /\ pc = "idle" /\ ctx = {}
      /\ seqLen = [r \in Req |-> 0]
  BY DEF StashInit, Init
<1>2. StashTypeOK
  BY <1>1 DEF StashTypeOK
<1>3. BatchLive
  BY <1>1 DEF BatchLive, NoBatch
<1>4. StashHoldsLive
  <2>1. ASSUME NEW r \in Req PROVE Positions(r) = {}
    <3>1. seqLen[r] = 0
      BY <1>1
    <3> QED
      BY <3>1 DEF Positions
  <2> QED
    BY <2>1 DEF StashHoldsLive
<1>5. GatherExact
  BY <1>1 DEF GatherExact
<1> QED
  BY <1>2, <1>3, <1>4, <1>5 DEF StashInv

\* The stash runs the allocator: a forward pass starts with one of its kernel
\* calls, a request that ends is released, and no other step touches it.
THEOREM StashRunsAllocator == StashSpec => Spec
<1>1. StashInit => Init
  BY DEF StashInit
<1>2. [StashNext]_<<vars, stashVars>> => [Next]_vars
  <2> SUFFICES ASSUME [StashNext]_<<vars, stashVars>> PROVE [Next]_vars
    OBVIOUS
  <2>1. CASE \E n \in 1..MaxBatch : \E batch \in Batches(n), target \in [1..n -> 1..MaxLen] :
                Begin(n, batch, target)
    BY <2>1 DEF Begin, Next
  <2>2. CASE Write
    BY <2>2 DEF Write, vars
  <2>3. CASE AttendIndexed
    BY <2>3 DEF AttendIndexed, vars
  <2>4. CASE AttendDense
    BY <2>4 DEF AttendDense, vars
  <2>5. CASE \E r \in Req : End(r)
    BY <2>5 DEF End, Next
  <2>6. CASE UNCHANGED <<vars, stashVars>>
    BY <2>6
  <2> QED
    BY <2>1, <2>2, <2>3, <2>4, <2>5, <2>6 DEF StashNext
<1> QED
  BY <1>1, <1>2, PTL DEF StashSpec, Spec

\* Whatever growths, writes and ended requests came before, the stash is well
\* formed, holds each live position's own key, and a query with indices reads
\* its own window.
THEOREM StashInvariant == StashSpec => []StashInv
<1>1. StashInit => StashInv
  BY StashInitInv
<1>2. PageTable /\ StashInv /\ [StashNext]_<<vars, stashVars>> => StashInv'
  <2> SUFFICES ASSUME PageTable, StashInv, [StashNext]_<<vars, stashVars>> PROVE StashInv'
    OBVIOUS
  <2>1. ASSUME NEW n \in 1..MaxBatch, NEW batch \in Batches(n),
               NEW target \in [1..n -> 1..MaxLen], Begin(n, batch, target)
        PROVE  StashInv'
    BY <2>1, BeginPreserves
  <2>2. CASE Write
    BY <2>2, WritePreserves
  <2>3. CASE AttendIndexed
    BY <2>3, AttendIndexedPreserves
  <2>4. CASE AttendDense
    BY <2>4, AttendDensePreserves
  <2>5. ASSUME NEW r \in Req, End(r) PROVE StashInv'
    BY <2>5, EndPreserves
  <2>6. CASE UNCHANGED <<vars, stashVars>>
    <3>1. /\ seqLen' = seqLen /\ reqToToken' = reqToToken /\ cap' = cap /\ buf' = buf
          /\ valid' = valid /\ stale' = stale /\ fb' = fb /\ pc' = pc /\ ctx' = ctx
      BY <2>6 DEF vars, stashVars
    <3>2. Tokens' = Tokens
      BY <3>1 DEF Tokens
    <3>3. StashTypeOK'
      BY <3>1 DEF StashInv, StashTypeOK
    <3>4. BatchLive'
      BY <3>1 DEF StashInv, BatchLive
    <3>5. StashHoldsLive'
      BY <3>1, <3>2 DEF StashInv, StashHoldsLive, Positions, Stashed
    <3>6. GatherExact'
      BY <3>1 DEF StashInv, GatherExact
    <3> QED
      BY <3>3, <3>4, <3>5, <3>6 DEF StashInv
  <2> QED
    BY <2>1, <2>2, <2>3, <2>4, <2>5, <2>6 DEF StashNext
<1>3. Spec => []PageTable
  BY PageTableInvariant
<1> QED
  BY <1>1, <1>2, <1>3, StashRunsAllocator, PTL DEF StashSpec

\* The marked slots are always inside the buffer, and those whose writer has
\* ended among them.
THEOREM StashTypeCorrect == StashSpec => []StashTypeOK
<1>1. StashInv => StashTypeOK
  BY DEF StashInv
<1> QED
  BY <1>1, StashInvariant, PTL

\* A live position keeps its own key in its own slot, for every capacity the
\* buffer starts from and every sequence of batches and ended requests.
THEOREM LiveKeysAreHeld == StashSpec => []StashHoldsLive
<1>1. StashInv => StashHoldsLive
  BY DEF StashInv
<1> QED
  BY <1>1, StashInvariant, PTL

\* Gathering by slot gives a query the keys of its window, all of them and
\* none of another request's or of an ended one's.
THEOREM IndexedAttentionExact == StashSpec => []GatherExact
<1>1. StashInv => GatherExact
  BY DEF StashInv
<1> QED
  BY <1>1, StashInvariant, PTL

\* The buffer never shrinks, no slot is ever unmarked, and a key changes only
\* by a write to its slot: growing the buffer loses nothing.
THEOREM WritesAreLocal == StashSpec => WriteIsLocal
<1> DEFINE Local ==
      [ /\ cap' >= cap
        /\ valid \subseteq valid'
        /\ \A s \in valid : buf'[s] # buf[s] => pc = "write" /\ s \in OutLoc ]_stashVars
<1>1. PageTable /\ StashInv /\ [StashNext]_<<vars, stashVars>> => Local
  <2> SUFFICES ASSUME PageTable, StashInv, [StashNext]_<<vars, stashVars>> PROVE Local
    OBVIOUS
  <2>1. cap \in Nat /\ valid \subseteq 0..(cap - 1) /\ BatchLive /\ StashTypeOK
    BY DEF StashInv, StashTypeOK
  <2>2. CASE Write
    <3>1. pc = "write" /\ StashWrite
      BY <2>2 DEF Write
    <3>2. /\ cap' \in Nat /\ cap <= cap'
          /\ \A s \in 0..(cap - 1) : s \notin OutLoc => buf'[s] = buf[s]
          /\ valid' = valid \cup OutLoc
      BY <2>1, <3>1, Grown
    <3> QED
      BY <2>1, <3>1, <3>2
  <2>3. CASE cap' = cap /\ buf' = buf /\ valid' = valid
    BY <2>1, <2>3
  <2>4. ASSUME ~Write PROVE (cap' = cap /\ buf' = buf /\ valid' = valid)
    BY <2>4 DEF StashNext, Begin, AttendIndexed, AttendDense, End, stashVars
  <2> QED
    BY <2>2, <2>3, <2>4
<1>2. Spec => []PageTable
  BY PageTableInvariant
<1> QED
  BY <1>1, <1>2, StashInvariant, StashRunsAllocator, PTL DEF StashSpec, WriteIsLocal

\* The stash holds what lives, and the gather reads it and nothing else, for
\* every pool, batch, window and first capacity (the stash's write and the
\* attention with indices).
THEOREM StashIsExact == StashSpec => []StashExact
<1>1. StashTypeOK /\ StashHoldsLive /\ GatherExact => StashExact
  BY DEF StashExact
<1> QED
  BY StashTypeCorrect, LiveKeysAreHeld, IndexedAttentionExact, <1>1, PTL

-----------------------------------------------------------------------------
(* One request alone *)

\* A set that a function of 0..L-1 counts has L elements.
LEMMA CountedBy ==
    ASSUME NEW a \in Nat, NEW L \in Nat, a <= L, NEW f, NEW V,
           \A q \in a..(L - 1) : f[q] \in V,
           \A v \in V : \E q \in a..(L - 1) : v = f[q],
           \A p, q \in a..(L - 1) : f[p] = f[q] => p = q
    PROVE  Cardinality(V) = L - a
<1> DEFINE D == a..(L - 1)
           g == [q \in D |-> f[q]]
<1>1. IsFiniteSet(D) /\ Cardinality(D) = L - a
  BY FS_Interval
<1>2. g \in Bijection(D, V)
  <2> HIDE DEF D
  <2>1. g \in [D -> V] /\ \A p, q \in D : g[p] = g[q] => p = q
    BY DEF D
  <2>2. \A v \in V : \E q \in D : g[q] = v
    BY DEF D
  <2> QED
    BY <2>1, <2>2 DEF Bijection, Injection, Surjection, IsInjective
<1>3. ExistsBijection(D, V)
  BY <1>2 DEF ExistsBijection
<1> HIDE DEF D
<1> QED
  BY <1>1, <1>3, FS_Bijection

\* The members of V below b.
LowerIn(V, b) == {x \in V : x < b}

\* In a set that an increasing function counts, f[q] is preceded by q others.
LEMMA RankIsPosition ==
    ASSUME NEW L \in Nat, NEW f, NEW V,
           \A q \in 0..(L - 1) : f[q] \in V /\ f[q] \in Nat,
           \A v \in V : \E q \in 0..(L - 1) : v = f[q],
           \A p, q \in 0..(L - 1) : p < q => f[p] < f[q],
           NEW q \in 0..(L - 1)
    PROVE  Cardinality(LowerIn(V, f[q])) = q
<1> DEFINE U == {x \in V : x < f[q]}
<1>1. \A p \in 0..(q - 1) : f[p] \in U
  <2> SUFFICES ASSUME NEW p \in 0..(q - 1) PROVE f[p] \in U
    OBVIOUS
  <2>1. p \in 0..(L - 1) /\ p < q
    OBVIOUS
  <2>2. f[p] < f[q] /\ f[p] \in V
    BY <2>1
  <2> QED
    BY <2>2
<1>2. \A x \in U : \E p \in 0..(q - 1) : x = f[p]
  <2> SUFFICES ASSUME NEW x \in U PROVE \E p \in 0..(q - 1) : x = f[p]
    OBVIOUS
  <2>1. PICK p \in 0..(L - 1) : x = f[p]
    OBVIOUS
  <2>2. f[p] < f[q]
    BY <2>1
  <2>3. ~(q < p) /\ p # q
    <3>1. ASSUME q < p PROVE FALSE
      <4>1. f[q] < f[p] /\ f[p] \in Nat /\ f[q] \in Nat
        BY <3>1
      <4> QED
        BY <4>1, <2>2
    <3>2. f[q] \in Nat
      OBVIOUS
    <3>3. p # q
      BY <2>2, <3>2
    <3> QED
      BY <3>1, <3>3
  <2>4. p \in 0..(q - 1)
    BY <2>3
  <2> QED
    BY <2>1, <2>4
<1>3. \A p, s \in 0..(q - 1) : f[p] = f[s] => p = s
  <2> SUFFICES ASSUME NEW p \in 0..(q - 1), NEW s \in 0..(q - 1), f[p] = f[s] PROVE p = s
    OBVIOUS
  <2>1. p \in 0..(L - 1) /\ s \in 0..(L - 1)
    OBVIOUS
  <2>2. f[p] \in Nat /\ (p < s => f[p] < f[s]) /\ (s < p => f[s] < f[p])
    BY <2>1
  <2>3. ~(p < s) /\ ~(s < p)
    BY <2>2
  <2> QED
    BY <2>1, <2>3
<1> HIDE DEF U
<1>4. Cardinality(U) = q - 0
  <2>1. q \in Nat /\ 0 \in Nat /\ 0 <= q
    OBVIOUS
  <2> QED
    BY <1>1, <1>2, <1>3, <2>1, CountedBy, Zenon
<1> QED
  BY <1>4 DEF U, LowerIn

\* A batch whose request owns every marked slot is that request alone.
LEMMA AloneInBatch ==
    ASSUME PageTable, BatchLive, RowsDiffer, NEW i \in 1..fb.n,
           OnlyRequest(fb.row[i]),
           \A r \in Req : \A p \in Positions(r) : Stashed(r, p)
    PROVE  i = 1 /\ fb.n = 1
<1>1. ASSUME NEW j \in 1..fb.n PROVE fb.row[j] = fb.row[i]
  <2>1. /\ fb.row[j] \in Req /\ fb.start[j] \in Nat /\ fb.stop[j] = seqLen[fb.row[j]]
        /\ fb.start[j] < fb.stop[j] /\ fb.row[i] \in Req
    BY DEF BatchLive
  <2>2. seqLen[fb.row[j]] \in Nat
    BY <2>1 DEF PageTable, Types
  <2>3. 0 \in Positions(fb.row[j])
    BY <2>1, <2>2 DEF Positions
  <2>4. reqToToken[fb.row[j]][0] \in valid
    BY <2>1, <2>3 DEF Stashed
  <2>5. PICK p \in Positions(fb.row[i]) : reqToToken[fb.row[j]][0] = reqToToken[fb.row[i]][p]
    BY <2>4 DEF OnlyRequest
  <2> QED
    BY <2>1, <2>3, <2>5, ExclusiveSlots DEF NoSlotShared
<1>2. \A j \in 1..fb.n : j = i
  BY <1>1 DEF RowsDiffer
<1>3. fb.n \in Nat
  BY DEF BatchLive
<1>4. 1 \in 1..fb.n /\ fb.n \in 1..fb.n
  BY <1>3
<1> QED
  BY <1>2, <1>4

\* The slots the causal window picks for its query are then those of the
\* positions in it.
LEMMA DenseIsIndexed ==
    ASSUME PageTable, BatchLive, RowsDiffer, NEW i \in 1..fb.n,
           NEW p \in fb.start[i]..(fb.stop[i] - 1), OnlyRequest(fb.row[i]),
           \A r \in Req : \A q \in Positions(r) : Stashed(r, q)
    PROVE  DenseSlots(QueryAt(i, p)) = Indices([row |-> fb.row[i], pos |-> p])
<1>1. i = 1 /\ fb.n = 1
  BY AloneInBatch
<1>2. PICK r \in Req : r = fb.row[1]
  BY <1>1 DEF BatchLive
<1>3. PICK a \in Nat : a = fb.start[1]
  BY <1>1 DEF BatchLive
<1>4. PICK L \in Nat : L = seqLen[r] /\ L = fb.stop[1] /\ a < L
  <2>1. seqLen[r] \in Nat
    BY DEF PageTable, Types
  <2> QED
    BY <1>1, <1>2, <1>3, <2>1 DEF BatchLive
<1>5. PICK f : f = reqToToken[r]
  OBVIOUS
<1>6. p \in a..(L - 1)
  BY <1>1, <1>3, <1>4
<1>7. /\ \A q \in 0..(L - 1) : f[q] \in valid /\ f[q] \in Nat
      /\ \A v \in valid : \E q \in 0..(L - 1) : v = f[q]
      /\ \A x, y \in 0..(L - 1) : x < y => f[x] < f[y]
  <2>1. Positions(r) = 0..(L - 1)
    BY <1>4 DEF Positions
  <2>2. OnlyRequest(r)
    BY <1>1, <1>2
  <2>3. \A q \in 0..(L - 1) : f[q] \in PoolSlot
    BY <1>5, <2>1, SlotInPool
  <2>4. PoolSlot \subseteq Nat
    <3>1. NumPages * PageSize \in Nat /\ PageSize \in Nat
      BY PagedAllocAssumption
    <3> QED
      BY <3>1 DEF PoolSlot
  <2> QED
    BY <1>5, <2>1, <2>2, <2>3, <2>4 DEF OnlyRequest
<1>8. \A q \in 0..(L - 1) : Cardinality({x \in valid : x < f[q]}) = q
  <2>1. SUFFICES ASSUME NEW q \in 0..(L - 1)
                 PROVE  Cardinality({x \in valid : x < f[q]}) = q
    OBVIOUS
  <2>2. \A x \in 0..(L - 1) : f[x] \in valid /\ f[x] \in Nat
    BY <1>7
  <2>3. \A v \in valid : \E x \in 0..(L - 1) : v = f[x]
    BY <1>7
  <2>4. \A x, y \in 0..(L - 1) : x < y => f[x] < f[y]
    BY <1>7
  <2>5. Cardinality(LowerIn(valid, f[q])) = q
    BY <1>4, <2>1, <2>2, <2>3, <2>4, RankIsPosition, ZenonT(30)
  <2> QED
    BY <2>5 DEF LowerIn
<1>9. Cardinality(valid) = L
  <2>1. \A x, y \in 0..(L - 1) : f[x] = f[y] => x = y
    BY <1>7
  <2>2. Cardinality(valid) = L - 0
    <3>1. 0 \in Nat /\ 0 <= L
      OBVIOUS
    <3>2. \A q \in 0..(L - 1) : f[q] \in valid
      BY <1>7
    <3>3. \A v \in valid : \E q \in 0..(L - 1) : v = f[q]
      BY <1>7
    <3> QED
      BY <2>1, <3>1, <3>2, <3>3, CountedBy, Zenon
  <2> QED
    BY <2>2
<1>10. Cardinality(Tokens) = L - a
  <2> DEFINE tok == [q \in a..(L - 1) |-> [row |-> r, pos |-> q]]
  <2>1. Tokens = {[row |-> r, pos |-> q] : q \in a..(L - 1)}
    <3>1. \A j : j \in 1..fb.n <=> j = 1
      BY <1>1
    <3>2. Tokens = {[row |-> fb.row[1], pos |-> q] : q \in fb.start[1]..(fb.stop[1] - 1)}
      BY <3>1 DEF Tokens
    <3> QED
      BY <1>2, <1>3, <1>4, <3>2
  <2>2. \A q \in a..(L - 1) : tok[q] \in Tokens
    BY <2>1
  <2>3. \A t \in Tokens : \E q \in a..(L - 1) : t = tok[q]
    BY <2>1
  <2>4. \A x, y \in a..(L - 1) : tok[x] = tok[y] => x = y
    <3> SUFFICES ASSUME NEW x \in a..(L - 1), NEW y \in a..(L - 1), tok[x] = tok[y]
                 PROVE  x = y
      OBVIOUS
    <3>1. tok[x].pos = x /\ tok[y].pos = y
      OBVIOUS
    <3> QED
      BY <3>1
  <2> HIDE DEF tok
  <2>5. a <= L
    BY <1>4
  <2> QED
    BY <2>2, <2>3, <2>4, <2>5, CountedBy, Zenon
<1>11. QueryAt(1, p) = p - a
  <2>1. UNION {{<<j, x>> : x \in fb.start[j]..(fb.stop[j] - 1)} : j \in 1..(1 - 1)} = {}
    <3>1. 1..(1 - 1) = {}
      OBVIOUS
    <3> QED
      BY <3>1
  <2>2. Cardinality({}) = 0
    BY FS_EmptySet
  <2>3. QueryAt(1, p) = Cardinality({}) + (p - fb.start[1])
    BY <2>1, Zenon DEF QueryAt
  <2> QED
    BY <1>3, <1>6, <2>2, <2>3
<1>12. DenseSlots(QueryAt(1, p)) =
         {s \in valid : /\ Cardinality({x \in valid : x < s}) <= p
                        /\ Cardinality({x \in valid : x < s}) > p - Window}
  <2>1. Cardinality(valid) - (Cardinality(Tokens) - 1) + QueryAt(1, p) - 1 = p
    BY <1>4, <1>6, <1>9, <1>10, <1>11
  <2> QED
    BY <2>1 DEF DenseSlots
<1>13. Indices([row |-> r, pos |-> p]) = {f[q] : q \in {x \in 0..p : x > p - Window}}
  BY <1>5 DEF Indices
<1>14. ASSUME NEW s
       PROVE  s \in DenseSlots(QueryAt(1, p)) <=> s \in Indices([row |-> r, pos |-> p])
  <2>1. ASSUME s \in DenseSlots(QueryAt(1, p)) PROVE s \in Indices([row |-> r, pos |-> p])
    <3>1. s \in valid
      BY <1>12, <2>1
    <3>2. PICK q \in 0..(L - 1) : s = f[q]
      BY <1>7, <3>1
    <3>3. q <= p /\ q > p - Window
      <4>1. Cardinality({x \in valid : x < s}) = q
        BY <1>8, <3>2
      <4> QED
        BY <1>12, <2>1, <4>1
    <3> QED
      BY <1>6, <1>13, <3>2, <3>3
  <2>2. ASSUME s \in Indices([row |-> r, pos |-> p]) PROVE s \in DenseSlots(QueryAt(1, p))
    <3>1. PICK q \in 0..p : q > p - Window /\ s = f[q]
      BY <1>13, <2>2
    <3>2. q \in 0..(L - 1)
      BY <1>6
    <3>3. s \in valid /\ Cardinality({x \in valid : x < s}) = q
      BY <1>7, <1>8, <3>1, <3>2
    <3>4. q <= p
      BY <1>6
    <3> QED
      BY <1>12, <3>1, <3>3, <3>4
  <2> QED
    BY <2>1, <2>2
<1>15. DenseSlots(QueryAt(1, p)) = Indices([row |-> r, pos |-> p])
  BY <1>14, Zenon
<1> QED
  BY <1>1, <1>2, <1>15, Zenon

\* What the invariant says besides: rows of a batch differ, nothing has been
\* read before the batch is attended.
AloneInv == RowsDiffer /\ NothingRead /\ DenseAloneExact

LEMMA AttendDenseAlone ==
    ASSUME PageTable, StashInv, RowsDiffer, AttendDense
    PROVE  DenseAloneExact'
<1>1. /\ pc = "attend" /\ fb' = NoBatch
      /\ ctx' = UNION {{[row |-> fb.row[i], pos |-> p, dense |-> TRUE,
                         keys |-> Gather(DenseSlots(QueryAt(i, p)))]
                          : p \in fb.start[i]..(fb.stop[i] - 1)} : i \in 1..fb.n}
      /\ seqLen' = seqLen /\ reqToToken' = reqToToken /\ valid' = valid
  BY DEF AttendDense
<1>2. BatchLive /\ StashTypeOK /\ \A r \in Req : \A p \in Positions(r) : Stashed(r, p)
  BY <1>1 DEF StashInv, StashHoldsLive
<1> SUFFICES ASSUME NEW c \in ctx', OnlyRequest(c.row)'
             PROVE  c.keys = {[key |-> [row |-> c.row, pos |-> p], stale |-> FALSE]
                                : p \in {x \in 0..c.pos : x > c.pos - Window}}
  BY DEF DenseAloneExact
<1>3. PICK i \in 1..fb.n : \E p \in fb.start[i]..(fb.stop[i] - 1) :
         c = [row |-> fb.row[i], pos |-> p, dense |-> TRUE,
              keys |-> Gather(DenseSlots(QueryAt(i, p)))]
  BY <1>1
<1>4. PICK p \in fb.start[i]..(fb.stop[i] - 1) :
         c = [row |-> fb.row[i], pos |-> p, dense |-> TRUE,
              keys |-> Gather(DenseSlots(QueryAt(i, p)))]
  BY <1>3
<1>5. c.row = fb.row[i] /\ c.pos = p /\ c.keys = Gather(DenseSlots(QueryAt(i, p)))
  BY <1>4
<1>6. PICK r \in Req : r = fb.row[i] /\ p \in Positions(r)
  <2>1. fb.row[i] \in Req /\ fb.start[i] \in Nat /\ fb.stop[i] = seqLen[fb.row[i]]
    BY <1>2 DEF BatchLive
  <2>2. seqLen[fb.row[i]] \in Nat
    BY <2>1 DEF PageTable, Types
  <2> QED
    BY <2>1, <2>2 DEF Positions
<1>7. OnlyRequest(fb.row[i])
  BY <1>1, <1>5 DEF OnlyRequest, Positions
<1>8. DenseSlots(QueryAt(i, p)) = Indices([row |-> r, pos |-> p])
  BY <1>2, <1>6, <1>7, DenseIsIndexed
<1>9. Gather(Indices([row |-> r, pos |-> p])) =
         {[key |-> [row |-> r, pos |-> q], stale |-> FALSE]
            : q \in {x \in 0..p : x > p - Window}}
  BY <1>2, <1>6, GatherWindow, Zenon
<1>10. c.row = r /\ c.pos = p /\ c.keys = Gather(Indices([row |-> r, pos |-> p]))
  BY <1>5, <1>6, <1>8, Zenon
<1> QED
  BY <1>9, <1>10, Zenon

\* A request that has had the pool to itself reads its own window without
\* indices too, in prefill, in each chunk and in decode: the marked slots then
\* stand for its positions, whatever the window and the sizes of the chunks.
THEOREM DenseAloneIsExact == StashSpec => []DenseAloneExact
<1>1. StashInit => AloneInv
  BY DEF StashInit, NoBatch, AloneInv, RowsDiffer, NothingRead, DenseAloneExact
<1>2. PageTable /\ StashInv /\ AloneInv /\ [StashNext]_<<vars, stashVars>> => AloneInv'
  <2> SUFFICES ASSUME PageTable, StashInv, AloneInv, [StashNext]_<<vars, stashVars>>
               PROVE  AloneInv'
    OBVIOUS
  <2> USE DEF AloneInv
  <2>1. ASSUME NEW n \in 1..MaxBatch, NEW batch \in Batches(n),
               NEW target \in [1..n -> 1..MaxLen], Begin(n, batch, target)
        PROVE  AloneInv'
    <3>1. ctx' = {} /\ fb'.n = n /\ fb'.row = batch
      BY <2>1 DEF Begin
    <3>2. RowsDiffer'
      BY <3>1 DEF RowsDiffer, Batches
    <3> QED
      BY <3>1, <3>2 DEF NothingRead, DenseAloneExact
  <2>2. CASE Write
    <3>1. pc = "write" /\ ctx' = ctx /\ fb' = fb
      BY <2>2 DEF Write
    <3> QED
      BY <3>1 DEF RowsDiffer, NothingRead, DenseAloneExact
  <2>3. CASE AttendIndexed
    <3>1. pc' = "idle" /\ fb' = NoBatch /\ \A c \in ctx' : ~c.dense
      BY <2>3 DEF AttendIndexed
    <3>2. RowsDiffer'
      BY <3>1 DEF RowsDiffer, NoBatch
    <3> QED
      BY <3>1, <3>2 DEF NothingRead, DenseAloneExact
  <2>4. CASE AttendDense
    <3>1. pc' = "idle" /\ fb' = NoBatch
      BY <2>4 DEF AttendDense
    <3>2. RowsDiffer'
      BY <3>1 DEF RowsDiffer, NoBatch
    <3>3. DenseAloneExact'
      BY <2>4, AttendDenseAlone
    <3> QED
      BY <3>1, <3>2, <3>3 DEF NothingRead
  <2>5. ASSUME NEW r \in Req, End(r) PROVE AloneInv'
    <3>1. ctx' = {} /\ fb' = fb
      BY <2>5 DEF End
    <3> QED
      BY <3>1 DEF RowsDiffer, NothingRead, DenseAloneExact
  <2>6. CASE UNCHANGED <<vars, stashVars>>
    <3>1. /\ seqLen' = seqLen /\ reqToToken' = reqToToken
          /\ valid' = valid /\ fb' = fb /\ pc' = pc /\ ctx' = ctx
      BY <2>6 DEF vars, stashVars
    <3> QED
      BY <3>1 DEF RowsDiffer, NothingRead, DenseAloneExact, OnlyRequest, Positions
  <2> QED
    BY <2>1, <2>2, <2>3, <2>4, <2>5, <2>6 DEF StashNext
<1>3. Spec => []PageTable
  BY PageTableInvariant
<1>4. AloneInv => DenseAloneExact
  BY DEF AloneInv
<1> QED
  BY <1>1, <1>2, <1>3, <1>4, StashInvariant, StashRunsAllocator, PTL DEF StashSpec

=============================================================================
