----------------------------- MODULE PagedAlloc -----------------------------
(***************************************************************************)
(* The paged KV allocator as it runs on CPU.  The plugin replaces the two  *)
(* Triton kernels of sglang's paged allocator by torch ports               *)
(* (_cpu_alloc_extend_kernel, _cpu_alloc_decode_kernel); the allocator     *)
(* class around them (free list, req_to_token table, release of a finished *)
(* request) is sglang's and is modelled only from how the kernels are      *)
(* called.                                                                 *)
(*                                                                         *)
(* A slot is an integer, page * PageSize + offset.  A kernel call serves a *)
(* batch: each row is a request whose length grows from pre_len to seq_len *)
(* and the rows share one array free_pages, row i starting at index        *)
(* new_page_start[i], the exclusive prefix sum of the rows' page counts.   *)
(***************************************************************************)
EXTENDS Integers

CONSTANTS
    Req,       \* rows of req_to_token, one per running request
    PageSize,  \* page_size (256 for DSV4)
    NumPages,  \* pages of the pool; page 0 is never handed out
    MaxLen,    \* bound: longest sequence considered
    MaxBatch   \* bound: most requests in one kernel call

ASSUME PagedAllocAssumption ==
    /\ PageSize \in Nat \ {0}
    /\ NumPages \in Nat \ {0}
    /\ MaxLen   \in Nat \ {0}
    /\ MaxBatch \in Nat \ {0}

VARIABLES
    free,        \* the pages of free_pages (the array's order is the call's)
    seqLen,      \* seqLen[r]: tokens of r that own a slot
    reqToToken   \* reqToToken[r][p]: the slot of position p of r

vars == <<free, seqLen, reqToToken>>

Page == 1..NumPages

-----------------------------------------------------------------------------
(* Index arithmetic shared by the two kernels. *)

CeilDiv(n) == (n + PageSize - 1) \div PageSize

\* Mutant: one page for the last token even when it fills its page exactly.
NumNewPagesFloor(pre, seq) == (seq \div PageSize + 1) - CeilDiv(pre)

NumNewPages(pre, seq) == CeilDiv(seq) - CeilDiv(pre)

\* get_last_loc_torch: the slot of the last token that has one.
LastLoc(r) == IF seqLen[r] = 0 THEN -1 ELSE reqToToken[r][seqLen[r] - 1]

\* new_page_start = cumsum(num_new_pages) - num_new_pages, with the total
\* added at the end.
IsNewPageStart(start, n, batch, target) ==
    /\ start[1] = 0
    /\ \A i \in 1..n :
          start[i + 1] = start[i] + NumNewPages(seqLen[batch[i]], target[i])

\* Mutant: the old page is refilled from the last slot instead of behind it.
ExtendRowNoSuccessor(pre, seq, lastLoc, pages, nps) ==
    LET oldEnd  == CeilDiv(pre) * PageSize
    IN  [p \in pre..(seq - 1) |->
            IF p < oldEnd
            THEN lastLoc + (p - pre)
            ELSE pages[nps + (p - oldEnd) \div PageSize] * PageSize
                    + ((p - oldEnd) % PageSize)]

\* Mutant: the new partial page is the row's first page, not its last.
ExtendRowFirstPage(pre, seq, lastLoc, pages, nps) ==
    LET oldEnd  == CeilDiv(pre) * PageSize
        fullEnd == (seq \div PageSize) * PageSize
    IN  [p \in pre..(seq - 1) |->
            IF p < oldEnd
            THEN lastLoc + 1 + (p - pre)
            ELSE IF p < fullEnd
            THEN pages[nps + (p - oldEnd) \div PageSize] * PageSize
                    + ((p - oldEnd) % PageSize)
            ELSE pages[nps] * PageSize + (p - fullEnd)]

(* One row of alloc_extend: fill the old partial page, then the new full   *)
(* pages, then the new partial page.                                       *)
ExtendRow(pre, seq, lastLoc, pages, nps) ==
    LET oldEnd  == CeilDiv(pre) * PageSize
        fullEnd == (seq \div PageSize) * PageSize
    IN  [p \in pre..(seq - 1) |->
            IF p < oldEnd
            THEN lastLoc + 1 + (p - pre)
            ELSE IF p < fullEnd
            THEN pages[nps + (p - oldEnd) \div PageSize] * PageSize
                    + ((p - oldEnd) % PageSize)
            ELSE pages[nps + NumNewPages(pre, seq) - 1] * PageSize
                    + (p - fullEnd)]

\* Mutant: no new page when the last one is full.
DecodeRowSamePage(pre, seq, lastLoc, pages, nps) ==
    [p \in pre..(seq - 1) |-> lastLoc + 1]

(* One row of alloc_decode: the token after the last one, or the first     *)
(* slot of a new page.                                                     *)
DecodeRow(pre, seq, lastLoc, pages, nps) ==
    [p \in pre..(seq - 1) |->
        IF NumNewPages(pre, seq) = 0 THEN lastLoc + 1
                                     ELSE pages[nps] * PageSize]

-----------------------------------------------------------------------------
(* The caller.  free_pages[0 .. k-1] are distinct free pages, in an order  *)
(* the allocator chooses; a batch of n names n different requests.         *)
FreePages(k) ==
    {a \in [0..(k - 1) -> free] : \A i, j \in 0..(k - 1) : a[i] = a[j] => i = j}

Batches(n) ==
    {b \in [1..n -> Req] : \A i, j \in 1..n : b[i] = b[j] => i = j}

\* Write the rows' slots behind each request's prefix and take the pages.
Commit(n, batch, target, rows, taken) ==
    LET served == {batch[i] : i \in 1..n}
        row(r) == CHOOSE i \in 1..n : batch[i] = r
    IN  /\ seqLen' = [r \in Req |->
                IF r \in served THEN target[row(r)] ELSE seqLen[r]]
        /\ reqToToken' = [r \in Req |->
                IF r \in served
                THEN [p \in 0..(target[row(r)] - 1) |->
                        IF p < seqLen[r] THEN reqToToken[r][p]
                                         ELSE rows[row(r)][p]]
                ELSE reqToToken[r]]
        /\ free' = free \ taken

(* alloc_extend: a prefill, or the next chunk of a chunked prefill.        *)
AllocExtend(n, batch, target) ==
    /\ \A i \in 1..n : target[i] > seqLen[batch[i]]
    /\ \E start \in [1..(n + 1) -> 0..NumPages] :
        /\ IsNewPageStart(start, n, batch, target)
        /\ \E pages \in FreePages(start[n + 1]) :
            Commit(n, batch, target,
                   [i \in 1..n |-> ExtendRow(seqLen[batch[i]], target[i],
                                             LastLoc(batch[i]), pages, start[i])],
                   {pages[j] : j \in 0..(start[n + 1] - 1)})

(* alloc_decode: one more token for each request of a running batch.       *)
AllocDecode(n, batch, target) ==
    /\ \A i \in 1..n : seqLen[batch[i]] > 0 /\ target[i] = seqLen[batch[i]] + 1
    /\ \E start \in [1..(n + 1) -> 0..NumPages] :
        /\ IsNewPageStart(start, n, batch, target)
        /\ \E pages \in FreePages(start[n + 1]) :
            Commit(n, batch, target,
                   [i \in 1..n |-> DecodeRow(seqLen[batch[i]], target[i],
                                             LastLoc(batch[i]), pages, start[i])],
                   {pages[j] : j \in 0..(start[n + 1] - 1)})

(* A finished (or retracted) request gives back the pages of its slots and *)
(* its row of req_to_token can serve another one.                          *)
PagesOf(r) == {reqToToken[r][p] \div PageSize : p \in 0..(seqLen[r] - 1)}

Release(r) ==
    /\ seqLen[r] > 0
    /\ free' = free \cup PagesOf(r)
    /\ seqLen' = [seqLen EXCEPT ![r] = 0]
    /\ reqToToken' = [reqToToken EXCEPT ![r] = [p \in {} |-> 0]]

-----------------------------------------------------------------------------
Init ==
    /\ free = Page
    /\ seqLen = [r \in Req |-> 0]
    /\ reqToToken = [r \in Req |-> [p \in {} |-> 0]]

Next ==
    \/ \E n \in 1..MaxBatch : \E batch \in Batches(n), target \in [1..n -> 1..MaxLen] :
          \/ AllocExtend(n, batch, target)
          \/ AllocDecode(n, batch, target)
    \/ \E r \in Req : Release(r)

Spec == Init /\ [][Next]_vars

-----------------------------------------------------------------------------
(* Properties. *)

Positions(r) == 0..(seqLen[r] - 1)

PageOf(r, p) == reqToToken[r][p] \div PageSize

\* The KV buffers have (NumPages + 1) * PageSize entries and page 0 is never
\* handed out.
PoolSlot == PageSize..(NumPages * PageSize + PageSize - 1)

\* Each variable has its type, every row has exactly seqLen entries, and
\* every entry is a slot of the pool: no batch computes an index past it.
TypeOK ==
    /\ free \subseteq Page
    /\ seqLen \in [Req -> 0..MaxLen]
    /\ DOMAIN reqToToken = Req
    /\ \A r \in Req : reqToToken[r] \in [Positions(r) -> PoolSlot]

\* No two live positions, of one request or of two, are given the same slot:
\* what the kernels' index arithmetic must guarantee for every batch, every
\* page boundary and every order of the free list, else one request's KV
\* overwrites another's.
NoSlotShared ==
    \A r, s \in Req : \A p \in Positions(r), q \in Positions(s) :
        reqToToken[r][p] = reqToToken[s][q] => r = s /\ p = q

\* Position p sits at offset p % page_size of its page, and the positions of
\* one logical block sit in one physical page: the attention metadata
\* rebuilds a slot from a page table under exactly this assumption (the
\* c4/c128 locations are raw_out_loc // ratio).
PageAligned ==
    \A r \in Req : \A p, q \in Positions(r) :
        /\ reqToToken[r][p] % PageSize = p % PageSize
        /\ p \div PageSize = q \div PageSize => PageOf(r, p) = PageOf(r, q)

\* Pages are conserved: a page is free or holds a live token, and never both.
\* The kernels use every page num_new_pages asked for, whatever the mix of
\* partial and full pages in the batch: none leaks, none is handed out twice.
PagesConserved ==
    \A pg \in Page :
        pg \in free <=> ~ \E r \in Req : \E p \in Positions(r) : PageOf(r, p) = pg

\* Every live token has a slot of its own, at the right offset of a page in
\* use: what extend, decode and release must keep for the KV of a request to
\* be found where the attention looks for it.
AllocatorExact == NoSlotShared /\ PageAligned /\ PagesConserved

=============================================================================
