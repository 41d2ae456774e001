------------------------------ MODULE KvStash ------------------------------
(***************************************************************************)
(* The dense bf16 KV stash of one layer, over the paged allocator.  The    *)
(* K-write of a forward pass copies the batch's keys into a contiguous     *)
(* buffer indexed by slot (_KV_BUF) and marks the slots (_KV_VALID); the   *)
(* attention call that follows gathers keys from it by slot.  Slots are    *)
(* never unmarked and never cleared: when a request ends its keys stay     *)
(* until another request's write covers them.                              *)
(*                                                                         *)
(* A key is abstracted to the row and the position it was computed for.    *)
(* `stale`, the slots whose key was written by a request that has ended,   *)
(* is not in the code: it tells two requests of one row apart.             *)
(***************************************************************************)
EXTENDS PagedAlloc, FiniteSets, FiniteSetsExt

CONSTANTS
    MinCap,  \* least capacity of the buffer (1024)
    Window,  \* _SLIDING_WINDOW (128)
    NoRow    \* the owner of a zero key

ASSUME KvStashAssumption ==
    /\ MinCap \in Nat \ {0}
    /\ Window \in Nat \ {0}
    /\ NoRow \notin Req

VARIABLES
    cap,    \* rows of _KV_BUF, 0 before the first write
    buf,    \* _KV_BUF: buf[slot], a key
    valid,  \* _KV_VALID, as a set of slots
    stale,  \* marked slots whose writer has ended (a ghost)
    fb,     \* the forward batch being run
    pc,     \* "idle", "write" or "attend"
    ctx     \* what the queries of the last attention call have read

stashVars == <<cap, buf, valid, stale, fb, pc, ctx>>

ZeroKey == [row |-> NoRow, pos |-> 0]

NoBatch == [n |-> 0, row |-> <<>>, start |-> <<>>, stop |-> <<>>]

\* The tokens of the batch, in no order: each carries its request's row and
\* its position.
Tokens ==
    UNION {{[row |-> fb.row[i], pos |-> p] : p \in fb.start[i]..(fb.stop[i] - 1)}
             : i \in 1..fb.n}

\* out_loc: the slots of the batch's tokens.
OutLoc == {reqToToken[t.row][t.pos] : t \in Tokens}

-----------------------------------------------------------------------------
(* _stash_kv_write. *)

\* The key the batch writes to slot s, one of OutLoc.
KeyFor(s) == CHOOSE t \in Tokens : reqToToken[t.row][t.pos] = s

\* Mutant: the largest slot itself.
NeedNoSuccessor == Max(OutLoc)

\* One past the largest slot written.
Need == Max(OutLoc) + 1

\* Mutant: a buffer that grows is not copied to the new one.
StashWriteNoCopy ==
    LET grown == IF cap = 0 THEN (IF Need > MinCap THEN Need ELSE MinCap)
                 ELSE IF Need > cap
                 THEN (IF Need > 2 * cap THEN Need ELSE 2 * cap) ELSE cap
    IN  /\ cap' = grown
        /\ buf' = [s \in 0..(grown - 1) |->
                     IF s \in OutLoc THEN KeyFor(s)
                     ELSE IF s < cap /\ grown = cap THEN buf[s] ELSE ZeroKey]
        /\ valid' = valid \cup OutLoc
        /\ stale' = stale \ OutLoc

\* Mutant: the buffer doubles, whatever is needed.
StashWriteDoubles ==
    LET grown == IF cap = 0 THEN MinCap ELSE IF Need > cap THEN 2 * cap ELSE cap
    IN  /\ cap' = grown
        /\ buf' = [s \in 0..(grown - 1) |->
                     IF s \in OutLoc THEN KeyFor(s)
                     ELSE IF s < cap THEN buf[s] ELSE ZeroKey]
        /\ valid' = valid \cup OutLoc
        /\ stale' = stale \ OutLoc

\* Mutant: a slot that is marked already is not written again.
StashWriteOnce ==
    LET grown == IF cap = 0 THEN (IF Need > MinCap THEN Need ELSE MinCap)
                 ELSE IF Need > cap
                 THEN (IF Need > 2 * cap THEN Need ELSE 2 * cap) ELSE cap
    IN  /\ cap' = grown
        /\ buf' = [s \in 0..(grown - 1) |->
                     IF s \in OutLoc /\ s \notin valid THEN KeyFor(s)
                     ELSE IF s < cap THEN buf[s] ELSE ZeroKey]
        /\ valid' = valid \cup OutLoc
        /\ stale' = stale

(* The first write allocates the buffer; a write past its end doubles it,  *)
(* or more if need be, and keeps its contents; the keys then replace       *)
(* whatever their slots held.                                              *)
StashWrite ==
    LET grown == IF cap = 0 THEN (IF Need > MinCap THEN Need ELSE MinCap)
                 ELSE IF Need > cap
                 THEN (IF Need > 2 * cap THEN Need ELSE 2 * cap) ELSE cap
    IN  /\ cap' = grown
        /\ buf' = [s \in 0..(grown - 1) |->
                     IF s \in OutLoc THEN KeyFor(s)
                     ELSE IF s < cap THEN buf[s] ELSE ZeroKey]
        /\ valid' = valid \cup OutLoc
        /\ stale' = stale \ OutLoc

\* The K-write of the forward pass.
Write ==
    /\ pc = "write"
    /\ StashWrite
    /\ pc' = "attend"
    /\ UNCHANGED <<free, seqLen, reqToToken, fb, ctx>>

-----------------------------------------------------------------------------
(* Attention. *)

\* _stash_kv_gather: of the slots asked for, those in the buffer and marked.
Gather(slots) == {[key |-> buf[s], stale |-> s \in stale] : s \in {x \in slots : x < cap /\ x \in valid}}

\* topk_length and indices of a query: the slots of the positions in its
\* window, its own the last.
Indices(t) ==
    {reqToToken[t.row][p] : p \in {x \in 0..t.pos : x > t.pos - Window}}

\* Attention with indices: each query reads the slots it was given.  The
\* forward pass then returns.
AttendIndexed ==
    /\ pc = "attend"
    /\ ctx' = {[row |-> t.row, pos |-> t.pos, dense |-> FALSE, keys |-> Gather(Indices(t))]
                 : t \in Tokens}
    /\ fb' = NoBatch
    /\ pc' = "idle"
    /\ UNCHANGED <<free, seqLen, reqToToken, cap, buf, valid, stale>>

\* The batch's queries in the order of the batch: query k, from 0, is the
\* token k places after the first of row 1.
QueryAt(i, p) ==
    Cardinality(UNION {{<<j, x>> : x \in fb.start[j]..(fb.stop[j] - 1)} : j \in 1..(i - 1)})
        + (p - fb.start[i])

\* Mutant: the causal prefix of query k is taken one short.
DenseSlotsFromT(k) ==
    LET n    == Cardinality(valid)
        T    == Cardinality(Tokens)
        hi   == n - T + k - 1
        rank(s) == Cardinality({x \in valid : x < s})
    IN  {s \in valid : rank(s) <= hi /\ rank(s) > hi - Window}

\* Attention without indices (a pure sliding-window layer, force_dense): the
\* marked slots, in slot order, stand for positions 0..n-1, the last T of
\* them for the batch's own.
DenseSlots(k) ==
    LET n    == Cardinality(valid)
        T    == Cardinality(Tokens)
        hi   == n - (T - 1) + k - 1
        rank(s) == Cardinality({x \in valid : x < s})
    IN  {s \in valid : rank(s) <= hi /\ rank(s) > hi - Window}

AttendDense ==
    /\ pc = "attend"
    /\ ctx' = UNION {{[row |-> fb.row[i], pos |-> p, dense |-> TRUE,
                       keys |-> Gather(DenseSlots(QueryAt(i, p)))]
                        : p \in fb.start[i]..(fb.stop[i] - 1)} : i \in 1..fb.n}
    /\ fb' = NoBatch
    /\ pc' = "idle"
    /\ UNCHANGED <<free, seqLen, reqToToken, cap, buf, valid, stale>>

-----------------------------------------------------------------------------
(* The scheduler. *)

\* A forward pass starts when the allocator has given its tokens slots.
Begin(n, batch, target) ==
    /\ pc = "idle"
    /\ AllocExtend(n, batch, target) \/ AllocDecode(n, batch, target)
    /\ fb' = [n |-> n, row |-> batch,
              start |-> [i \in 1..n |-> seqLen[batch[i]]], stop |-> target]
    /\ pc' = "write"
    /\ ctx' = {}
    /\ UNCHANGED <<cap, buf, valid, stale>>

\* A request ends between forward passes.  Nothing tells the stash.
End(r) ==
    /\ pc = "idle"
    /\ Release(r)
    /\ stale' = stale \cup {reqToToken[r][p] : p \in 0..(seqLen[r] - 1)}
    /\ ctx' = {}
    /\ UNCHANGED <<cap, buf, valid, fb, pc>>

StashInit ==
    /\ Init
    /\ cap = 0
    /\ buf = [s \in {} |-> ZeroKey]
    /\ valid = {} /\ stale = {}
    /\ fb = NoBatch
    /\ pc = "idle"
    /\ ctx = {}

StashNext ==
    \/ \E n \in 1..MaxBatch : \E batch \in Batches(n), target \in [1..n -> 1..MaxLen] :
          Begin(n, batch, target)
    \/ Write
    \/ AttendIndexed
    \/ AttendDense
    \/ \E r \in Req : End(r)

StashSpec == StashInit /\ [][StashNext]_<<vars, stashVars>>

-----------------------------------------------------------------------------
(* Properties. *)

StashTypeOK ==
    /\ cap \in Nat
    /\ DOMAIN buf = 0..(cap - 1)
    /\ valid \subseteq 0..(cap - 1)
    /\ stale \subseteq valid
    /\ pc \in {"idle", "write", "attend"}

\* Position p of request r has its key in the stash.
Stashed(r, p) ==
    LET s == reqToToken[r][p]
    IN  s \in valid /\ s \notin stale /\ buf[s] = [row |-> r, pos |-> p]

\* Every position of a live request whose forward pass has written it keeps
\* its own key in its own slot, through every growth of the buffer and every
\* write of another request, however many requests used the slot before.
StashHoldsLive ==
    \A r \in Req : \A p \in Positions(r) :
        (pc = "write" /\ [row |-> r, pos |-> p] \in Tokens) \/ Stashed(r, p)

\* With indices, a query reads exactly the keys of its own request in its
\* window: none is dropped as unmarked, none comes from another request or
\* from one that used the slot before.
GatherExact ==
    \A c \in ctx : ~c.dense =>
        c.keys = {[key |-> [row |-> c.row, pos |-> p], stale |-> FALSE]
                    : p \in {x \in 0..c.pos : x > c.pos - Window}}

\* The stash has every live key in its place, and gives a query with indices
\* those of its window and no other.
StashExact == StashTypeOK /\ StashHoldsLive /\ GatherExact

\* The buffer never shrinks, and a step changes no marked slot but those of
\* the batch it writes.
WriteIsLocal ==
    [][ /\ cap' >= cap
        /\ valid \subseteq valid'
        /\ \A s \in valid : buf'[s] # buf[s] => pc = "write" /\ s \in OutLoc ]_stashVars

\* The marked slots are those of r's positions, and in their order.
OnlyRequest(r) ==
    /\ valid = {reqToToken[r][p] : p \in Positions(r)}
    /\ \A p, q \in Positions(r) : p < q => reqToToken[r][p] < reqToToken[r][q]

\* Without indices the marked slots stand for positions: "valid slots are
\* written in position order; query t (0-indexed in the batch of T) is at
\* position base+t".  That is so as long as one request, given its pages in
\* order, is all the pool has ever served: it then reads its own window, in
\* prefill, in each chunk and in decode.
DenseAloneExact ==
    \A c \in ctx : c.dense /\ OnlyRequest(c.row) =>
        c.keys = {[key |-> [row |-> c.row, pos |-> p], stale |-> FALSE]
                    : p \in {x \in 0..c.pos : x > c.pos - Window}}

=============================================================================
