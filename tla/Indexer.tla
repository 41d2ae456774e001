------------------------------ MODULE Indexer ------------------------------
(***************************************************************************)
(* The lightning indexer of DSV4 and the attention that consumes its       *)
(* selection.  On an indexed (c4) layer the indexer pools the batch's      *)
(* tokens into blocks of Ratio, keeps for each query the index_topk blocks *)
(* of highest score, and publishes pos_kept in _SEL_HOLDER, one holder for *)
(* all layers: a row per query, Ratio columns per block.  The attention    *)
(* call that follows, of whatever layer, takes pos_kept, clears the        *)
(* holder, and filters the query's slots with it (MaskOps).                *)
(*                                                                         *)
(* Scores are abstracted away: any selection torch.topk could return for   *)
(* some scores is possible.  A pass over a batch depends on no earlier     *)
(* one but through the holder, so a batch is any set of requests.          *)
(***************************************************************************)
EXTENDS MaskOps

CONSTANTS
    Indexed,   \* Indexed[l]: does layer l have an indexer
    Ratio,     \* comp.ratio (4)
    TopK,      \* index_topk
    Window,    \* the most slots a query is given
    MaxBatch,  \* bound: most requests in a batch
    MaxPos,    \* bound: longest sequence
    MaxTokens  \* bound: most tokens in a batch

NumLayers == Cardinality(DOMAIN Indexed)

ASSUME IndexerAssumption ==
    /\ NumLayers \in Nat \ {0} /\ Indexed \in [1..NumLayers -> BOOLEAN]
    /\ Ratio \in Nat \ {0} /\ TopK \in Nat \ {0} /\ Window \in Nat \ {0}
    /\ MaxBatch \in Nat \ {0} /\ MaxPos \in Nat \ {0} /\ MaxTokens \in Nat

VARIABLES
    sel,     \* _SEL_HOLDER["pos_kept"], or NoKept
    fb,      \* the forward batch
    pc,      \* "idle", "index", "attend"
    layer,   \* the layer pc is in
    chosen,  \* the blocks the last indexer call kept for each query (a ghost)
    ctx      \* what the queries of the last attention call read, till the next choice (a ghost)

vars == <<sel, fb, pc, layer, chosen, ctx>>

NoBatch == [extend |-> FALSE, n |-> 0, start |-> <<>>, stop |-> <<>>]

-----------------------------------------------------------------------------
(* The batch: token x, from 0, is position p of request i. *)
Len(i) == fb.stop[i] - fb.start[i]

Tokens == UNION {{<<i, p>> : p \in fb.start[i]..(fb.stop[i] - 1)} : i \in 1..fb.n}

Before(a, b) == a[1] < b[1] \/ (a[1] = b[1] /\ a[2] < b[2])

IndexOf(t) == Cardinality({u \in Tokens : Before(u, t)})

-----------------------------------------------------------------------------
(* _cpu_forward_c4_indexer. *)

\* ext: the extend lengths, or, in decode, one sequence of the batch's size.
Ext == IF fb.extend THEN [i \in 1..fb.n |-> Len(i)] ELSE <<fb.n>>

\* The blocks, <<s, w>> the window w of sequence s of ext.
Blocks == UNION {{<<s, w>> : w \in 0..(Ext[s] \div Ratio - 1)} : s \in DOMAIN Ext}

\* Mutant: the place counts from one.
BlockIndexFromOne(b) == Cardinality({a \in Blocks : Before(a, b)}) + 1

\* The place of a block in the concatenation of all sequences' blocks.
BlockIndex(b) == Cardinality({a \in Blocks : Before(a, b)})

\* causal: key_start <= positions.
Unmasked(p) == {b \in Blocks : b[2] * Ratio <= p}

\* Any ktop = min(index_topk, S) blocks ...
Selections ==
    LET S == Cardinality(Blocks)
    IN  {k \in SUBSET Blocks : Cardinality(k) = (IF TopK < S THEN TopK ELSE S)}

\* ... of which a masked one, at -inf, comes after all that are not.
IsTopK(k, p) == k \subseteq Unmasked(p) \/ Unmasked(p) \subseteq k

\* Mutant: the columns of a block start at its index, not Ratio times it.
PosKeptNoStride(keep) ==
    [rows |-> Cardinality(Tokens), cov |-> Cardinality(Blocks) * Ratio,
     bits |-> UNION {{<<IndexOf(t), BlockIndex(b) + o>> : b \in keep[t], o \in 0..(Ratio - 1)}
                       : t \in Tokens}]

\* kept.repeat_interleave(ratio, dim=1).
PosKept(keep) ==
    [rows |-> Cardinality(Tokens), cov |-> Cardinality(Blocks) * Ratio,
     bits |-> UNION {{<<IndexOf(t), BlockIndex(b) * Ratio + o>> : b \in keep[t], o \in 0..(Ratio - 1)}
                       : t \in Tokens}]

Index ==
    /\ pc = "index"
    /\ Blocks # {}
    /\ \E keep \in [Tokens -> Selections] :
          /\ \A t \in Tokens : IsTopK(keep[t], t[2])
          /\ sel' = PosKept(keep)
          /\ chosen' = keep
    /\ pc' = "attend"
    /\ ctx' = {}
    /\ UNCHANGED <<fb, layer>>

\* No sequence has a full window: returns without publishing.
IndexNothing ==
    /\ pc = "index"
    /\ Blocks = {}
    /\ chosen' = [t \in Tokens |-> {}]
    /\ pc' = "attend"
    /\ ctx' = {}
    /\ UNCHANGED <<sel, fb, layer>>

-----------------------------------------------------------------------------
(* Attention.  Slots are numbered request by request. *)
Slot(i, p) == (i - 1) * MaxPos + p

First(p) == IF p < Window THEN 0 ELSE p - Window + 1

\* The call of _batched_mla_attend: the marked slots are those of the batch's
\* requests, and a query's candidates the slots of its window, in order.
MlaCall(kept) ==
    LET at(x) == CHOOSE t \in Tokens : IndexOf(t) = x
        T     == Cardinality(Tokens)
    IN  [T |-> T, C |-> Window,
         vslots  |-> UNION {{Slot(i, p) : p \in 0..(fb.stop[i] - 1)} : i \in 1..fb.n},
         indices |-> [x \in 0..(T - 1) |->
                        LET i == at(x)[1]
                            p == at(x)[2]
                        IN  [k \in 0..(Window - 1) |->
                               IF First(p) + k <= p THEN Slot(i, First(p) + k) ELSE -1]],
         len     |-> [x \in 0..(T - 1) |-> at(x)[2] - First(at(x)[2]) + 1],
         kept    |-> kept]

\* The tokens a query reads, from its row of the mask.
KeysRead(c, row) ==
    {t \in (1..fb.n) \X (0..(MaxPos - 1)) :
        t[2] < fb.stop[t[1]] /\ Inv(c, Slot(t[1], t[2])) \in row}

\* Mutant: the holder is read and not cleared.
TakeSelAndKeep == sel' = sel

TakeSel == sel' = NoKept

\* _torch_flash_mla_with_kvcache: take pos_kept, clear the holder, attend.
Attend ==
    /\ pc = "attend"
    /\ TakeSel
    /\ LET c == MlaCall(sel)
       IN  ctx' = {[layer |-> layer, q |-> t, keys |-> KeysRead(c, VecRow(c, IndexOf(t)))]
                     : t \in Tokens}
    /\ IF layer < NumLayers
       THEN /\ layer' = layer + 1
            /\ pc' = IF Indexed[layer + 1] THEN "index" ELSE "attend"
       ELSE layer' = layer /\ pc' = "idle"
    /\ UNCHANGED <<fb, chosen>>

-----------------------------------------------------------------------------
\* A forward pass over a batch: an extend of any lengths, or a decode.
Begin(extend, n, start, stop) ==
    /\ \A i \in 1..n : start[i] < stop[i] /\ (~extend => stop[i] = start[i] + 1)
    /\ Cardinality(UNION {{<<i, p>> : p \in start[i]..(stop[i] - 1)} : i \in 1..n}) <= MaxTokens
    /\ fb' = [extend |-> extend, n |-> n, start |-> start, stop |-> stop]
    /\ layer' = 1
    /\ pc' = IF Indexed[1] THEN "index" ELSE "attend"
    /\ chosen' = <<>>
    /\ ctx' = {}
    /\ UNCHANGED sel

Init ==
    /\ sel = NoKept
    /\ fb = NoBatch
    /\ pc = "idle"
    /\ layer = 1
    /\ chosen = <<>>
    /\ ctx = {}

Next ==
    \/ /\ pc = "idle"
       /\ \E extend \in BOOLEAN, n \in 1..MaxBatch :
             \E start \in [1..n -> 0..(MaxPos - 1)], stop \in [1..n -> 1..MaxPos] :
                Begin(extend, n, start, stop)
    \/ Index
    \/ IndexNothing
    \/ Attend

Spec == Init /\ [][Next]_vars

-----------------------------------------------------------------------------
(* Properties. *)

InWindow(q) == {<<q[1], p>> : p \in First(q[2])..q[2]}

TypeOK ==
    /\ sel # NoKept => sel.bits \subseteq (0..(sel.rows - 1)) \X (0..(sel.cov - 1))
    /\ pc \in {"idle", "index", "attend"}
    /\ layer \in 1..NumLayers
    /\ \A c \in ctx : c.layer \in 1..NumLayers /\ c.q \in Tokens /\ c.keys \subseteq Nat \X Nat

\* A selection is taken by the attention call of the layer and of the batch
\* it was made for, though one holder serves all layers and an indexer may
\* return without publishing.
SelFresh ==
    sel # NoKept =>
        /\ pc = "attend" /\ Indexed[layer]
        /\ sel.rows = Cardinality(Tokens)
        /\ sel.cov = Cardinality(Blocks) * Ratio

\* "bit-identical to the per-token loop it replaces": for every batch and
\* every selection, both forms of the mask give every query the same keys,
\* the causal prefix of a query left with nothing included.
MasksAgree == pc = "attend" => VecMask(MlaCall(sel)) = LoopMask(MlaCall(sel))

\* "A non-indexer layer leaves it None -> that layer's attention stays
\* dense": its queries read their whole windows, whatever the layers around.
OthersStayDense ==
    \A c \in ctx : ~Indexed[c.layer] => c.keys = InWindow(c.q)

\* As long as a batch forms no more blocks than index_topk, the indexer drops
\* nothing: in prefill, in chunks, in decode and in mixed batches each query
\* reads its whole window, though the columns of pos_kept are not its own.
FewBlocksDropNothing ==
    \A c \in ctx : Cardinality(Blocks) <= TopK => c.keys = InWindow(c.q)

\* The positions a selection means to keep for a query: those of the blocks
\* it chose among its own request's, and those past the last block.
Meant(c) ==
    {t \in InWindow(c.q) : \/ t[2] >= (fb.stop[t[1]] \div Ratio) * Ratio
                           \/ <<t[1], t[2] \div Ratio>> \in chosen[c.q]}

\* The prefill of one request, from its first position and within the window,
\* reads exactly the positions of the blocks chosen for each query and those
\* past the last block.
OneRequestExact ==
    \A c \in ctx :
        /\ Indexed[c.layer]
        /\ fb.extend /\ fb.n = 1 /\ fb.start[1] = 0 /\ fb.stop[1] <= Window
        /\ Meant(c) # {}
        => c.keys = Meant(c)

\* A selection reaches the layer and the batch it was made for, and no other.
SelectionStays == TypeOK /\ SelFresh /\ OthersStayDense

\* What is dropped is what the top-k has dropped: nothing while there are few
\* blocks, and in the prefill of one request the blocks not chosen.
SelectionExact == FewBlocksDropNothing /\ OneRequestExact

=============================================================================
