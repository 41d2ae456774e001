---------------------------- MODULE CompressedKV ----------------------------
(***************************************************************************)
(* The compressed-KV path of DSV4 attention on CPU.  On a compressed layer *)
(* the compressor pools every `ratio` consecutive tokens of a request into *)
(* one block, and attention reads, besides its sliding window, the blocks  *)
(* that lie in the query's past.  The plugin bypasses the paged plan: the  *)
(* compressor publishes its blocks in _COMPRESSED_HANDOFF, the attention   *)
(* call of the same layer pops them, and for decode steps each request's   *)
(* blocks are kept in _COMPRESSED_PERSIST under its row of req_to_token.   *)
(*                                                                         *)
(* Tensors are abstracted to what they are computed from: a block is the   *)
(* request and the positions it pools, a query is its position.  `rid`, a  *)
(* request's identity, is not known to the code, which only sees the index *)
(* of a request in the batch (reqid) and its row; it is there so that the  *)
(* properties can say whose tokens a query attends to.                     *)
(*                                                                         *)
(* The scheduler (admission, chunking, release of rows) is sglang's, seen  *)
(* only through the batches it hands to a forward pass.                    *)
(***************************************************************************)
EXTENDS Integers

CONSTANTS
    NumLayers,  \* compressed layers, run in order in each forward pass
    Ratio,      \* Ratio[l]: tokens per block of layer l (4 or 128)
    Row,        \* req_pool_index values, reused by later requests
    Rid,        \* identities of requests, and
    NoRid,      \*   that of no request
    MinPrompt,  \* bound: shortest and
    MaxPrompt,  \*        longest prompt
    MaxGen,     \* bound: most tokens generated for a request
    MaxBatch,   \* bound: most requests in a forward pass
    Chunk,      \* chunked-prefill-size
    PrefixHit   \* prompt lengths the radix cache may already hold

Layer == 1..NumLayers

ASSUME CompressedKVAssumption ==
    /\ NumLayers \in Nat \ {0}
    /\ Ratio \in [Layer -> Nat \ {0}]
    /\ NoRid \notin Rid
    /\ MinPrompt \in Nat \ {0} /\ MaxPrompt \in Nat
    /\ MaxGen \in Nat
    /\ MaxBatch \in Nat \ {0}
    /\ Chunk \in Nat \ {0}
    /\ PrefixHit \subseteq Nat

VARIABLES
    req,       \* req[r]: the request in row r, or NoReq
    persist,   \* _COMPRESSED_PERSIST: persist[l][r], {} when absent
    handoff,   \* _COMPRESSED_HANDOFF: handoff[l], or NoHandoff
    fb,        \* the forward batch being run
    pc,        \* "idle", "compress", "attend" or "done"
    layer,     \* the layer pc is in
    ctx        \* the contexts the forward pass has attended to so far

vars == <<req, persist, handoff, fb, pc, layer, ctx>>

NoReq == [rid |-> NoRid, prompt |-> 0, hit |-> 0, len |-> 0]

NoHandoff == [blocks |-> {}, queries |-> {}]

NoBatch == [extend |-> FALSE, n |-> 0, row |-> <<>>, start |-> <<>>, stop |-> <<>>]

\* overlap = ratio == 4: a block then also pools the block before it.
Overlap(l) == Ratio[l] = 4

-----------------------------------------------------------------------------
(* One forward pass: the batch as the compressor and attention see it.     *)

\* The queries of the batch: each names its request by reqid, its index in
\* the batch, and carries its absolute position.
Queries ==
    UNION {{[reqid |-> i, pos |-> p] : p \in fb.start[i]..(fb.stop[i] - 1)} : i \in 1..fb.n}

\* Mutant: window 0 is given an overlap half as well.
BlocksOfWraps(l, i) ==
    LET nwin == (fb.stop[i] - fb.start[i]) \div Ratio[l]
    IN  {[rid   |-> req[fb.row[i]].rid,
          reqid |-> i,
          first |-> fb.start[i] + w * Ratio[l],
          from  |-> IF Overlap(l) THEN fb.start[i] + (w - 1) * Ratio[l]
                                  ELSE fb.start[i] + w * Ratio[l]]
            : w \in 0..(nwin - 1)}

\* _compress_prefill_core, one request: the full windows of its extend
\* length, from the first position of the extend.  The overlap half of a
\* window is the window before it in the same call, and empty for window 0.
BlocksOf(l, i) ==
    LET nwin == (fb.stop[i] - fb.start[i]) \div Ratio[l]
    IN  {[rid   |-> req[fb.row[i]].rid,
          reqid |-> i,
          first |-> fb.start[i] + w * Ratio[l],
          from  |-> IF Overlap(l) /\ w > 0 THEN fb.start[i] + (w - 1) * Ratio[l]
                                           ELSE fb.start[i] + w * Ratio[l]]
            : w \in 0..(nwin - 1)}

CompBlocks(l) == UNION {BlocksOf(l, i) : i \in 1..fb.n}

\* What persist keeps of a block: not the batch index, which is the call's.
Payload(b) == [rid |-> b.rid, first |-> b.first, from |-> b.from]

\* The blocks persisted for the rows of a decode batch, under their index in it.
PersistedBlocks(l) ==
    UNION {{[rid |-> b.rid, reqid |-> i, first |-> b.first, from |-> b.from]
               : b \in persist[l][fb.row[i]]} : i \in 1..fb.n}

\* Mutant: a row that holds blocks keeps them (setdefault for assignment).
CompressExtendKeepsOld ==
    /\ pc = "compress" /\ fb.extend
    /\ CompBlocks(layer) # {}
    /\ persist' = [persist EXCEPT ![layer] =
           [r \in Row |-> IF /\ \E i \in 1..fb.n : fb.row[i] = r /\ BlocksOf(layer, i) # {}
                             /\ persist[layer][r] = {}
                          THEN {Payload(b) : b \in {c \in CompBlocks(layer) : fb.row[c.reqid] = r}}
                          ELSE persist[layer][r]]]
    /\ handoff' = [handoff EXCEPT ![layer] = [blocks |-> CompBlocks(layer), queries |-> Queries]]
    /\ pc' = "attend"
    /\ UNCHANGED <<req, fb, layer, ctx>>

(* _cpu_forward_core_compressor on an extend batch: the blocks are         *)
(* persisted for every request that formed one, and all are published.     *)
CompressExtend ==
    /\ pc = "compress" /\ fb.extend
    /\ CompBlocks(layer) # {}
    /\ persist' = [persist EXCEPT ![layer] =
           [r \in Row |-> IF \E i \in 1..fb.n : fb.row[i] = r /\ BlocksOf(layer, i) # {}
                          THEN {Payload(b) : b \in {c \in CompBlocks(layer) : fb.row[c.reqid] = r}}
                          ELSE persist[layer][r]]]
    /\ handoff' = [handoff EXCEPT ![layer] = [blocks |-> CompBlocks(layer), queries |-> Queries]]
    /\ pc' = "attend"
    /\ UNCHANGED <<req, fb, layer, ctx>>

\* No request of the batch has a full window: returns without publishing.
CompressNoWindow ==
    /\ pc = "compress" /\ fb.extend
    /\ CompBlocks(layer) = {}
    /\ pc' = "attend"
    /\ UNCHANGED <<req, persist, handoff, fb, layer, ctx>>

(* _decode_republish_compressed: decode forms no block; what prefill left  *)
(* for the rows of the batch is published again.                           *)
CompressDecode ==
    /\ pc = "compress" /\ ~fb.extend
    /\ PersistedBlocks(layer) # {}
    /\ handoff' = [handoff EXCEPT ![layer] =
           [blocks |-> PersistedBlocks(layer), queries |-> Queries]]
    /\ pc' = "attend"
    /\ UNCHANGED <<req, persist, fb, layer, ctx>>

CompressDecodeNothing ==
    /\ pc = "compress" /\ ~fb.extend
    /\ PersistedBlocks(layer) = {}
    /\ pc' = "attend"
    /\ UNCHANGED <<req, persist, handoff, fb, layer, ctx>>

\* Mutant: the mask forgets the request.
VisibleAnyRequest(l, q, b) == q.pos >= b.first + Ratio[l] - 1

\* Mutant: a block is visible from its first position on.
VisibleFromStart(l, q, b) == q.reqid = b.reqid /\ q.pos >= b.first

\* Mutant: the bound is off by one, and hides the block that ends at the query.
VisibleLate(l, q, b) == q.reqid = b.reqid /\ q.pos >= b.first + Ratio[l]

\* The joint mask of a query over the published blocks: same request of the
\* batch, and a block that ends at or before the query.
Visible(l, q, b) ==
    /\ q.reqid = b.reqid
    /\ q.pos >= b.first + Ratio[l] - 1

\* Mutant: the handoff is read and left in place.
AttendPeeks ==
    /\ pc = "attend"
    /\ ctx' = ctx \cup
          {[layer |-> layer, reqid |-> q.reqid, pos |-> q.pos,
            sees  |-> {Payload(b) : b \in {c \in handoff[layer].blocks :
                                              /\ q \in handoff[layer].queries
                                              /\ Visible(layer, q, c)}}]
              : q \in Queries}
    /\ IF layer < NumLayers
       THEN layer' = layer + 1 /\ pc' = "compress"
       ELSE layer' = layer /\ pc' = "done"
    /\ UNCHANGED <<req, persist, handoff, fb>>

(* The compressed half of _batched_mla_attend: pop the handoff and attend  *)
(* to the visible blocks; without one, to none.                            *)
Attend ==
    /\ pc = "attend"
    /\ handoff' = [handoff EXCEPT ![layer] = NoHandoff]
    /\ ctx' = ctx \cup
          {[layer |-> layer, reqid |-> q.reqid, pos |-> q.pos,
            sees  |-> {Payload(b) : b \in {c \in handoff[layer].blocks :
                                              /\ q \in handoff[layer].queries
                                              /\ Visible(layer, q, c)}}]
              : q \in Queries}
    /\ IF layer < NumLayers
       THEN layer' = layer + 1 /\ pc' = "compress"
       ELSE layer' = layer /\ pc' = "done"
    /\ UNCHANGED <<req, persist, fb>>

-----------------------------------------------------------------------------
(* The scheduler, between forward passes. *)

Batches(n) ==
    {b \in [1..n -> Row] : \A i, j \in 1..n : b[i] = b[j] => i = j}

\* An identity can serve again once nothing in the state bears it.
RidsInUse ==
    {req[r].rid : r \in Row}
        \cup UNION {{b.rid : b \in persist[l][r]} : l \in Layer, r \in Row}

\* A request gets a free row; the radix cache may hold a prefix of it.
Admit(r, id, n, hit) ==
    /\ pc = "idle" /\ req[r] = NoReq
    /\ id \notin RidsInUse
    /\ hit < n
    /\ req' = [req EXCEPT ![r] = [rid |-> id, prompt |-> n, hit |-> hit, len |-> hit]]
    /\ UNCHANGED <<persist, handoff, fb, pc, layer, ctx>>

Begin(extend, n, batch, stop) ==
    /\ fb' = [extend |-> extend, n |-> n, row |-> batch,
              start |-> [i \in 1..n |-> req[batch[i]].len], stop |-> stop]
    /\ req' = [r \in Row |-> IF \E i \in 1..n : batch[i] = r
                             THEN [req[r] EXCEPT !.len =
                                      stop[CHOOSE i \in 1..n : batch[i] = r]]
                             ELSE req[r]]
    /\ pc' = "compress"
    /\ layer' = 1
    /\ UNCHANGED <<persist, handoff, ctx>>

\* Prefill: each request runs the rest of its prompt, or a chunk of it.
BeginExtend(n, batch) ==
    /\ pc = "idle"
    /\ \A i \in 1..n : req[batch[i]].len < req[batch[i]].prompt
    /\ Begin(TRUE, n, batch,
             [i \in 1..n |-> IF req[batch[i]].prompt - req[batch[i]].len <= Chunk
                             THEN req[batch[i]].prompt
                             ELSE req[batch[i]].len + Chunk])

\* Decode: one token per request whose prompt is done.
BeginDecode(n, batch) ==
    /\ pc = "idle"
    /\ \A i \in 1..n : /\ req[batch[i]] # NoReq
                       /\ req[batch[i]].len >= req[batch[i]].prompt
                       /\ req[batch[i]].len < req[batch[i]].prompt + MaxGen
    /\ Begin(FALSE, n, batch, [i \in 1..n |-> req[batch[i]].len + 1])

\* The forward pass returns.
Finish ==
    /\ pc = "done"
    /\ pc' = "idle"
    /\ fb' = NoBatch
    /\ ctx' = {}
    /\ UNCHANGED <<req, persist, handoff, layer>>

\* The request ends, is aborted or is retracted; its row is free again.
\* Nothing tells the plugin, whose persist keeps the row's blocks.
Release(r) ==
    /\ pc = "idle" /\ req[r] # NoReq
    /\ req' = [req EXCEPT ![r] = NoReq]
    /\ UNCHANGED <<persist, handoff, fb, pc, layer, ctx>>

-----------------------------------------------------------------------------
Init ==
    /\ req = [r \in Row |-> NoReq]
    /\ persist = [l \in Layer |-> [r \in Row |-> {}]]
    /\ handoff = [l \in Layer |-> NoHandoff]
    /\ fb = NoBatch
    /\ pc = "idle"
    /\ layer = 1
    /\ ctx = {}

Schedule ==
    \/ \E r \in Row, id \in Rid, n \in MinPrompt..MaxPrompt, hit \in PrefixHit :
          Admit(r, id, n, hit)
    \/ \E n \in 1..MaxBatch : \E batch \in Batches(n) :
          BeginExtend(n, batch) \/ BeginDecode(n, batch)
    \/ \E r \in Row : Release(r)

Forward ==
    \/ CompressExtend
    \/ CompressNoWindow
    \/ CompressDecode
    \/ CompressDecodeNothing
    \/ Attend
    \/ Finish

Next == Schedule \/ Forward

Spec == Init /\ [][Next]_vars

-----------------------------------------------------------------------------
(* Properties. *)

\* The request a context of the running batch belongs to.
Asker(c) == req[fb.row[c.reqid]]

\* The blocks the model's definition lets position p of request q attend to
\* on layer l, of the first m tokens: block j covers [j*ratio, (j+1)*ratio)
\* and, with overlap, the block before it.
RefBlocks(l, q, p, m) ==
    {[rid |-> q.rid, first |-> j * Ratio[l],
      from |-> IF Overlap(l) /\ j > 0 THEN (j - 1) * Ratio[l] ELSE j * Ratio[l]]
        : j \in {k \in 0..(m - 1) : /\ (k + 1) * Ratio[l] <= m
                                    /\ (k + 1) * Ratio[l] <= p + 1}}

TypeOK ==
    /\ \A r \in Row : /\ req[r].rid \in Rid \cup {NoRid}
                      /\ {req[r].prompt, req[r].hit, req[r].len} \subseteq Nat
    /\ \A l \in Layer, r \in Row : \A b \in persist[l][r] :
          b.rid \in Rid /\ b.first \in Nat /\ b.from \in Nat
    /\ \A l \in Layer : \A b \in handoff[l].blocks :
          b.reqid \in 1..fb.n /\ b.rid \in Rid /\ b.first \in Nat
    /\ pc \in {"idle", "compress", "attend", "done"}
    /\ layer \in Layer
    /\ \A i \in 1..fb.n : fb.row[i] \in Row /\ fb.start[i] < fb.stop[i]
    /\ \A c \in ctx : c.reqid \in 1..fb.n /\ c.layer \in Layer

\* A published handoff lives from the compressor of a layer to the attention
\* of the same layer and the same forward pass: whichever way the compressor
\* returned, an attention call never pops what another batch left behind.
HandoffFresh ==
    \A l \in Layer : handoff[l] # NoHandoff =>
        /\ pc = "attend" /\ layer = l
        /\ handoff[l].queries = Queries

\* No query attends to a block that ends after it, in prefill, chunked or
\* not, and in decode, even where the row's blocks are an earlier request's.
NoFutureBlock ==
    \A c \in ctx : \A b \in c.sees : b.first + Ratio[c.layer] - 1 <= c.pos

\* In a prefill batch no request attends to another's blocks, though the
\* blocks of all its requests are concatenated in one handoff and positions
\* restart with each request.
PrefillIsolated ==
    fb.extend => \A c \in ctx : \A b \in c.sees : b.rid = Asker(c).rid

\* A prefill that starts at position 0 attends to exactly the blocks the
\* model defines: block j is visible to position p iff (j+1)*ratio <= p+1,
\* with its overlap half.
PrefillFromZero ==
    fb.extend => \A c \in ctx :
        fb.start[c.reqid] = 0 =>
            c.sees = RefBlocks(c.layer, Asker(c), c.pos, fb.stop[c.reqid])

\* A request whose prompt was prefilled in one pass, and long enough for a
\* block, decodes with all the blocks of its prompt and no other, whatever
\* its row held before and whatever else was prefilled in between.
OnePassDecode ==
    pc # "idle" /\ ~fb.extend => \A c \in ctx :
        LET q == Asker(c)
        IN  q.hit = 0 /\ q.prompt <= Chunk /\ q.prompt >= Ratio[c.layer]
               => c.sees = RefBlocks(c.layer, q, c.pos, q.prompt)

\* What a query attends to is of the past, in prefill its own request's, and
\* from the first position on exactly what the model defines.
VisibleExact == NoFutureBlock /\ PrefillIsolated /\ PrefillFromZero

-----------------------------------------------------------------------------
(* What the comments of the code say, and the code does not do. *)

\* "same-request masking (below) prevents a cross-request compressed-KV
\* LEAK": no query attends to a block of another request.
NoCrossRequestBlock ==
    \A c \in ctx : \A b \in c.sees : b.rid = Asker(c).rid

=============================================================================
