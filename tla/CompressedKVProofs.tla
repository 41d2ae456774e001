------------------------- MODULE CompressedKVProofs -------------------------
(***************************************************************************)
(* Proofs about CompressedKV, for every number of layers, ratio, row,      *)
(* batch, chunk size and prefix.                                           *)
(*                                                                         *)
(* The inductive invariant says what the two halves of a layer share: a    *)
(* published handoff is that of the running batch and layer (Published),   *)
(* and what an attention call saw is determined by it (Seen).              *)
(*                                                                         *)
(* OnePassInv follows a prompt prefilled in one pass into its decode: what *)
(* is kept for its row are the blocks of its own prompt, and no other.     *)
(***************************************************************************)
EXTENDS CompressedKV, TLAPS

-----------------------------------------------------------------------------
(* Natural numbers. *)

\* Multiples of d are at least d apart.
LEMMA MultiplesApart ==
    ASSUME NEW d \in Nat \ {0}, NEW a \in Int, NEW b \in Int, a < b
    PROVE  a * d + d <= b * d
  OBVIOUS

\* The d-blocks that fit in n elements are the first n \div d.
LEMMA FullBlocks ==
    ASSUME NEW n \in Nat, NEW d \in Nat \ {0}, NEW w \in Nat
    PROVE  w < n \div d <=> (w + 1) * d <= n
<1> DEFINE Q == n \div d
           v == w + 1
<1>1. Q \in Nat /\ n % d \in 0..(d - 1) /\ n = Q * d + (n % d) /\ v \in Nat
  OBVIOUS
<1> HIDE DEF Q, v
<1>2. (Q < v => Q * d + d <= v * d) /\ (v < Q => v * d + d <= Q * d)
  BY <1>1, MultiplesApart
<1>3. v <= Q <=> v * d <= n
  BY <1>1, <1>2
<1> QED
  BY <1>1, <1>3 DEF Q, v

-----------------------------------------------------------------------------
Pay   == [rid : Rid, first : Nat, from : Nat]
Blk   == [rid : Rid, reqid : Nat, first : Nat, from : Nat]
Query == [reqid : Nat, pos : Nat]

Request == [rid : Rid \cup {NoRid}, prompt : Nat, hit : Nat, len : Nat]

Types ==
    /\ req \in [Row -> Request]
    /\ persist \in [Layer -> [Row -> SUBSET Pay]]
    /\ handoff \in [Layer -> [blocks : SUBSET Blk, queries : SUBSET Query]]
    /\ pc \in {"idle", "compress", "attend", "done"}
    /\ layer \in Layer
    /\ \A r \in Row : req[r] # NoReq => req[r].rid \in Rid

\* The batch names different rows of live requests, each growing.
BatchOK ==
    /\ fb.n \in Nat
    /\ \A i \in 1..fb.n : /\ fb.row[i] \in Row
                          /\ fb.start[i] \in Nat /\ fb.stop[i] \in Nat
                          /\ fb.start[i] < fb.stop[i]
                          /\ req[fb.row[i]].rid \in Rid
    /\ \A i, j \in 1..fb.n : fb.row[i] = fb.row[j] => i = j
    /\ pc = "idle" => fb = NoBatch /\ ctx = {}

\* The blocks the compressor of layer l publishes for the batch.
Publishes(l) == IF fb.extend THEN CompBlocks(l) ELSE PersistedBlocks(l)

Published ==
    /\ \A l \in Layer : handoff[l] # NoHandoff =>
          /\ pc = "attend" /\ layer = l
          /\ handoff[l] = [blocks |-> Publishes(l), queries |-> Queries]
    /\ pc = "attend" /\ handoff[layer] = NoHandoff => Publishes(layer) = {}

\* What a context attends to, given the blocks B it was offered.
Sees(c, B) ==
    {Payload(b) : b \in {d \in B : Visible(c.layer, [reqid |-> c.reqid, pos |-> c.pos], d)}}

Seen ==
    \A c \in ctx :
        /\ c.layer \in Layer /\ c.reqid \in 1..fb.n
        /\ c.pos \in fb.start[c.reqid]..(fb.stop[c.reqid] - 1)
        /\ fb.extend => c.sees = Sees(c, CompBlocks(c.layer))
        /\ \A b \in c.sees : b.first + Ratio[c.layer] - 1 <= c.pos

Inv == Types /\ BatchOK /\ Published /\ Seen

-----------------------------------------------------------------------------
(* The operators of a forward pass *)

\* A block of a batch has the request, the index and the range of its row.
LEMMA BlockOfRow ==
    ASSUME Types, BatchOK, NEW l \in Layer, NEW i \in 1..fb.n, NEW b \in BlocksOf(l, i)
    PROVE  /\ b \in Blk
           /\ b.reqid = i /\ b.rid = req[fb.row[i]].rid
<1>1. /\ Ratio[l] \in Nat \ {0}
      /\ fb.start[i] \in Nat /\ fb.stop[i] \in Nat /\ req[fb.row[i]].rid \in Rid
  BY CompressedKVAssumption DEF BatchOK
<1> DEFINE nwin == (fb.stop[i] - fb.start[i]) \div Ratio[l]
<1>2. PICK w \in 0..(nwin - 1) :
         b = [rid   |-> req[fb.row[i]].rid,
              reqid |-> i,
              first |-> fb.start[i] + w * Ratio[l],
              from  |-> IF Overlap(l) /\ w > 0 THEN fb.start[i] + (w - 1) * Ratio[l]
                                               ELSE fb.start[i] + w * Ratio[l]]
  BY DEF BlocksOf
<1>3. w \in Nat
  OBVIOUS
<1>4. w * Ratio[l] \in Nat
  BY <1>1, <1>3
<1>5. w > 0 => (w - 1) * Ratio[l] \in Nat
  <2> SUFFICES ASSUME w > 0 PROVE (w - 1) * Ratio[l] \in Nat
    OBVIOUS
  <2>1. PICK v \in Nat : v = w - 1
    BY <1>3
  <2>2. v * Ratio[l] \in Nat
    BY <1>1
  <2> QED
    BY <2>1, <2>2
<1>6. fb.start[i] + w * Ratio[l] \in Nat
  BY <1>1, <1>4
<1>7. w > 0 => fb.start[i] + (w - 1) * Ratio[l] \in Nat
  BY <1>1, <1>5
<1>8. i \in Nat
  BY DEF BatchOK
<1> QED
  BY <1>1, <1>2, <1>6, <1>7, <1>8 DEF Blk

LEMMA BatchBlocks ==
    ASSUME Types, BatchOK, NEW l \in Layer
    PROVE  /\ CompBlocks(l) \subseteq Blk
           /\ \A b \in CompBlocks(l) : /\ b.reqid \in 1..fb.n
                                       /\ b \in BlocksOf(l, b.reqid)
                                       /\ b.rid = req[fb.row[b.reqid]].rid
  BY BlockOfRow DEF CompBlocks

LEMMA RowBlocks ==
    ASSUME Types, BatchOK, NEW l \in Layer
    PROVE  /\ PersistedBlocks(l) \subseteq Blk
           /\ \A b \in PersistedBlocks(l) : b.reqid \in 1..fb.n
<1> SUFFICES ASSUME NEW b \in PersistedBlocks(l)
             PROVE  b \in Blk /\ b.reqid \in 1..fb.n
  OBVIOUS
<1>1. PICK i \in 1..fb.n :
         b \in {[rid |-> d.rid, reqid |-> i, first |-> d.first, from |-> d.from]
                  : d \in persist[l][fb.row[i]]}
  BY DEF PersistedBlocks
<1>2. PICK d \in persist[l][fb.row[i]] :
         b = [rid |-> d.rid, reqid |-> i, first |-> d.first, from |-> d.from]
  BY <1>1
<1>3. d \in Pay
  BY DEF Types, BatchOK
<1>4. i \in Nat
  BY DEF BatchOK
<1> QED
  BY <1>2, <1>3, <1>4 DEF Pay, Blk

LEMMA PublishesBlocks ==
    ASSUME Types, BatchOK, NEW l \in Layer
    PROVE  Publishes(l) \subseteq Blk /\ \A b \in Publishes(l) : b.reqid \in 1..fb.n
  BY BatchBlocks, RowBlocks DEF Publishes

LEMMA QueriesOfBatch ==
    ASSUME BatchOK
    PROVE  /\ Queries \subseteq Query
           /\ \A q \in Queries : /\ q.reqid \in 1..fb.n
                                 /\ q.pos \in fb.start[q.reqid]..(fb.stop[q.reqid] - 1)
                                 /\ q = [reqid |-> q.reqid, pos |-> q.pos]
<1> SUFFICES ASSUME NEW q \in Queries
             PROVE  /\ q \in Query /\ q.reqid \in 1..fb.n
                    /\ q.pos \in fb.start[q.reqid]..(fb.stop[q.reqid] - 1)
                    /\ q = [reqid |-> q.reqid, pos |-> q.pos]
  OBVIOUS
<1>1. PICK i \in 1..fb.n : q \in {[reqid |-> i, pos |-> p] : p \in fb.start[i]..(fb.stop[i] - 1)}
  BY DEF Queries
<1>2. PICK p \in fb.start[i]..(fb.stop[i] - 1) : q = [reqid |-> i, pos |-> p]
  BY <1>1
<1>3. i \in Nat /\ p \in Nat
  BY DEF BatchOK
<1> QED
  BY <1>2, <1>3 DEF Query

LEMMA PayloadType ==
    ASSUME NEW b \in Blk
    PROVE  Payload(b) \in Pay /\ Payload(b).first = b.first /\ Payload(b).rid = b.rid
  BY DEF Blk, Pay, Payload

-----------------------------------------------------------------------------
(* The invariant is inductive *)

LEMMA InitInv == Init => Inv
<1> SUFFICES ASSUME Init PROVE Inv
  OBVIOUS
<1>1. NoReq \in Request /\ NoHandoff \in [blocks : SUBSET Blk, queries : SUBSET Query]
  BY DEF NoReq, Request, NoHandoff
<1>2. Types
  BY <1>1, CompressedKVAssumption DEF Init, Types, Layer
<1>3. BatchOK
  BY DEF Init, BatchOK, NoBatch
<1> QED
  BY <1>2, <1>3 DEF Init, Inv, Published, Seen

\* A step of the scheduler between two forward passes finds no handoff and
\* no context.
LEMMA IdleInv ==
    ASSUME Inv, pc = "idle"
    PROVE  /\ \A l \in Layer : handoff[l] = NoHandoff
           /\ ctx = {} /\ fb = NoBatch
  BY DEF Inv, Published, BatchOK

LEMMA AdmitPreserves ==
    ASSUME Inv, NEW r \in Row, NEW id \in Rid, NEW n \in MinPrompt..MaxPrompt,
           NEW hit \in PrefixHit, Admit(r, id, n, hit)
    PROVE  Inv'
<1>1. [rid |-> id, prompt |-> n, hit |-> hit, len |-> hit] \in Request
  BY CompressedKVAssumption DEF Request
<1>2. Types'
  BY <1>1 DEF Inv, Types, Admit
<1>3. \A l \in Layer : handoff[l] = NoHandoff /\ ctx = {} /\ fb = NoBatch
  BY IdleInv DEF Admit
<1>4. ctx' = {} /\ fb' = NoBatch
  BY IdleInv DEF Admit
<1>5. BatchOK'
  BY <1>4 DEF Inv, BatchOK, NoBatch
<1>6. Published' /\ Seen'
  BY <1>3, <1>4 DEF Published, Seen, Admit
<1> QED
  BY <1>2, <1>5, <1>6 DEF Inv

LEMMA ReleasePreserves ==
    ASSUME Inv, NEW r \in Row, Release(r)
    PROVE  Inv'
<1>1. NoReq \in Request
  BY DEF NoReq, Request
<1>2. Types'
  BY <1>1 DEF Inv, Types, Release
<1>3. \A l \in Layer : handoff[l] = NoHandoff
  BY IdleInv DEF Release
<1>4. ctx' = {} /\ fb' = NoBatch
  BY IdleInv DEF Release
<1>5. BatchOK'
  BY <1>4 DEF Inv, BatchOK, NoBatch
<1>6. Published' /\ Seen'
  BY <1>3, <1>4 DEF Published, Seen, Release
<1> QED
  BY <1>2, <1>5, <1>6 DEF Inv

LEMMA BeginPreserves ==
    ASSUME Inv, pc = "idle", NEW extend \in BOOLEAN, NEW n \in 1..MaxBatch,
           NEW batch \in Batches(n), NEW stop \in [1..n -> Nat],
           \A i \in 1..n : req[batch[i]] # NoReq /\ req[batch[i]].len < stop[i],
           Begin(extend, n, batch, stop)
    PROVE  Inv'
<1>1. /\ \A l \in Layer : handoff[l] = NoHandoff
      /\ ctx' = {} /\ handoff' = handoff /\ persist' = persist
      /\ pc' = "compress" /\ layer' = 1
  BY IdleInv DEF Begin
<1>2. /\ fb'.extend = extend /\ fb'.n = n /\ fb'.row = batch
      /\ fb'.start = [i \in 1..n |-> req[batch[i]].len] /\ fb'.stop = stop
  BY DEF Begin
<1>3. n \in Nat
  BY CompressedKVAssumption
<1>4. req \in [Row -> Request] /\ batch \in [1..n -> Row]
  BY DEF Inv, Types, Batches
<1>5. ASSUME NEW r \in Row
      PROVE  req'[r] \in Request /\ req'[r].rid = req[r].rid
  <2>1. req[r] \in Request
    BY <1>4
  <2>2. CASE \E i \in 1..n : batch[i] = r
    <3> DEFINE c == CHOOSE i \in 1..n : batch[i] = r
    <3>1. req'[r] = [req[r] EXCEPT !.len = stop[c]]
      BY <2>2 DEF Begin
    <3>2. c \in 1..n
      BY <2>2
    <3> HIDE DEF c
    <3>3. stop[c] \in Nat
      BY <3>2
    <3> QED
      BY <2>1, <3>1, <3>3 DEF Request
  <2>3. CASE ~ \E i \in 1..n : batch[i] = r
    BY <2>1, <2>3 DEF Begin
  <2> QED
    BY <2>2, <2>3
<1>6. Types'
  <2>1. req' \in [Row -> Request]
    <3>1. req' = [r \in Row |-> req'[r]]
      BY DEF Begin
    <3> QED
      BY <1>5, <3>1
  <2>2. ASSUME NEW r \in Row, req'[r] # NoReq PROVE req'[r].rid \in Rid
    <3>1. CASE req[r] = NoReq
      <4>1. \A i \in 1..n : batch[i] # r
        BY <3>1
      <4>2. req'[r] = req[r]
        BY <4>1 DEF Begin
      <4> QED
        BY <2>2, <3>1, <4>2
    <3>2. CASE req[r] # NoReq
      BY <1>5, <3>2 DEF Inv, Types
    <3> QED
      BY <3>1, <3>2
  <2>3. 1 \in Layer
    BY CompressedKVAssumption DEF Layer
  <2> QED
    BY <1>1, <2>1, <2>2, <2>3 DEF Inv, Types
<1>7. BatchOK'
  <2>1. ASSUME NEW i \in 1..n
        PROVE  /\ batch[i] \in Row
               /\ req[batch[i]].len \in Nat /\ stop[i] \in Nat
               /\ req[batch[i]].len < stop[i]
               /\ req'[batch[i]].rid \in Rid
    <3>1. batch[i] \in Row /\ req[batch[i]] # NoReq
      BY <1>4
    <3>2. req[batch[i]].rid \in Rid
      BY <3>1 DEF Inv, Types
    <3> QED
      BY <1>4, <1>5, <3>1, <3>2 DEF Request
  <2>2. \A i, j \in 1..n : batch[i] = batch[j] => i = j
    BY DEF Batches
  <2> QED
    BY <1>1, <1>2, <1>3, <2>1, <2>2 DEF BatchOK
<1>8. Published' /\ Seen'
  BY <1>1 DEF Published, Seen
<1> QED
  BY <1>6, <1>7, <1>8 DEF Inv

LEMMA BeginExtendPreserves ==
    ASSUME Inv, NEW n \in 1..MaxBatch, NEW batch \in Batches(n), BeginExtend(n, batch)
    PROVE  Inv'
<1> DEFINE stop == [i \in 1..n |-> IF req[batch[i]].prompt - req[batch[i]].len <= Chunk
                                   THEN req[batch[i]].prompt
                                   ELSE req[batch[i]].len + Chunk]
<1>1. pc = "idle" /\ Begin(TRUE, n, batch, stop)
  BY DEF BeginExtend
<1>2. ASSUME NEW i \in 1..n
      PROVE  stop[i] \in Nat /\ req[batch[i]] # NoReq /\ req[batch[i]].len < stop[i]
  <2>1. req[batch[i]] \in Request
    BY DEF Inv, Types, Batches
  <2>2. req[batch[i]].len < req[batch[i]].prompt
    BY DEF BeginExtend
  <2> QED
    BY <2>1, <2>2, CompressedKVAssumption DEF Request, NoReq
<1>3. stop \in [1..n -> Nat]
  BY <1>2
<1> HIDE DEF stop
<1> QED
  BY <1>1, <1>2, <1>3, BeginPreserves

LEMMA BeginDecodePreserves ==
    ASSUME Inv, NEW n \in 1..MaxBatch, NEW batch \in Batches(n), BeginDecode(n, batch)
    PROVE  Inv'
<1> DEFINE stop == [i \in 1..n |-> req[batch[i]].len + 1]
<1>1. pc = "idle" /\ Begin(FALSE, n, batch, stop)
  BY DEF BeginDecode
<1>2. ASSUME NEW i \in 1..n
      PROVE  stop[i] \in Nat /\ req[batch[i]] # NoReq /\ req[batch[i]].len < stop[i]
  <2>1. req[batch[i]] \in Request
    BY DEF Inv, Types, Batches
  <2>2. req[batch[i]] # NoReq
    BY DEF BeginDecode
  <2> QED
    BY <2>1, <2>2 DEF Request
<1>3. stop \in [1..n -> Nat]
  BY <1>2
<1> HIDE DEF stop
<1> QED
  BY <1>1, <1>2, <1>3, BeginPreserves

\* What a compressor step leaves alone suffices to keep BatchOK and Seen.
LEMMA CompressKeeps ==
    ASSUME Inv, pc = "compress", pc' = "attend", UNCHANGED <<req, fb, layer, ctx>>
    PROVE  /\ BatchOK' /\ Seen'
           /\ \A l \in Layer : handoff[l] = NoHandoff
           /\ \A l \in Layer : CompBlocks(l)' = CompBlocks(l)
           /\ Queries' = Queries
<1>1. BatchOK'
  BY DEF Inv, BatchOK
<1>2. \A l \in Layer : CompBlocks(l)' = CompBlocks(l)
  BY DEF CompBlocks, BlocksOf
<1>3. Seen'
  BY <1>2 DEF Inv, Seen, Sees
<1>4. Queries' = Queries
  BY DEF Queries
<1>5. \A l \in Layer : handoff[l] = NoHandoff
  BY DEF Inv, Published
<1> QED
  BY <1>1, <1>2, <1>3, <1>4, <1>5

LEMMA CompressExtendPreserves ==
    ASSUME Inv, CompressExtend
    PROVE  Inv'
<1>1. /\ BatchOK' /\ Seen'
      /\ \A l \in Layer : handoff[l] = NoHandoff
      /\ \A l \in Layer : CompBlocks(l)' = CompBlocks(l)
      /\ Queries' = Queries
  BY CompressKeeps DEF CompressExtend
<1>2. Types /\ BatchOK /\ layer \in Layer
  BY DEF Inv, Types
<1>3. CompBlocks(layer) \subseteq Blk
  BY <1>2, BatchBlocks
<1>4. Queries \subseteq Query
  BY <1>2, QueriesOfBatch
<1>5. persist' \in [Layer -> [Row -> SUBSET Pay]]
  <2> DEFINE new == [r \in Row |->
                       IF \E i \in 1..fb.n : fb.row[i] = r /\ BlocksOf(layer, i) # {}
                       THEN {Payload(b) : b \in {c \in CompBlocks(layer) : fb.row[c.reqid] = r}}
                       ELSE persist[layer][r]]
  <2>1. persist' = [persist EXCEPT ![layer] = new]
    BY DEF CompressExtend
  <2>2. ASSUME NEW r \in Row PROVE new[r] \in SUBSET Pay
    <3>1. {Payload(b) : b \in {c \in CompBlocks(layer) : fb.row[c.reqid] = r}} \subseteq Pay
      BY <1>3, PayloadType
    <3>2. persist[layer][r] \subseteq Pay
      BY <1>2 DEF Types
    <3> QED
      BY <3>1, <3>2
  <2>3. new \in [Row -> SUBSET Pay]
    BY <2>2
  <2> HIDE DEF new
  <2> QED
    BY <1>2, <2>1, <2>3 DEF Types
<1>6. handoff' = [handoff EXCEPT ![layer] = [blocks |-> CompBlocks(layer), queries |-> Queries]]
  BY DEF CompressExtend
<1>7. Types'
  <2>1. [blocks |-> CompBlocks(layer), queries |-> Queries]
           \in [blocks : SUBSET Blk, queries : SUBSET Query]
    BY <1>3, <1>4
  <2>2. handoff' \in [Layer -> [blocks : SUBSET Blk, queries : SUBSET Query]]
    BY <1>2, <1>6, <2>1 DEF Types
  <2> QED
    BY <1>2, <1>5, <2>2 DEF Types, CompressExtend
<1>8. Published'
  <2>1. handoff'[layer] = [blocks |-> CompBlocks(layer), queries |-> Queries]
    BY <1>2, <1>6 DEF Types
  <2>2. \A l \in Layer : l # layer => handoff'[l] = NoHandoff
    BY <1>1, <1>2, <1>6 DEF Types
  <2>3. handoff'[layer] # NoHandoff
    BY <2>1 DEF NoHandoff, CompressExtend
  <2>4. Publishes(layer)' = CompBlocks(layer)
    BY <1>1, <1>2 DEF Publishes, CompressExtend
  <2>5. pc' = "attend" /\ layer' = layer
    BY DEF CompressExtend
  <2> QED
    BY <1>1, <2>1, <2>2, <2>3, <2>4, <2>5 DEF Published
<1> QED
  BY <1>1, <1>7, <1>8 DEF Inv

LEMMA CompressDecodePreserves ==
    ASSUME Inv, CompressDecode
    PROVE  Inv'
<1>1. /\ BatchOK' /\ Seen'
      /\ \A l \in Layer : handoff[l] = NoHandoff
      /\ Queries' = Queries
  BY CompressKeeps DEF CompressDecode
<1>2. Types /\ BatchOK /\ layer \in Layer
  BY DEF Inv, Types
<1>3. PersistedBlocks(layer) \subseteq Blk /\ Queries \subseteq Query
  BY <1>2, RowBlocks, QueriesOfBatch
<1>4. handoff' = [handoff EXCEPT ![layer] =
                     [blocks |-> PersistedBlocks(layer), queries |-> Queries]]
  BY DEF CompressDecode
<1>5. Types'
  <2>1. [blocks |-> PersistedBlocks(layer), queries |-> Queries]
           \in [blocks : SUBSET Blk, queries : SUBSET Query]
    BY <1>3
  <2>2. handoff' \in [Layer -> [blocks : SUBSET Blk, queries : SUBSET Query]]
    BY <1>2, <1>4, <2>1 DEF Types
  <2> QED
    BY <1>2, <2>2 DEF Types, CompressDecode
<1>6. Published'
  <2>1. handoff'[layer] = [blocks |-> PersistedBlocks(layer), queries |-> Queries]
    BY <1>2, <1>4 DEF Types
  <2>2. \A l \in Layer : l # layer => handoff'[l] = NoHandoff
    BY <1>1, <1>2, <1>4 DEF Types
  <2>3. handoff'[layer] # NoHandoff
    BY <2>1 DEF NoHandoff, CompressDecode
  <2>4. Publishes(layer)' = PersistedBlocks(layer)
    BY DEF Publishes, PersistedBlocks, CompressDecode
  <2>5. pc' = "attend" /\ layer' = layer
    BY DEF CompressDecode
  <2> QED
    BY <1>1, <2>1, <2>2, <2>3, <2>4, <2>5 DEF Published
<1> QED
  BY <1>1, <1>5, <1>6 DEF Inv

LEMMA CompressNothingPreserves ==
    ASSUME Inv, CompressNoWindow \/ CompressDecodeNothing
    PROVE  Inv'
<1>1. /\ pc = "compress" /\ pc' = "attend" /\ layer' = layer
      /\ UNCHANGED <<req, persist, handoff, fb, ctx>>
      /\ Publishes(layer) = {}
  BY DEF CompressNoWindow, CompressDecodeNothing, Publishes
<1>2. BatchOK' /\ Seen' /\ \A l \in Layer : handoff[l] = NoHandoff
  BY <1>1, CompressKeeps
<1>3. Types'
  BY <1>1 DEF Inv, Types
<1>4. Publishes(layer)' = Publishes(layer)
  BY <1>1 DEF Publishes, CompBlocks, BlocksOf, PersistedBlocks
<1>5. Published'
  BY <1>1, <1>2, <1>4 DEF Published
<1> QED
  BY <1>2, <1>3, <1>5 DEF Inv

LEMMA AttendPreserves ==
    ASSUME Inv, Attend
    PROVE  Inv'
<1>1. Types /\ BatchOK /\ Published /\ Seen /\ layer \in Layer
  BY DEF Inv, Types
<1>2. /\ pc = "attend" /\ UNCHANGED <<req, persist, fb>>
      /\ handoff' = [handoff EXCEPT ![layer] = NoHandoff]
      /\ layer' \in Layer /\ pc' \in {"compress", "done"}
  <2>1. layer' \in Layer
    BY <1>1, CompressedKVAssumption DEF Attend, Layer
  <2> QED
    BY <2>1 DEF Attend
<1>3. NoHandoff \in [blocks : SUBSET Blk, queries : SUBSET Query]
  BY DEF NoHandoff
<1>4. Types'
  BY <1>1, <1>2, <1>3 DEF Types
<1>5. BatchOK'
  BY <1>1, <1>2 DEF BatchOK
<1>6. Published'
  <2>1. \A l \in Layer : handoff'[l] = NoHandoff
    BY <1>1, <1>2 DEF Types, Published
  <2> QED
    BY <1>2, <2>1 DEF Published
<1>7. /\ handoff[layer].blocks = Publishes(layer)
      /\ handoff[layer].blocks # {} => handoff[layer].queries = Queries
  <2>1. CASE handoff[layer] = NoHandoff
    <3>1. Publishes(layer) = {}
      BY <1>1, <1>2, <2>1 DEF Published
    <3>2. handoff[layer].blocks = {}
      BY <2>1 DEF NoHandoff
    <3> QED
      BY <3>1, <3>2
  <2>2. CASE handoff[layer] # NoHandoff
    <3>1. handoff[layer] = [blocks |-> Publishes(layer), queries |-> Queries]
      BY <1>1, <2>2 DEF Published
    <3>2. handoff[layer].blocks = Publishes(layer) /\ handoff[layer].queries = Queries
      BY <3>1
    <3> QED
      BY <3>2
  <2> QED
    BY <2>1, <2>2
<1>8. Publishes(layer) \subseteq Blk
  BY <1>1, PublishesBlocks
<1>9. \A l \in Layer : CompBlocks(l)' = CompBlocks(l)
  BY <1>2 DEF CompBlocks, BlocksOf
<1>10. ASSUME NEW q \in Queries, NEW c,
              c = [layer |-> layer, reqid |-> q.reqid, pos |-> q.pos,
                   sees  |-> {Payload(b) : b \in {d \in handoff[layer].blocks :
                                                     /\ q \in handoff[layer].queries
                                                     /\ Visible(layer, q, d)}}]
       PROVE  /\ c.layer \in Layer /\ c.reqid \in 1..fb.n
              /\ c.pos \in fb.start[c.reqid]..(fb.stop[c.reqid] - 1)
              /\ c.sees = Sees(c, Publishes(c.layer))
              /\ \A b \in c.sees : b.first + Ratio[c.layer] - 1 <= c.pos
  <2>1. /\ q \in Query /\ q.reqid \in 1..fb.n
        /\ q.pos \in fb.start[q.reqid]..(fb.stop[q.reqid] - 1)
        /\ q = [reqid |-> q.reqid, pos |-> q.pos]
    BY <1>1, QueriesOfBatch
  <2>2. c.layer = layer /\ c.reqid = q.reqid /\ c.pos = q.pos
    BY <1>10
  <2>3. c.sees = {Payload(b) : b \in {d \in Publishes(layer) : Visible(layer, q, d)}}
    BY <1>7, <1>10
  <2>4. c.sees = Sees(c, Publishes(c.layer))
    BY <2>1, <2>2, <2>3 DEF Sees
  <2>5. ASSUME NEW b \in c.sees PROVE b.first + Ratio[c.layer] - 1 <= c.pos
    <3>1. PICK d \in Publishes(layer) : Visible(layer, q, d) /\ b = Payload(d)
      BY <2>3
    <3>2. b.first = d.first
      BY <3>1 DEF Payload
    <3> QED
      BY <2>2, <3>1, <3>2, <1>8, CompressedKVAssumption, <2>1, <1>1 DEF Visible, Blk, Query
  <2> QED
    BY <1>1, <2>1, <2>2, <2>4, <2>5
<1>11. Seen'
  <2> SUFFICES ASSUME NEW c \in ctx'
               PROVE  /\ c.layer \in Layer /\ c.reqid \in 1..fb'.n
                      /\ c.pos \in fb'.start[c.reqid]..(fb'.stop[c.reqid] - 1)
                      /\ fb'.extend => c.sees = Sees(c, CompBlocks(c.layer)')
                      /\ \A b \in c.sees : b.first + Ratio[c.layer] - 1 <= c.pos
    BY DEF Seen, Sees, Visible
  <2>1. fb' = fb
    BY <1>2
  <2>2. CASE c \in ctx
    <3>1. c.layer \in Layer
      BY <1>1, <2>2 DEF Seen
    <3>2. CompBlocks(c.layer)' = CompBlocks(c.layer)
      BY <1>2 DEF CompBlocks, BlocksOf
    <3> QED
      BY <1>1, <2>1, <2>2, <3>1, <3>2 DEF Seen
  <2>3. CASE c \notin ctx
    <3>1. PICK q \in Queries :
             c = [layer |-> layer, reqid |-> q.reqid, pos |-> q.pos,
                  sees  |-> {Payload(b) : b \in {d \in handoff[layer].blocks :
                                                    /\ q \in handoff[layer].queries
                                                    /\ Visible(layer, q, d)}}]
      BY <2>3 DEF Attend
    <3>2. /\ c.layer \in Layer /\ c.reqid \in 1..fb.n
          /\ c.pos \in fb.start[c.reqid]..(fb.stop[c.reqid] - 1)
          /\ c.sees = Sees(c, Publishes(c.layer))
          /\ \A b \in c.sees : b.first + Ratio[c.layer] - 1 <= c.pos
      BY <1>10, <3>1
    <3>3. CompBlocks(c.layer)' = CompBlocks(c.layer)
      BY <1>2 DEF CompBlocks, BlocksOf
    <3> QED
      BY <2>1, <3>2, <3>3 DEF Publishes
  <2> QED
    BY <2>2, <2>3
<1> QED
  BY <1>4, <1>5, <1>6, <1>11 DEF Inv

LEMMA FinishPreserves ==
    ASSUME Inv, Finish
    PROVE  Inv'
<1>1. Types'
  BY DEF Inv, Types, Finish
<1>2. \A l \in Layer : handoff'[l] = NoHandoff
  BY DEF Inv, Published, Finish
<1>3. BatchOK'
  BY DEF BatchOK, Finish, NoBatch
<1>4. Published' /\ Seen'
  BY <1>2 DEF Published, Seen, Finish
<1> QED
  BY <1>1, <1>3, <1>4 DEF Inv

\* Every reachable state pairs a handoff with its batch and its layer.
THEOREM Invariance == Spec => []Inv
<1>1. Init => Inv
  BY InitInv
<1>2. Inv /\ [Next]_vars => Inv'
  <2> SUFFICES ASSUME Inv, [Next]_vars PROVE Inv'
    OBVIOUS
  <2>1. CASE Schedule
    <3>1. ASSUME NEW r \in Row, NEW id \in Rid, NEW n \in MinPrompt..MaxPrompt,
                 NEW hit \in PrefixHit, Admit(r, id, n, hit)
          PROVE  Inv'
      BY <3>1, AdmitPreserves
    <3>2. ASSUME NEW n \in 1..MaxBatch, NEW batch \in Batches(n), BeginExtend(n, batch)
          PROVE  Inv'
      BY <3>2, BeginExtendPreserves
    <3>3. ASSUME NEW n \in 1..MaxBatch, NEW batch \in Batches(n), BeginDecode(n, batch)
          PROVE  Inv'
      BY <3>3, BeginDecodePreserves
    <3>4. ASSUME NEW r \in Row, Release(r) PROVE Inv'
      BY <3>4, ReleasePreserves
    <3> QED
      BY <2>1, <3>1, <3>2, <3>3, <3>4 DEF Schedule
  <2>2. CASE Forward
    BY <2>2, CompressExtendPreserves, CompressDecodePreserves, CompressNothingPreserves,
       AttendPreserves, FinishPreserves DEF Forward
  <2>3. CASE UNCHANGED vars
    BY <2>3 DEF vars, Inv, Types, BatchOK, Published, Publishes, Seen, Sees, Queries,
                CompBlocks, BlocksOf, PersistedBlocks
  <2> QED
    BY <2>1, <2>2, <2>3 DEF Next
<1> QED
  BY <1>1, <1>2, PTL DEF Spec

\* A handoff is popped by the layer and the forward pass that published it,
\* whichever of its returns the compressor took.
THEOREM HandoffIsFresh == Spec => []HandoffFresh
<1>1. Inv => HandoffFresh
  <2> SUFFICES ASSUME Inv, NEW l \in Layer, handoff[l] # NoHandoff
               PROVE  pc = "attend" /\ layer = l /\ handoff[l].queries = Queries
    BY DEF HandoffFresh
  <2>1. /\ pc = "attend" /\ layer = l
        /\ handoff[l] = [blocks |-> Publishes(l), queries |-> Queries]
    BY DEF Inv, Published
  <2> QED
    BY <2>1
<1> QED
  BY <1>1, Invariance, PTL

\* No query attends to a block that ends after it, even one that an earlier
\* request left in its row.
THEOREM BlocksArePast == Spec => []NoFutureBlock
<1>1. Inv => NoFutureBlock
  BY DEF Inv, Seen, NoFutureBlock
<1> QED
  BY <1>1, Invariance, PTL

\* The requests of a prefill batch are isolated from one another.
THEOREM PrefillIsIsolated == Spec => []PrefillIsolated
<1>1. Inv => PrefillIsolated
  <2> SUFFICES ASSUME Inv, fb.extend, NEW c \in ctx, NEW b \in c.sees
               PROVE  b.rid = Asker(c).rid
    BY DEF PrefillIsolated
  <2>1. c.layer \in Layer /\ c.sees = Sees(c, CompBlocks(c.layer))
    BY DEF Inv, Seen
  <2>2. PICK d \in CompBlocks(c.layer) :
           /\ Visible(c.layer, [reqid |-> c.reqid, pos |-> c.pos], d)
           /\ b = Payload(d)
    BY <2>1 DEF Sees
  <2>3. d.reqid = c.reqid /\ b.rid = d.rid
    BY <2>2 DEF Visible, Payload
  <2>4. d.rid = req[fb.row[d.reqid]].rid
    BY <2>1, <2>2, BatchBlocks DEF Inv
  <2> QED
    BY <2>3, <2>4 DEF Asker
<1> QED
  BY <1>1, Invariance, PTL

\* A prefill from position 0 attends to exactly the blocks of the model's
\* definition: the windows of its extend that end at or before the query are
\* the complete blocks of its past.
THEOREM PrefillFromZeroIsExact == Spec => []PrefillFromZero
<1>1. Inv => PrefillFromZero
  <2> SUFFICES ASSUME Inv, fb.extend, NEW c \in ctx, fb.start[c.reqid] = 0
               PROVE  c.sees = RefBlocks(c.layer, Asker(c), c.pos, fb.stop[c.reqid])
    BY DEF PrefillFromZero
  <2> DEFINE l == c.layer
             i == c.reqid
             R == Ratio[l]
             m == fb.stop[i]
             nwin == m \div R
             id == req[fb.row[i]].rid
             Ref(j) == [rid |-> id, first |-> j * R,
                        from |-> IF Overlap(l) /\ j > 0 THEN (j - 1) * R ELSE j * R]
  <2>1. /\ l \in Layer /\ i \in 1..fb.n
        /\ c.pos \in 0..(m - 1) /\ m \in Nat /\ R \in Nat \ {0}
        /\ c.sees = Sees(c, CompBlocks(l))
    BY CompressedKVAssumption DEF Inv, Seen, BatchOK
  <2>2. nwin \in Nat
    BY <2>1
  <2>3. ASSUME NEW w \in Nat
        PROVE  /\ w * R \in Nat
               /\ w < nwin <=> (w + 1) * R <= m
               /\ (w + 1) * R = w * R + R
    <3>1. w < m \div R <=> (w + 1) * R <= m
      BY <2>1, FullBlocks
    <3>2. \A u \in Nat \ {0} : w * u \in Nat /\ (w + 1) * u = w * u + u
      OBVIOUS
    <3>3. w * R \in Nat /\ (w + 1) * R = w * R + R
      BY <2>1, <3>2, Zenon
    <3> QED
      BY <3>1, <3>3
  <2>4. ASSUME NEW x \in c.sees
        PROVE  x \in RefBlocks(l, Asker(c), c.pos, m)
    <3>1. PICK d \in CompBlocks(l) : Visible(l, [reqid |-> i, pos |-> c.pos], d) /\ x = Payload(d)
      BY <2>1, <2>4 DEF Sees
    <3>2. d.reqid = i /\ c.pos >= d.first + R - 1 /\ d \in BlocksOf(l, d.reqid)
      BY <2>1, <3>1, BatchBlocks DEF Visible, Inv
    <3>3. d \in BlocksOf(l, i)
      BY <3>2
    <3>4. PICK w \in 0..(((m - 0) \div R) - 1) :
             d = [rid |-> id, reqid |-> i, first |-> 0 + w * R,
                  from |-> IF Overlap(l) /\ w > 0 THEN 0 + (w - 1) * R ELSE 0 + w * R]
      BY <3>3 DEF BlocksOf
    <3>5. w \in Nat /\ w < nwin
      BY <2>1, <2>2, <3>4
    <3>6. w * R \in Nat /\ (w + 1) * R <= m /\ (w + 1) * R = w * R + R
      BY <2>3, <3>5
    <3>7. d.first = w * R
      BY <3>4, <3>6
    <3>8. w > 0 => 0 + (w - 1) * R = (w - 1) * R
      <4>1. w > 0 => w - 1 \in Nat
        BY <3>5
      <4> QED
        BY <2>3, <4>1
    <3>9. x = Ref(w)
      BY <3>1, <3>4, <3>6, <3>8 DEF Payload
    <3>10. w \in 0..(m - 1)
      <4>1. w <= w * R
        BY <2>1, <3>5
      <4> QED
        BY <2>1, <3>5, <3>6, <4>1
    <3>11. (w + 1) * R <= c.pos + 1
      BY <2>1, <3>2, <3>6, <3>7
    <3> QED
      BY <3>6, <3>9, <3>10, <3>11 DEF RefBlocks, Asker
  <2>5. ASSUME NEW x \in RefBlocks(l, Asker(c), c.pos, m)
        PROVE  x \in c.sees
    <3>1. PICK j \in 0..(m - 1) :
             /\ (j + 1) * R <= m /\ (j + 1) * R <= c.pos + 1
             /\ x = Ref(j)
      BY <2>5 DEF RefBlocks, Asker
    <3>2. j \in Nat /\ j * R \in Nat /\ j < nwin /\ (j + 1) * R = j * R + R
      BY <2>1, <2>3, <3>1
    <3>3. j > 0 => 0 + (j - 1) * R = (j - 1) * R
      <4>1. j > 0 => j - 1 \in Nat
        BY <3>2
      <4> QED
        BY <2>3, <4>1
    <3> DEFINE d == [rid |-> id, reqid |-> i, first |-> 0 + j * R,
                     from |-> IF Overlap(l) /\ j > 0 THEN 0 + (j - 1) * R ELSE 0 + j * R]
    <3>4. j \in 0..(((m - 0) \div R) - 1)
      BY <2>1, <2>2, <3>2
    <3>5. d \in BlocksOf(l, i)
      BY <3>4 DEF BlocksOf
    <3>6. d \in CompBlocks(l)
      BY <2>1, <3>5 DEF CompBlocks
    <3>7. d.first = j * R /\ d.reqid = i
      BY <3>2
    <3>8. x = Payload(d)
      BY <3>1, <3>2, <3>3 DEF Payload
    <3>9. Visible(l, [reqid |-> i, pos |-> c.pos], d)
      BY <2>1, <3>1, <3>2, <3>7 DEF Visible
    <3> QED
      BY <2>1, <3>6, <3>8, <3>9 DEF Sees
  <2> QED
    BY <2>1, <2>4, <2>5 DEF RefBlocks, Sees
<1> QED
  BY <1>1, Invariance, PTL

\* Each variable keeps its type.
THEOREM TypeCorrect == Spec => []TypeOK
<1>1. Inv => TypeOK
  <2> SUFFICES ASSUME Inv PROVE TypeOK
    OBVIOUS
  <2>1. Types /\ BatchOK /\ Published /\ Seen
    BY DEF Inv
  <2>2. ASSUME NEW r \in Row
        PROVE  /\ req[r].rid \in Rid \cup {NoRid}
               /\ {req[r].prompt, req[r].hit, req[r].len} \subseteq Nat
    BY <2>1 DEF Types, Request
  <2>3. ASSUME NEW l \in Layer, NEW r \in Row, NEW b \in persist[l][r]
        PROVE  b.rid \in Rid /\ b.first \in Nat /\ b.from \in Nat
    <3>1. b \in Pay
      BY <2>1 DEF Types
    <3> QED
      BY <3>1 DEF Pay
  <2>4. ASSUME NEW l \in Layer, NEW b \in handoff[l].blocks
        PROVE  b.reqid \in 1..fb.n /\ b.rid \in Rid /\ b.first \in Nat
    <3>1. handoff[l] # NoHandoff
      BY DEF NoHandoff
    <3>2. handoff[l] = [blocks |-> Publishes(l), queries |-> Queries]
      BY <2>1, <3>1 DEF Published
    <3>3. b \in Publishes(l)
      BY <3>2
    <3>4. b \in Blk /\ b.reqid \in 1..fb.n
      BY <2>1, <3>3, PublishesBlocks
    <3> QED
      BY <3>4 DEF Blk
  <2> QED
    BY <2>1, <2>2, <2>3, <2>4 DEF TypeOK, Types, BatchOK, Seen
<1> QED
  BY <1>1, Invariance, PTL

\* What a query may attend to, in every batch, chunk and layer (the coverage
\* mask over the blocks of the handoff).
THEOREM VisibleIsExact == Spec => []VisibleExact
<1>1. NoFutureBlock /\ PrefillIsolated /\ PrefillFromZero => VisibleExact
  BY DEF VisibleExact
<1> QED
  BY BlocksArePast, PrefillIsIsolated, PrefillFromZeroIsExact, <1>1, PTL


-----------------------------------------------------------------------------
(* A prompt prefilled in one pass, and its decode. *)

OneShot(q) == q.hit = 0 /\ q.prompt <= Chunk

\* The blocks of the first m tokens of request id on layer l.
BlockAt(l, id, j) ==
    [rid |-> id, first |-> j * Ratio[l],
     from |-> IF Overlap(l) /\ j > 0 THEN (j - 1) * Ratio[l] ELSE j * Ratio[l]]

PromptBlocks(l, id, m) ==
    {BlockAt(l, id, j) : j \in {k \in 0..(m - 1) : (k + 1) * Ratio[l] <= m}}

\* The extend that runs has yet to compress layer l.
Pending(l) ==
    fb.extend /\ ((pc = "compress" /\ l >= layer) \/ (pc = "attend" /\ l > layer))

\* Such a prompt is either not begun or done.
LengthsOK ==
    \A r \in Row : OneShot(req[r]) => req[r].len = 0 \/ req[r].len >= req[r].prompt

BatchFits ==
    \A i \in 1..fb.n :
        LET q == req[fb.row[i]]
        IN  /\ fb.extend /\ OneShot(q) => fb.start[i] = 0 /\ fb.stop[i] = q.prompt
            /\ ~fb.extend => q.len >= q.prompt

\* Once its layer is compressed, the row of a prompt that is done holds the
\* blocks of that prompt: what was there before is replaced.
Kept ==
    \A l \in Layer, r \in Row :
        /\ OneShot(req[r]) /\ req[r].len >= req[r].prompt /\ req[r].prompt >= Ratio[l]
        /\ ~ (Pending(l) /\ \E i \in 1..fb.n : fb.row[i] = r)
        => persist[l][r] = PromptBlocks(l, req[r].rid, req[r].prompt)

SeenDecode ==
    ~fb.extend => \A c \in ctx : c.sees = Sees(c, PersistedBlocks(c.layer))

OnePassInv == Inv /\ LengthsOK /\ BatchFits /\ Kept /\ SeenDecode

LEMMA Windows ==
    ASSUME NEW R \in Nat \ {0}, NEW m \in Nat, NEW w \in Nat
    PROVE  /\ w * R \in Nat /\ (w + 1) * R = w * R + R
           /\ w < m \div R <=> (w + 1) * R <= m
           /\ w <= w * R /\ m \div R \in Nat
<1>1. w < m \div R <=> (w + 1) * R <= m
  BY FullBlocks
<1>2. m \div R \in Nat
  OBVIOUS
<1>3. \A u \in Nat \ {0} : w * u \in Nat /\ (w + 1) * u = w * u + u /\ w <= w * u
  OBVIOUS
<1> QED
  BY <1>1, <1>2, <1>3, Zenon

LEMMA BlockFields ==
    ASSUME NEW l \in Layer, NEW id, NEW j \in Nat
    PROVE  /\ BlockAt(l, id, j).first = j * Ratio[l] /\ BlockAt(l, id, j).rid = id
           /\ Ratio[l] \in Nat \ {0}
  BY CompressedKVAssumption DEF BlockAt

\* The windows of an extend from position 0 are the blocks of its tokens.
LEMMA WindowsFromZero ==
    ASSUME Types, BatchOK, NEW l \in Layer, NEW i \in 1..fb.n, fb.start[i] = 0
    PROVE  {Payload(b) : b \in BlocksOf(l, i)} = PromptBlocks(l, req[fb.row[i]].rid, fb.stop[i])
<1> DEFINE R == Ratio[l]
           m == fb.stop[i]
           id == req[fb.row[i]].rid
           nwin == (m - 0) \div R
           Window(w) == [rid |-> id, reqid |-> i, first |-> 0 + w * R,
                         from |-> IF Overlap(l) /\ w > 0 THEN 0 + (w - 1) * R ELSE 0 + w * R]
<1>1. R \in Nat \ {0} /\ m \in Nat
  BY CompressedKVAssumption DEF BatchOK
<1>2. m - 0 = m /\ nwin \in Nat
  <2>1. m - 0 = m
    BY <1>1
  <2> QED
    BY <1>1, <2>1
<1>3. BlocksOf(l, i) = {Window(w) : w \in 0..(nwin - 1)}
  BY DEF BlocksOf
<1>4. ASSUME NEW w \in Nat
      PROVE  Payload(Window(w)) = BlockAt(l, id, w)
  <2>1. 0 + w * R = w * R
    BY <1>1, Windows
  <2>2. w > 0 => 0 + (w - 1) * R = (w - 1) * R
    <3>1. w > 0 => w - 1 \in Nat
      OBVIOUS
    <3> QED
      BY <1>1, <3>1, Windows
  <2> QED
    BY <2>1, <2>2 DEF Payload, BlockAt
<1>5. ASSUME NEW w \in 0..(nwin - 1)
      PROVE  w \in Nat /\ w \in 0..(m - 1) /\ (w + 1) * R <= m
  <2>2. w \in Nat /\ w < m \div R
    BY <1>2
  <2>3. w * R \in Nat /\ (w + 1) * R <= m /\ (w + 1) * R = w * R + R /\ w <= w * R
    BY <1>1, <2>2, Windows
  <2>4. PICK v \in Nat : v = w * R
    BY <2>3
  <2> QED
    BY <1>1, <2>2, <2>3, <2>4
<1>6. ASSUME NEW w \in 0..(m - 1), (w + 1) * R <= m
      PROVE  w \in 0..(nwin - 1)
  <2>1. w \in Nat
    BY <1>1
  <2>2. w < m \div R
    BY <1>1, <1>6, <2>1, Windows
  <2>3. PICK v : v = nwin
    OBVIOUS
  <2>4. v \in Nat /\ w < v
    BY <1>2, <2>2, <2>3
  <2> QED
    BY <2>1, <2>3, <2>4
<1>7. ASSUME NEW x \in {Payload(b) : b \in BlocksOf(l, i)}
      PROVE  x \in PromptBlocks(l, id, m)
  <2>1. PICK w \in 0..(nwin - 1) : x = Payload(Window(w))
    BY <1>3, <1>7
  <2> QED
    BY <2>1, <1>4, <1>5 DEF PromptBlocks
<1>8. ASSUME NEW x \in PromptBlocks(l, id, m)
      PROVE  x \in {Payload(b) : b \in BlocksOf(l, i)}
  <2>1. PICK w \in 0..(m - 1) : (w + 1) * R <= m /\ x = BlockAt(l, id, w)
    BY <1>8 DEF PromptBlocks
  <2>2. x = Payload(Window(w)) /\ w \in 0..(nwin - 1)
    BY <2>1, <1>4, <1>6
  <2> QED
    BY <2>2, <1>3
<1> HIDE DEF Window, nwin
<1> QED
  BY <1>7, <1>8

\* A prompt as long as a block has one.
LEMMA PromptHasBlock ==
    ASSUME NEW l \in Layer, NEW id, NEW m \in Nat, m >= Ratio[l]
    PROVE  PromptBlocks(l, id, m) # {}
<1>1. Ratio[l] \in Nat \ {0}
  BY CompressedKVAssumption
<1>2. 0 \in 0..(m - 1) /\ (0 + 1) * Ratio[l] <= m
  BY <1>1
<1> QED
  BY <1>2 DEF PromptBlocks

\* The visible ones of a prompt's blocks are those the model defines.
LEMMA VisibleOfPrompt ==
    ASSUME NEW l \in Layer, NEW q, NEW p \in Nat, NEW m \in Nat
    PROVE  {b \in PromptBlocks(l, q.rid, m) : p >= b.first + Ratio[l] - 1} = RefBlocks(l, q, p, m)
<1> DEFINE R == Ratio[l]
<1>1. R \in Nat \ {0}
  BY CompressedKVAssumption
<1>2. ASSUME NEW j \in 0..(m - 1)
      PROVE  p >= BlockAt(l, q.rid, j).first + R - 1 <=> (j + 1) * R <= p + 1
  <2>1. j \in Nat
    OBVIOUS
  <2>2. BlockAt(l, q.rid, j).first = j * R
    BY <2>1, BlockFields
  <2>3. PICK v \in Nat : v = j * R /\ (j + 1) * R = v + R
    BY <1>1, <2>1, Windows
  <2> QED
    BY <1>1, <2>2, <2>3
<1>3. ASSUME NEW b \in PromptBlocks(l, q.rid, m), p >= b.first + R - 1
      PROVE  b \in RefBlocks(l, q, p, m)
  <2>1. PICK j \in 0..(m - 1) : (j + 1) * R <= m /\ b = BlockAt(l, q.rid, j)
    BY <1>3 DEF PromptBlocks
  <2>2. (j + 1) * R <= p + 1
    BY <1>2, <1>3, <2>1
  <2> QED
    BY <2>1, <2>2 DEF RefBlocks, BlockAt
<1>4. ASSUME NEW b \in RefBlocks(l, q, p, m)
      PROVE  b \in PromptBlocks(l, q.rid, m) /\ p >= b.first + R - 1
  <2>1. PICK j \in 0..(m - 1) :
           (j + 1) * R <= m /\ (j + 1) * R <= p + 1 /\ b = BlockAt(l, q.rid, j)
    BY <1>4 DEF RefBlocks, BlockAt
  <2> QED
    BY <2>1, <1>2 DEF PromptBlocks
<1> QED
  BY <1>3, <1>4

LEMMA OneInit == Init => LengthsOK /\ BatchFits /\ Kept /\ SeenDecode
<1> SUFFICES ASSUME Init PROVE LengthsOK /\ BatchFits /\ Kept /\ SeenDecode
  OBVIOUS
<1>1. LengthsOK
  BY DEF Init, LengthsOK, NoReq
<1>2. BatchFits /\ SeenDecode
  BY DEF Init, BatchFits, SeenDecode, NoBatch
<1>3. \A l \in Layer, r \in Row : ~(req[r].prompt >= Ratio[l])
  BY CompressedKVAssumption DEF Init, NoReq
<1> QED
  BY <1>1, <1>2, <1>3 DEF Kept

LEMMA OneAdmit ==
    ASSUME OnePassInv, NEW r \in Row, NEW id \in Rid, NEW n \in MinPrompt..MaxPrompt,
           NEW hit \in PrefixHit, Admit(r, id, n, hit)
    PROVE  (LengthsOK /\ BatchFits /\ Kept /\ SeenDecode)'
<1>1. /\ pc = "idle" /\ ctx = {} /\ fb = NoBatch /\ fb.n = 0
      /\ req' = [req EXCEPT ![r] = [rid |-> id, prompt |-> n, hit |-> hit, len |-> hit]]
      /\ UNCHANGED <<persist, handoff, fb, pc, layer, ctx>>
  BY IdleInv DEF Admit, OnePassInv, NoBatch
<1>2. req \in [Row -> Request] /\ hit \in Nat /\ n \in Nat /\ hit < n
  BY CompressedKVAssumption DEF OnePassInv, Inv, Types, Admit
<1>3. req'[r].len = hit /\ req'[r].hit = hit /\ req'[r].prompt = n
  BY <1>1, <1>2
<1>4. \A k \in Row \ {r} : req'[k] = req[k]
  BY <1>1, <1>2
<1>5. LengthsOK'
  BY <1>3, <1>4 DEF OnePassInv, LengthsOK, OneShot
<1>6. BatchFits' /\ SeenDecode'
  BY <1>1 DEF BatchFits, SeenDecode
<1>7. OneShot(req'[r]) => ~(req'[r].len >= req'[r].prompt)
  BY <1>2, <1>3 DEF OneShot
<1>8. \A l \in Layer : ~Pending(l) /\ ~Pending(l)'
  BY <1>1 DEF Pending
<1>9. Kept'
  BY <1>1, <1>4, <1>7, <1>8 DEF OnePassInv, Kept, PromptBlocks, BlockAt
<1> QED
  BY <1>5, <1>6, <1>9

LEMMA OneRelease ==
    ASSUME OnePassInv, NEW r \in Row, Release(r)
    PROVE  (LengthsOK /\ BatchFits /\ Kept /\ SeenDecode)'
<1>1. /\ pc = "idle" /\ ctx = {} /\ fb = NoBatch /\ fb.n = 0
      /\ req' = [req EXCEPT ![r] = NoReq]
      /\ UNCHANGED <<persist, handoff, fb, pc, layer, ctx>>
  BY IdleInv DEF Release, OnePassInv, NoBatch
<1>2. req \in [Row -> Request]
  BY DEF OnePassInv, Inv, Types
<1>3. req'[r].len = 0 /\ req'[r].prompt = 0
  BY <1>1, <1>2 DEF NoReq
<1>4. \A k \in Row \ {r} : req'[k] = req[k]
  BY <1>1, <1>2
<1>5. LengthsOK'
  BY <1>3, <1>4 DEF OnePassInv, LengthsOK, OneShot
<1>6. BatchFits' /\ SeenDecode'
  BY <1>1 DEF BatchFits, SeenDecode
<1>7. \A l \in Layer : ~(req'[r].prompt >= Ratio[l])
  BY <1>3, CompressedKVAssumption
<1>8. \A l \in Layer : ~Pending(l) /\ ~Pending(l)'
  BY <1>1 DEF Pending
<1>9. Kept'
  BY <1>1, <1>4, <1>7, <1>8 DEF OnePassInv, Kept, PromptBlocks, BlockAt
<1> QED
  BY <1>5, <1>6, <1>9

\* What Begin does to the requests: those of the batch get the length stop.
LEMMA BeginReqs ==
    ASSUME Inv, NEW extend \in BOOLEAN, NEW n \in 1..MaxBatch, NEW batch \in Batches(n), NEW stop,
           Begin(extend, n, batch, stop)
    PROVE  /\ \A i \in 1..n : /\ batch[i] \in Row
                              /\ req'[batch[i]] = [req[batch[i]] EXCEPT !.len = stop[i]]
           /\ \A r \in Row : (\A i \in 1..n : batch[i] # r) => req'[r] = req[r]
<1>1. req' = [r \in Row |-> IF \E i \in 1..n : batch[i] = r
                            THEN [req[r] EXCEPT !.len = stop[CHOOSE i \in 1..n : batch[i] = r]]
                            ELSE req[r]]
  BY DEF Begin
<1>2. ASSUME NEW i \in 1..n
      PROVE  /\ batch[i] \in Row
             /\ req'[batch[i]] = [req[batch[i]] EXCEPT !.len = stop[i]]
  <2>1. batch[i] \in Row
    BY DEF Batches
  <2> DEFINE c == CHOOSE k \in 1..n : batch[k] = batch[i]
  <2>2. c \in 1..n /\ batch[c] = batch[i]
    OBVIOUS
  <2>3. c = i
    BY <2>2 DEF Batches
  <2>4. req'[batch[i]] = [req[batch[i]] EXCEPT !.len = stop[c]]
    BY <1>1, <2>1
  <2> QED
    BY <2>1, <2>3, <2>4
<1> QED
  BY <1>1, <1>2

LEMMA OneBeginExtend ==
    ASSUME OnePassInv, NEW n \in 1..MaxBatch, NEW batch \in Batches(n), BeginExtend(n, batch)
    PROVE  (LengthsOK /\ BatchFits /\ Kept /\ SeenDecode)'
<1> DEFINE stop == [i \in 1..n |-> IF req[batch[i]].prompt - req[batch[i]].len <= Chunk
                                   THEN req[batch[i]].prompt
                                   ELSE req[batch[i]].len + Chunk]
<1>1. /\ pc = "idle" /\ Begin(TRUE, n, batch, stop) /\ Inv
      /\ \A i \in 1..n : req[batch[i]].len < req[batch[i]].prompt
      /\ \A l \in Layer : ~Pending(l)
  BY DEF BeginExtend, OnePassInv, Pending
<1>2. /\ fb' = [extend |-> TRUE, n |-> n, row |-> batch,
                start |-> [i \in 1..n |-> req[batch[i]].len], stop |-> stop]
      /\ pc' = "compress" /\ layer' = 1 /\ UNCHANGED <<persist, handoff, ctx>>
  BY <1>1 DEF Begin
<1>3. /\ fb'.extend = TRUE /\ fb'.n = n /\ fb'.row = batch /\ fb'.stop = stop
      /\ fb'.start = [i \in 1..n |-> req[batch[i]].len]
  BY <1>2
<1>20. \A i \in 1..n : stop[i] = IF req[batch[i]].prompt - req[batch[i]].len <= Chunk
                                THEN req[batch[i]].prompt ELSE req[batch[i]].len + Chunk
  OBVIOUS
<1> HIDE DEF stop
<1>4. /\ \A i \in 1..n : /\ batch[i] \in Row
                         /\ req'[batch[i]] = [req[batch[i]] EXCEPT !.len = stop[i]]
      /\ \A r \in Row : (\A i \in 1..n : batch[i] # r) => req'[r] = req[r]
  BY <1>1, BeginReqs
<1>5. ASSUME NEW i \in 1..n
      PROVE  /\ req[batch[i]] \in Request
             /\ stop[i] = IF req[batch[i]].prompt - req[batch[i]].len <= Chunk
                          THEN req[batch[i]].prompt ELSE req[batch[i]].len + Chunk
             /\ OneShot(req[batch[i]]) => req[batch[i]].len = 0 /\ stop[i] = req[batch[i]].prompt
  <2>1. req[batch[i]] \in Request
    BY <1>4 DEF OnePassInv, Inv, Types
  <2>2. ASSUME OneShot(req[batch[i]])
        PROVE  req[batch[i]].len = 0 /\ stop[i] = req[batch[i]].prompt
    <3> DEFINE q == req[batch[i]]
    <3>1. q.len \in Nat /\ q.prompt \in Nat /\ q.len < q.prompt /\ batch[i] \in Row
      BY <1>1, <1>4, <2>1 DEF Request
    <3>2. q.len = 0 \/ q.len >= q.prompt
      BY <2>2, <3>1 DEF OnePassInv, LengthsOK
    <3>3. q.len = 0
      <4> HIDE DEF q
      <4> QED
        BY <3>1, <3>2
    <3> QED
      BY <1>20, <2>2, <3>1, <3>3, CompressedKVAssumption DEF OneShot
  <2> QED
    BY <1>20, <2>1, <2>2
<1>6. \A i \in 1..n : /\ req'[batch[i]].len = stop[i] /\ req'[batch[i]].hit = req[batch[i]].hit
                      /\ req'[batch[i]].prompt = req[batch[i]].prompt
  BY <1>4, <1>5 DEF Request
<1>7. LengthsOK'
  <2> SUFFICES ASSUME NEW r \in Row, OneShot(req'[r])
               PROVE  req'[r].len = 0 \/ req'[r].len >= req'[r].prompt
    BY DEF LengthsOK, OneShot
  <2>1. CASE \A i \in 1..n : batch[i] # r
    BY <1>4, <2>1 DEF OnePassInv, LengthsOK
  <2>2. ASSUME NEW i \in 1..n, batch[i] = r
        PROVE  req'[r].len = 0 \/ req'[r].len >= req'[r].prompt
    BY <1>5, <1>6, <2>2 DEF OneShot, Request
  <2> QED
    BY <2>1, <2>2
<1>8. BatchFits'
  BY <1>3, <1>5, <1>6 DEF BatchFits, OneShot
<1>9. Kept'
  <2>1. \A l \in Layer : Pending(l)'
    BY <1>2, <1>3 DEF Pending, Layer
  <2>2. \A r \in Row : (\A i \in 1..n : batch[i] # r) => req'[r] = req[r]
    BY <1>4
  <2> QED
    BY <1>1, <1>2, <1>3, <2>1, <2>2 DEF OnePassInv, Kept, PromptBlocks, BlockAt
<1>10. SeenDecode'
  BY <1>3 DEF SeenDecode
<1> QED
  BY <1>7, <1>8, <1>9, <1>10

LEMMA OneBeginDecode ==
    ASSUME OnePassInv, NEW n \in 1..MaxBatch, NEW batch \in Batches(n), BeginDecode(n, batch)
    PROVE  (LengthsOK /\ BatchFits /\ Kept /\ SeenDecode)'
<1> DEFINE stop == [i \in 1..n |-> req[batch[i]].len + 1]
<1>1. /\ pc = "idle" /\ Begin(FALSE, n, batch, stop) /\ Inv /\ ctx = {}
      /\ \A i \in 1..n : req[batch[i]].len >= req[batch[i]].prompt
      /\ \A l \in Layer : ~Pending(l)
  BY IdleInv DEF BeginDecode, OnePassInv, Pending
<1>2. /\ fb' = [extend |-> FALSE, n |-> n, row |-> batch,
                start |-> [i \in 1..n |-> req[batch[i]].len], stop |-> stop]
      /\ pc' = "compress" /\ layer' = 1 /\ UNCHANGED <<persist, handoff, ctx>>
  BY <1>1 DEF Begin
<1>3. fb'.extend = FALSE /\ fb'.n = n /\ fb'.row = batch
  BY <1>2
<1>20. \A i \in 1..n : stop[i] = req[batch[i]].len + 1
  OBVIOUS
<1> HIDE DEF stop
<1>4. /\ \A i \in 1..n : /\ batch[i] \in Row
                         /\ req'[batch[i]] = [req[batch[i]] EXCEPT !.len = stop[i]]
      /\ \A r \in Row : (\A i \in 1..n : batch[i] # r) => req'[r] = req[r]
  BY <1>1, BeginReqs
<1>5. \A i \in 1..n : req[batch[i]] \in Request /\ stop[i] = req[batch[i]].len + 1
  BY <1>20, <1>4 DEF OnePassInv, Inv, Types
<1>6. \A i \in 1..n : /\ req'[batch[i]].len = stop[i] /\ req'[batch[i]].hit = req[batch[i]].hit
                      /\ req'[batch[i]].prompt = req[batch[i]].prompt
                      /\ req'[batch[i]].rid = req[batch[i]].rid
                      /\ stop[i] >= req[batch[i]].prompt
  <2> SUFFICES ASSUME NEW i \in 1..n
               PROVE  /\ req'[batch[i]].len = stop[i] /\ req'[batch[i]].hit = req[batch[i]].hit
                      /\ req'[batch[i]].prompt = req[batch[i]].prompt
                      /\ req'[batch[i]].rid = req[batch[i]].rid
                      /\ stop[i] >= req[batch[i]].prompt
    OBVIOUS
  <2>1. /\ req[batch[i]] \in Request /\ stop[i] = req[batch[i]].len + 1
        /\ req[batch[i]].len >= req[batch[i]].prompt
        /\ req'[batch[i]] = [req[batch[i]] EXCEPT !.len = stop[i]]
    BY <1>1, <1>4, <1>5
  <2>2. stop[i] >= req[batch[i]].prompt
    BY <2>1 DEF Request
  <2> QED
    BY <2>1, <2>2 DEF Request
<1>7. LengthsOK'
  <2> SUFFICES ASSUME NEW r \in Row, OneShot(req'[r])
               PROVE  req'[r].len = 0 \/ req'[r].len >= req'[r].prompt
    BY DEF LengthsOK, OneShot
  <2>1. CASE \A i \in 1..n : batch[i] # r
    BY <1>4, <2>1 DEF OnePassInv, LengthsOK
  <2>2. ASSUME NEW i \in 1..n, batch[i] = r
        PROVE  req'[r].len = 0 \/ req'[r].len >= req'[r].prompt
    BY <1>6, <2>2
  <2> QED
    BY <2>1, <2>2
<1>8. BatchFits'
  BY <1>3, <1>6 DEF BatchFits
<1>9. Kept'
  <2> SUFFICES ASSUME NEW l \in Layer, NEW r \in Row, OneShot(req'[r]), req'[r].prompt >= Ratio[l],
                      req'[r].len >= req'[r].prompt
               PROVE  persist'[l][r] = PromptBlocks(l, req'[r].rid, req'[r].prompt)
    BY DEF Kept, PromptBlocks, BlockAt, OneShot
  <2>1. /\ OneShot(req[r]) /\ req[r].len >= req[r].prompt
        /\ req[r].prompt = req'[r].prompt /\ req[r].rid = req'[r].rid
    BY <1>1, <1>4, <1>6 DEF OneShot
  <2> QED
    BY <1>1, <1>2, <2>1 DEF OnePassInv, Kept
<1>10. SeenDecode'
  BY <1>1, <1>2 DEF SeenDecode
<1> QED
  BY <1>7, <1>8, <1>9, <1>10

\* A step inside a forward pass leaves the requests and the batch alone.
LEMMA ForwardKeeps ==
    ASSUME OnePassInv, UNCHANGED <<req, fb>>
    PROVE  LengthsOK' /\ BatchFits'
  BY DEF OnePassInv, LengthsOK, BatchFits

\* Compressing a layer gives each row of the batch that forms a block its own.
LEMMA OneCompressExtend ==
    ASSUME OnePassInv, CompressExtend
    PROVE  (LengthsOK /\ BatchFits /\ Kept /\ SeenDecode)'
<1>1. /\ pc = "compress" /\ pc' = "attend" /\ fb.extend /\ UNCHANGED <<req, fb, layer, ctx>>
      /\ layer \in Layer /\ Types /\ BatchOK
  BY DEF CompressExtend, OnePassInv, Inv, Types
<1>2. LengthsOK' /\ BatchFits'
  BY <1>1, ForwardKeeps
<1>3. SeenDecode'
  BY <1>1 DEF SeenDecode
<1>4. /\ \A l \in Layer \ {layer} : persist'[l] = persist[l]
      /\ \A r \in Row : persist'[layer][r] =
            IF \E i \in 1..fb.n : fb.row[i] = r /\ BlocksOf(layer, i) # {}
            THEN {Payload(b) : b \in {c \in CompBlocks(layer) : fb.row[c.reqid] = r}}
            ELSE persist[layer][r]
  BY <1>1 DEF CompressExtend, Types
<1>5. Kept'
  <2> SUFFICES ASSUME NEW l \in Layer, NEW r \in Row,
                      OneShot(req[r]), req[r].len >= req[r].prompt, req[r].prompt >= Ratio[l],
                      ~(l > layer /\ \E i \in 1..fb.n : fb.row[i] = r)
               PROVE  persist'[l][r] = PromptBlocks(l, req[r].rid, req[r].prompt)
    BY <1>1 DEF Kept, Pending, PromptBlocks, BlockAt, OneShot
  <2>1. CASE l # layer
    <3>1. ~(Pending(l) /\ \E i \in 1..fb.n : fb.row[i] = r)
      BY <1>1, <2>1 DEF Pending, Layer
    <3> QED
      BY <1>4, <2>1, <3>1 DEF OnePassInv, Kept
  <2>2. CASE l = layer /\ \A i \in 1..fb.n : fb.row[i] # r
    BY <1>4, <2>2 DEF OnePassInv, Kept
  <2>3. ASSUME l = layer, NEW i \in 1..fb.n, fb.row[i] = r
        PROVE  persist'[l][r] = PromptBlocks(l, req[r].rid, req[r].prompt)
    <3>1. fb.start[i] = 0 /\ fb.stop[i] = req[r].prompt
      BY <1>1, <2>3 DEF OnePassInv, BatchFits
    <3>2. {Payload(b) : b \in BlocksOf(l, i)} = PromptBlocks(l, req[r].rid, req[r].prompt)
      BY <1>1, <2>3, <3>1, WindowsFromZero
    <3>3. req[r].prompt \in Nat
      BY <1>1 DEF Types, Request
    <3>4. BlocksOf(l, i) # {}
      BY <3>2, <3>3, PromptHasBlock
    <3>5. {c \in CompBlocks(l) : fb.row[c.reqid] = r} = BlocksOf(l, i)
      <4>1. ASSUME NEW c \in CompBlocks(l), fb.row[c.reqid] = r
            PROVE  c \in BlocksOf(l, i)
        <5>1. c.reqid \in 1..fb.n /\ c \in BlocksOf(l, c.reqid)
          BY <1>1, BatchBlocks
        <5>2. c.reqid = i
          BY <1>1, <2>3, <4>1, <5>1 DEF BatchOK
        <5> QED
          BY <5>1, <5>2
      <4>2. ASSUME NEW c \in BlocksOf(l, i)
            PROVE  c \in CompBlocks(l) /\ fb.row[c.reqid] = r
        BY <1>1, <2>3, BlockOfRow DEF CompBlocks
      <4> QED
        BY <4>1, <4>2
    <3>6. persist'[l][r] = {Payload(b) : b \in {c \in CompBlocks(l) : fb.row[c.reqid] = r}}
      BY <1>4, <2>3, <3>4
    <3> QED
      BY <3>2, <3>5, <3>6
  <2> QED
    BY <2>1, <2>2, <2>3
<1> QED
  BY <1>2, <1>3, <1>5

\* If no request has a full window, none of the batch is long enough.
LEMMA OneNoWindow ==
    ASSUME OnePassInv, CompressNoWindow
    PROVE  (LengthsOK /\ BatchFits /\ Kept /\ SeenDecode)'
<1>1. /\ pc = "compress" /\ pc' = "attend" /\ fb.extend /\ CompBlocks(layer) = {}
      /\ UNCHANGED <<req, persist, handoff, fb, layer, ctx>>
      /\ layer \in Layer /\ Types /\ BatchOK
  BY DEF CompressNoWindow, OnePassInv, Inv, Types
<1>2. LengthsOK' /\ BatchFits'
  BY <1>1, ForwardKeeps
<1>3. SeenDecode'
  BY <1>1 DEF SeenDecode
<1>4. Kept'
  <2> SUFFICES ASSUME NEW l \in Layer, NEW r \in Row,
                      OneShot(req[r]), req[r].len >= req[r].prompt, req[r].prompt >= Ratio[l],
                      ~(l > layer /\ \E i \in 1..fb.n : fb.row[i] = r)
               PROVE  persist[l][r] = PromptBlocks(l, req[r].rid, req[r].prompt)
    BY <1>1 DEF Kept, Pending, PromptBlocks, BlockAt, OneShot
  <2>1. CASE l # layer \/ \A i \in 1..fb.n : fb.row[i] # r
    <3>1. ~(Pending(l) /\ \E i \in 1..fb.n : fb.row[i] = r)
      BY <1>1, <2>1 DEF Pending, Layer
    <3> QED
      BY <3>1 DEF OnePassInv, Kept
  <2>2. ASSUME l = layer, NEW i \in 1..fb.n, fb.row[i] = r
        PROVE  FALSE
    <3>1. fb.start[i] = 0 /\ fb.stop[i] = req[r].prompt
      BY <1>1, <2>2 DEF OnePassInv, BatchFits
    <3>2. {Payload(b) : b \in BlocksOf(l, i)} = PromptBlocks(l, req[r].rid, req[r].prompt)
      BY <1>1, <2>2, <3>1, WindowsFromZero
    <3>3. req[r].prompt \in Nat
      BY <1>1 DEF Types, Request
    <3>4. BlocksOf(l, i) # {}
      BY <3>2, <3>3, PromptHasBlock
    <3> QED
      BY <1>1, <2>2, <3>4 DEF CompBlocks
  <2> QED
    BY <2>1, <2>2
<1> QED
  BY <1>2, <1>3, <1>4

LEMMA OneCompressDecode ==
    ASSUME OnePassInv, CompressDecode \/ CompressDecodeNothing
    PROVE  (LengthsOK /\ BatchFits /\ Kept /\ SeenDecode)'
<1>1. /\ pc = "compress" /\ pc' = "attend" /\ ~fb.extend
      /\ UNCHANGED <<req, persist, fb, layer, ctx>>
  BY DEF CompressDecode, CompressDecodeNothing
<1>2. LengthsOK' /\ BatchFits'
  BY <1>1, ForwardKeeps
<1>3. \A l \in Layer : ~Pending(l) /\ ~Pending(l)'
  BY <1>1 DEF Pending
<1>4. Kept'
  BY <1>1, <1>3 DEF OnePassInv, Kept, PromptBlocks, BlockAt
<1>5. SeenDecode'
  BY <1>1 DEF OnePassInv, SeenDecode, Sees, PersistedBlocks, Visible
<1> QED
  BY <1>2, <1>4, <1>5

\* An attention call of a decode sees the persisted blocks, whether they were
\* published or there are none.
LEMMA OneAttend ==
    ASSUME OnePassInv, Attend
    PROVE  (LengthsOK /\ BatchFits /\ Kept /\ SeenDecode)'
<1>1. /\ pc = "attend" /\ UNCHANGED <<req, persist, fb>>
      /\ layer \in Layer /\ Types /\ BatchOK /\ Published /\ NumLayers \in Nat
  BY CompressedKVAssumption DEF Attend, OnePassInv, Inv, Types
<1>2. LengthsOK' /\ BatchFits'
  BY <1>1, ForwardKeeps
<1>3. \A l \in Layer : Pending(l)' = Pending(l)
  <2>1. CASE layer < NumLayers
    BY <1>1, <2>1 DEF Attend, Pending, Layer
  <2>2. CASE ~(layer < NumLayers)
    BY <1>1, <2>2 DEF Attend, Pending, Layer
  <2> QED
    BY <2>1, <2>2
<1>4. Kept'
  BY <1>1, <1>3 DEF OnePassInv, Kept, PromptBlocks, BlockAt
<1>5. SeenDecode'
  <2> SUFFICES ASSUME ~fb.extend, NEW c \in ctx'
               PROVE  c.sees = Sees(c, PersistedBlocks(c.layer))
    BY <1>1 DEF SeenDecode, Sees, PersistedBlocks, Visible
  <2>1. CASE c \in ctx
    BY <2>1 DEF OnePassInv, SeenDecode
  <2>2. CASE c \notin ctx
    <3>1. PICK q \in Queries :
             c = [layer |-> layer, reqid |-> q.reqid, pos |-> q.pos,
                  sees  |-> {Payload(b) : b \in {d \in handoff[layer].blocks :
                                                    /\ q \in handoff[layer].queries
                                                    /\ Visible(layer, q, d)}}]
      BY <2>2 DEF Attend
    <3>2. q = [reqid |-> q.reqid, pos |-> q.pos]
      BY <1>1, QueriesOfBatch
    <3>3. /\ handoff[layer].blocks = PersistedBlocks(layer)
          /\ handoff[layer].blocks # {} => handoff[layer].queries = Queries
      <4>1. CASE handoff[layer] = NoHandoff
        <5>1. PersistedBlocks(layer) = {}
          BY <1>1, <4>1 DEF Published, Publishes
        <5> QED
          BY <4>1, <5>1 DEF NoHandoff
      <4>2. CASE handoff[layer] # NoHandoff
        <5>1. handoff[layer] = [blocks |-> PersistedBlocks(layer), queries |-> Queries]
          BY <1>1, <4>2 DEF Published, Publishes
        <5> QED
          BY <5>1
      <4> QED
        BY <4>1, <4>2
    <3>4. c.sees = {Payload(b) : b \in {d \in PersistedBlocks(layer) : Visible(layer, q, d)}}
      BY <3>1, <3>3
    <3>5. c.layer = layer /\ q = [reqid |-> c.reqid, pos |-> c.pos]
      BY <3>1, <3>2
    <3> QED
      BY <3>4, <3>5 DEF Sees
  <2> QED
    BY <2>1, <2>2
<1> QED
  BY <1>2, <1>4, <1>5

LEMMA OneFinish ==
    ASSUME OnePassInv, Finish
    PROVE  (LengthsOK /\ BatchFits /\ Kept /\ SeenDecode)'
<1>1. /\ pc = "done" /\ pc' = "idle" /\ fb' = NoBatch /\ ctx' = {} /\ UNCHANGED <<req, persist>>
  BY DEF Finish
<1>2. LengthsOK' /\ BatchFits' /\ SeenDecode'
  BY <1>1 DEF OnePassInv, LengthsOK, BatchFits, SeenDecode, NoBatch
<1>3. \A l \in Layer : ~Pending(l) /\ ~Pending(l)'
  BY <1>1 DEF Pending
<1>4. Kept'
  BY <1>1, <1>3 DEF OnePassInv, Kept, PromptBlocks, BlockAt
<1> QED
  BY <1>2, <1>4

THEOREM OnePassInvariance == Spec => []OnePassInv
<1>1. Init => OnePassInv
  BY InitInv, OneInit DEF OnePassInv
<1>2. OnePassInv /\ Inv' /\ [Next]_vars => OnePassInv'
  <2> SUFFICES ASSUME OnePassInv, Inv', [Next]_vars
               PROVE  (LengthsOK /\ BatchFits /\ Kept /\ SeenDecode)'
    BY DEF OnePassInv
  <2>1. CASE Schedule
    BY <2>1, OneAdmit, OneBeginExtend, OneBeginDecode, OneRelease DEF Schedule
  <2>2. CASE Forward
    BY <2>2, OneCompressExtend, OneNoWindow, OneCompressDecode, OneAttend, OneFinish DEF Forward
  <2>3. CASE UNCHANGED vars
    BY <2>3 DEF vars, OnePassInv, LengthsOK, BatchFits, Kept, SeenDecode, Pending, Sees,
                PersistedBlocks, PromptBlocks, BlockAt, Visible
  <2> QED
    BY <2>1, <2>2, <2>3 DEF Next
<1> QED
  BY <1>1, <1>2, Invariance, PTL DEF Spec

\* A request whose prompt ran in one pass decodes with exactly the blocks of
\* its prompt, whatever its row held before and whatever batches it shared.
THEOREM DecodeIsExact == Spec => []OnePassDecode
<1>1. OnePassInv => OnePassDecode
  <2> SUFFICES ASSUME OnePassInv, ~fb.extend, NEW c \in ctx,
                      Asker(c).hit = 0, Asker(c).prompt <= Chunk, Asker(c).prompt >= Ratio[c.layer]
               PROVE  c.sees = RefBlocks(c.layer, Asker(c), c.pos, Asker(c).prompt)
    BY DEF OnePassDecode
  <2> DEFINE l == c.layer
             i == c.reqid
             q == Asker(c)
  <2>1. /\ l \in Layer /\ i \in 1..fb.n /\ fb.row[i] \in Row /\ c.pos \in Nat
        /\ q = req[fb.row[i]] /\ q \in Request /\ Types /\ BatchOK
    BY DEF OnePassInv, Inv, Seen, Asker, Types, BatchOK
  <2>2. persist[l][fb.row[i]] = PromptBlocks(l, q.rid, q.prompt)
    BY <2>1 DEF OnePassInv, Kept, BatchFits, OneShot, Pending
  <2>3. c.sees = Sees(c, PersistedBlocks(l))
    BY DEF OnePassInv, SeenDecode
  <2>4. c.sees = {b \in PromptBlocks(l, q.rid, q.prompt) : c.pos >= b.first + Ratio[l] - 1}
    <3>1. ASSUME NEW x \in c.sees
          PROVE  x \in PromptBlocks(l, q.rid, q.prompt) /\ c.pos >= x.first + Ratio[l] - 1
      <4>1. PICK d \in PersistedBlocks(l) :
               Visible(l, [reqid |-> i, pos |-> c.pos], d) /\ x = Payload(d)
        BY <2>3, <3>1 DEF Sees
      <4>2. PICK k \in 1..fb.n : \E b \in persist[l][fb.row[k]] :
               d = [rid |-> b.rid, reqid |-> k, first |-> b.first, from |-> b.from]
        BY <4>1 DEF PersistedBlocks
      <4>3. PICK b \in persist[l][fb.row[k]] :
               d = [rid |-> b.rid, reqid |-> k, first |-> b.first, from |-> b.from]
        BY <4>2
      <4>4. k = i /\ c.pos >= d.first + Ratio[l] - 1
        BY <4>1, <4>3 DEF Visible
      <4>5. b \in Pay
        BY <2>1, <4>3, <4>4 DEF Types
      <4>6. x = b
        BY <4>1, <4>3, <4>5 DEF Payload, Pay
      <4> QED
        BY <2>2, <4>3, <4>4, <4>6
    <3>2. ASSUME NEW x \in PromptBlocks(l, q.rid, q.prompt), c.pos >= x.first + Ratio[l] - 1
          PROVE  x \in c.sees
      <4> DEFINE d == [rid |-> x.rid, reqid |-> i, first |-> x.first, from |-> x.from]
      <4>1. x \in persist[l][fb.row[i]] /\ x \in Pay
        BY <2>1, <2>2, <3>2 DEF Types
      <4>2. d \in PersistedBlocks(l)
        BY <2>1, <4>1 DEF PersistedBlocks
      <4>3. x = Payload(d)
        BY <4>1 DEF Payload, Pay
      <4>4. Visible(l, [reqid |-> i, pos |-> c.pos], d)
        BY <3>2 DEF Visible
      <4> QED
        BY <2>3, <4>2, <4>3, <4>4 DEF Sees
    <3> QED
      BY <3>1, <3>2, <2>3 DEF Sees
  <2>5. q.prompt \in Nat
    BY <2>1 DEF Request
  <2> HIDE DEF l, q
  <2>6. c.sees = RefBlocks(l, q, c.pos, q.prompt)
    BY <2>1, <2>4, <2>5, VisibleOfPrompt
  <2> QED
    BY <2>6 DEF l, q
<1> QED
  BY <1>1, OnePassInvariance, PTL

=============================================================================
