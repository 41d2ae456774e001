------------------------------ MODULE KdaCache ------------------------------
(***************************************************************************)
(* The KDA linear-attention cache of GLM-5.3 on CPU.  A request holds a    *)
(* slot of the mamba pool with, per layer, the conv state, the last        *)
(* Kernel - 1 raw inputs of the causal conv1d, and the recurrent state.    *)
(* cpu_kda_extend runs the tokens of a batch request by request, seeded    *)
(* from the slot when the request already has a prefix; cpu_kda_decode     *)
(* runs one token per request, always seeded.  Both write the slot back.   *)
(* A slot is reused as its last request left it.                           *)
(*                                                                         *)
(* A raw input is abstracted to its request and position, a recurrent      *)
(* state to the tokens it has absorbed, in order.                          *)
(***************************************************************************)
EXTENDS Integers, Sequences, SequencesExt

CONSTANTS
    Slot,      \* rows of the mamba pool
    Rid,       \* identities of requests, and
    NoRid,     \*   that of no request
    Kernel,    \* K, the conv window (4)
    Chunk,     \* chunked-prefill-size, shared by the requests of a batch
    MaxPrompt, \* bound: longest prompt
    MaxGen     \* bound: most tokens generated for a request

ASSUME KdaCacheAssumption ==
    /\ NoRid \notin Rid
    /\ Kernel \in Nat \ {0, 1}
    /\ {Chunk, MaxPrompt} \subseteq Nat \ {0}
    /\ MaxGen \in Nat

VARIABLES
    req,   \* req[s]: the request in slot s, or NoReq
    conv,  \* conv_states[s]: oldest input first
    ssm,   \* ssm_states[s]
    ctx    \* what the last call computed each of its tokens from

vars == <<req, conv, ssm, ctx>>

\* `short`: an extend that continued a prefix had fewer than Kernel - 1
\* tokens (a ghost).
NoReq == [rid |-> NoRid, prompt |-> 0, len |-> 0, short |-> FALSE]

Zero == [rid |-> NoRid, pos |-> 0]

Zeros == [i \in 1..(Kernel - 1) |-> Zero]

Token(id, p) == [rid |-> id, pos |-> p]

\* mixed_qkv[s:e] of the request in slot s.
Inputs(s, n) == [i \in 1..n |-> Token(req[s].rid, req[s].len + i - 1)]

LastOf(seq, n) == SubSeq(seq, Len(seq) - n + 1, Len(seq))

-----------------------------------------------------------------------------
(* The operators of a layer, on the tokens x of one request.  The output   *)
(* of a token names what it was computed from: the window its conv has     *)
(* seen, and the tokens the recurrent state held before it.                *)

causal_conv1d(x) == [t \in DOMAIN x |-> SubSeq(Zeros \o x, t, t + Kernel - 1)]

\* Mutant: the window is kept, and the oldest input not dropped.
UpdateKeepsOldest(x, state) ==
    [out |-> Append(state, x), state |-> SubSeq(Append(state, x), 1, Kernel - 1)]

\* Mutant: the window grows.
UpdateGrows(x, state) == [out |-> Append(state, x), state |-> Append(state, x)]

causal_conv1d_update(x, state) ==
    [out |-> Append(state, x), state |-> Tail(Append(state, x))]

\* Mutant: the state a scan starts from is left out of the one it returns.
RecurrentForgets(x, state) ==
    [out |-> [t \in DOMAIN x |-> state \o SubSeq(x, 1, t - 1)], state |-> x]

kda_recurrent(x, state) ==
    [out |-> [t \in DOMAIN x |-> state \o SubSeq(x, 1, t - 1)], state |-> state \o x]

\* The whole layer.  Decode: one token.  Otherwise the carried inputs are put
\* before the tokens and their outputs dropped, and the conv state returned is
\* the last Kernel - 1 inputs of the call, padded with zeros on the left,
\* whatever was carried.
kda_layer_forward(x, hist, state, decode) ==
    LET update == causal_conv1d_update(x[1], hist)
        conv1d == IF decode THEN <<update.out>>
                  ELSE SubSeq(causal_conv1d(hist \o x), Kernel, Kernel - 1 + Len(x))
        scan   == kda_recurrent(x, state)
    IN  [out  |-> [t \in DOMAIN x |-> [window |-> conv1d[t], before |-> scan.out[t]]],
         conv |-> IF decode THEN update.state ELSE LastOf(Zeros \o x, Kernel - 1),
         ssm  |-> scan.state]

\* A batch lists distinct slots, each with the tokens x[s] of its request; what
\* a request computes depends on its own slot only, so the order of the
\* requests does not matter.
\* Mutant: the recurrent state goes on and the conv starts anew.
ExtendSeedsSsmOnly(x, seeded, convs, ssms) ==
    [s \in DOMAIN x |-> kda_layer_forward(x[s], Zeros, IF seeded[s] THEN ssms[s] ELSE <<>>, FALSE)]

cpu_kda_extend(x, seeded, convs, ssms) ==
    [s \in DOMAIN x |->
        IF seeded[s] THEN kda_layer_forward(x[s], convs[s], ssms[s], FALSE)
                     ELSE kda_layer_forward(x[s], Zeros, <<>>, FALSE)]

cpu_kda_decode(x, convs, ssms) ==
    [s \in DOMAIN x |-> kda_layer_forward(x[s], convs[s], ssms[s], TRUE)]

\* The rows of a pool that a call writes back.
Scatter(pool, rows) == [s \in DOMAIN pool |-> IF s \in DOMAIN rows THEN rows[s] ELSE pool[s]]

-----------------------------------------------------------------------------
(* The backend's calls. *)

\* The call on the tokens x has returned `done`.
Returned(x, done) ==
    /\ ctx' = UNION {{[rid    |-> req[s].rid, pos |-> req[s].len + i - 1,
                       short  |-> req[s].short,
                       window |-> done[s].out[i].window,
                       before |-> done[s].out[i].before] : i \in DOMAIN x[s]} : s \in DOMAIN x}
    /\ conv' = Scatter(conv, [s \in DOMAIN x |-> done[s].conv])
    /\ ssm' = Scatter(ssm, [s \in DOMAIN x |-> done[s].ssm])

\* Mutant: a slot is taken for its request's own once anyone has used it.
HasUsedSlot(s) == ssm[s] # <<>>

\* has_initial_state: extend_prefix_lens > 0.
Seeded(s) == req[s].len > 0

\* _cpu_forward_extend: n[s] tokens of the prompt of each request.
Extend(batch, n) ==
    /\ batch # {}
    /\ \A s \in batch : /\ req[s] # NoReq
                        /\ n[s] \in 1..(req[s].prompt - req[s].len)
    /\ FoldFunctionOnSet(LAMBDA a, b : a + b, 0, n, batch) <= Chunk
    /\ LET x == [s \in batch |-> Inputs(s, n[s])]
       IN  Returned(x, cpu_kda_extend(x, [s \in batch |-> Seeded(s)], conv, ssm))
    /\ req' = [s \in Slot |->
                 IF s \in batch
                 THEN [req[s] EXCEPT !.len = @ + n[s],
                                     !.short = @ \/ (Seeded(s) /\ n[s] < Kernel - 1)]
                 ELSE req[s]]

\* _cpu_forward_decode: one token of each request.
Decode(batch) ==
    /\ batch # {}
    /\ \A s \in batch : /\ req[s] # NoReq
                        /\ req[s].len >= req[s].prompt
                        /\ req[s].len < req[s].prompt + MaxGen
    /\ LET x == [s \in batch |-> Inputs(s, 1)]
       IN  Returned(x, cpu_kda_decode(x, conv, ssm))
    /\ req' = [s \in Slot |-> IF s \in batch THEN [req[s] EXCEPT !.len = @ + 1] ELSE req[s]]

-----------------------------------------------------------------------------
(* The scheduler. *)

\* An identity can serve again once nothing in the state bears it.
InUse(id) ==
    \E s \in Slot : \/ req[s].rid = id
                    \/ \E i \in DOMAIN conv[s] : conv[s][i].rid = id
                    \/ \E i \in DOMAIN ssm[s] : ssm[s][i].rid = id

Admit(s, id, prompt) ==
    /\ req[s] = NoReq
    /\ ~InUse(id)
    /\ req' = [req EXCEPT ![s] = [rid |-> id, prompt |-> prompt, len |-> 0, short |-> FALSE]]
    /\ ctx' = {}
    /\ UNCHANGED <<conv, ssm>>

\* The request ends, is aborted or is retracted.
Release(s) ==
    /\ req[s] # NoReq
    /\ req' = [req EXCEPT ![s] = NoReq]
    /\ ctx' = {}
    /\ UNCHANGED <<conv, ssm>>

Init ==
    /\ req = [s \in Slot |-> NoReq]
    /\ conv = [s \in Slot |-> Zeros]
    /\ ssm = [s \in Slot |-> <<>>]
    /\ ctx = {}

Next ==
    \/ \E s \in Slot, id \in Rid, prompt \in 1..MaxPrompt : Admit(s, id, prompt)
    \/ \E batch \in SUBSET Slot : \E n \in [batch -> 1..Chunk] : Extend(batch, n)
    \/ \E batch \in SUBSET Slot : Decode(batch)
    \/ \E s \in Slot : Release(s)

Spec == Init /\ [][Next]_vars

-----------------------------------------------------------------------------
(* _selftest: the comparisons the module makes of itself when it is run,   *)
(* for sequences of every length up to T where it draws one of 17 tokens.  *)

\* The tokens of a request that serves in the test.
Drawn(id, n) == [i \in 1..n |-> Token(id, i - 1)]

\* (1) and (2): a scan agrees with the scan of each token from the state of
\* the one before, and with two scans that hand the state over anywhere.
SelfTestScan(x) ==
    LET full == kda_recurrent(x, <<>>)
        state[t \in 0..Len(x)] ==
            IF t = 0 THEN <<>> ELSE kda_recurrent(<<x[t]>>, state[t - 1]).state
    IN  /\ \A t \in DOMAIN x : kda_recurrent(<<x[t]>>, state[t - 1]).out[1] = full.out[t]
        /\ \A n \in DOMAIN x :
              LET head == kda_recurrent(SubSeq(x, 1, n), <<>>)
                  rest == kda_recurrent(SubSeq(x, n + 1, Len(x)), head.state)
              IN  head.out \o rest.out = full.out /\ rest.state = full.state

\* (3): the conv of a sequence agrees with its updates, one token at a time.
SelfTestConv(x) ==
    LET cs[t \in 0..Len(x)] ==
            IF t = 0 THEN Zeros ELSE causal_conv1d_update(x[t], cs[t - 1]).state
    IN  \A t \in DOMAIN x : causal_conv1d_update(x[t], cs[t - 1]).out = causal_conv1d(x)[t]

\* (5): the layer on a whole sequence agrees with the layer token by token,
\* the two states handed over.
SelfTestLayer(x) ==
    LET full == kda_layer_forward(x, Zeros, <<>>, FALSE)
        step[t \in DOMAIN x] ==
            IF t = 1 THEN kda_layer_forward(<<x[1]>>, Zeros, <<>>, TRUE)
            ELSE kda_layer_forward(<<x[t]>>, step[t - 1].conv, step[t - 1].ssm, TRUE)
    IN  /\ \A t \in DOMAIN x : step[t].out[1] = full.out[t]
        /\ step[Len(x)].ssm = full.ssm

\* (6): requests of lens[s] tokens extended in one batch from cleared slots,
\* then decoded by one token, agree with the layer on each whole sequence.
SelfTestGlue(id, lens) ==
    LET used == DOMAIN lens
        ext  == cpu_kda_extend([s \in used |-> Drawn(id[s], lens[s])],
                               [s \in used |-> FALSE],
                               [s \in Slot |-> Zeros], [s \in Slot |-> <<>>])
        dec  == cpu_kda_decode([s \in used |-> <<Token(id[s], lens[s])>>],
                               Scatter([s \in Slot |-> Zeros], [s \in used |-> ext[s].conv]),
                               Scatter([s \in Slot |-> <<>>], [s \in used |-> ext[s].ssm]))
        ref(s) == kda_layer_forward(Drawn(id[s], lens[s] + 1), Zeros, <<>>, FALSE)
    IN  \A s \in used : ref(s).out = ext[s].out \o dec[s].out

\* The module says PASS.
SelfTestPasses ==
    /\ \A id \in Rid, n \in 1..(MaxPrompt + MaxGen) :
          /\ SelfTestScan(Drawn(id, n))
          /\ SelfTestConv(Drawn(id, n))
          /\ SelfTestLayer(Drawn(id, n))
    /\ \A used \in SUBSET Slot : \A id \in [used -> Rid], lens \in [used -> 1..MaxPrompt] :
          IsInjective(id) => SelfTestGlue(id, lens)

-----------------------------------------------------------------------------
(* Properties. *)

TypeOK ==
    \A s \in Slot :
        /\ req[s].rid \in Rid \cup {NoRid} /\ req[s].len \in 0..(MaxPrompt + MaxGen)
        /\ DOMAIN conv[s] = 1..(Kernel - 1)
        /\ \A i \in DOMAIN ssm[s] : ssm[s][i].rid \in Rid

\* The Kernel inputs up to position p of a request, zeros before its first.
RefWindow(id, p) ==
    [i \in 1..Kernel |-> IF p - Kernel + i >= 0 THEN Token(id, p - Kernel + i) ELSE Zero]

RefBefore(id, p) == [i \in 1..p |-> Token(id, i - 1)]

\* The recurrence has absorbed exactly the request's own earlier tokens, each
\* once and in order, however its prompt was cut into chunks and whoever had
\* the slot before: the slot is not cleared, only taken unseeded.
RecurrenceExact == \A c \in ctx : c.before = RefBefore(c.rid, c.pos)

\* Each token's conv sees the inputs up to it, through chunk boundaries and
\* from prefill into decode, unless an earlier chunk that went on with the
\* prompt was shorter than the conv state.
WindowExact ==
    \A c \in ctx : ~c.short => c.window = RefWindow(c.rid, c.pos)

\* A conv reaches into no other request, whatever the chunks: a short chunk
\* loses inputs and takes none from the slot's past.
NoForeignInput ==
    \A c \in ctx : \A i \in 1..Kernel : c.window[i].rid \in {c.rid, NoRid}

\* A conv reaches into its own request's inputs alone, and misses none unless
\* a short chunk went before: in the operators alone, whichever lengths and
\* slots _selftest draws, and through the pool and the chunks of a schedule.
ConvExact == TypeOK /\ SelfTestPasses /\ WindowExact /\ NoForeignInput

=============================================================================
