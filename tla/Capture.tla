------------------------------ MODULE Capture ------------------------------
(***************************************************************************)
(* The taps that record a model's intermediate tensors, on a GPU leg (the  *)
(* reference) and then on a CPU leg given the same work, and the offline   *)
(* diff of what the two have recorded.                                     *)
(*                                                                         *)
(*  - request-bound (dsv4_layer_capture): the first forward whose tokens   *)
(*    are a frozen prompt's gives four JSON files, one-shot;               *)
(*  - full (_install_fullcap, _install_fullcap_glm, _install_full_capture, *)
(*    _install_full_capture_glm): a dictionary of tensors by pass,         *)
(*    operator and layer, first one wins, saved whole again and again;     *)
(*  - trace (_install, _install_hidden_debug): lines of a text file, each  *)
(*    tap with a limit of its own.                                         *)
(*                                                                         *)
(* Tensors are abstracted to their origin: the forward and the layer they  *)
(* were taken from.  That is what a diff of two legs relies on: two        *)
(* tensors under one name must come from the same step of the same work.   *)
(* All ranks of a leg run the same forwards in step (the layers end in     *)
(* collectives), so they share the taps' state; they are apart only while  *)
(* they write files.                                                       *)
(***************************************************************************)
EXTENDS Integers, Sequences, FiniteSets, SequencesExt

CONSTANTS
    NumLayers,  \* decoder layers (43 in DSV4)
    Group,      \* layer calls that share a decode tag (64)
    Frozen,     \* the frozen prompts, as a sequence of token lists
    Requests,   \* token lists of the requests' forwards, one token to decode
    TokensIn,   \* TokensIn[ids]: the length of a token list
    Constant,   \* those that repeat one token (dummy batches)
    Options,    \* families, ranks of a leg and start-up forwards of both legs
    Limits,     \* Limits[leg][tap]: lines a trace tap writes
    MaxWork     \* bound: forwards after start-up

Leg == {"gpu", "cpu"}

\* Not a frozen prompt, and not taken for one.
NoPrompt(ids) ==
    /\ ids \notin ToSet(Frozen)
    /\ ids \in Constant \/ \A i \in DOMAIN Frozen : TokensIn[Frozen[i]] # TokensIn[ids]

\* The start-up forwards are dummy batches: none is taken for a frozen prompt.
ASSUME CaptureAssumption ==
    /\ NumLayers \in Nat \ {0} /\ Group \in Nat \ {0} /\ MaxWork \in Nat \ {0}
    /\ NumLayers <= Group
    /\ \A i \in DOMAIN TokensIn : TokensIn[i] \in Nat \ {0}
    /\ Requests \subseteq DOMAIN TokensIn /\ Frozen \in Seq(DOMAIN TokensIn)
    /\ \A o \in Options :
          /\ o.family \in {"dsv4", "glm"} /\ o.ranks \in {1, 2}
          /\ o.start \in [Leg -> Seq(DOMAIN TokensIn)]
          /\ \A l \in Leg : \A i \in DOMAIN o.start[l] : NoPrompt(o.start[l][i])

VARIABLES
    opt,    \* the family of the model, the ranks of a leg, the start-ups
    work,   \* the forwards of the requests, as the first leg ran them
    leg,    \* "gpu", then "cpu", then "done"
    at,     \* forwards this leg has begun
    pc,     \* "idle", "layer", "logits", "save", "dump" or "dead"
    cur,    \* the forward being run
    layer,  \* the layer it comes to next
    bound,  \* state of the request-bound taps
    cap,    \* _CAP: origin by key
    st,     \* _ST and _irc
    saved,  \* FULLCAP_FILE of each leg
    rank,   \* what each rank still has to write, and its open file
    fs,     \* the JSON files of this leg: a temporary and a final name each
    trace   \* trace[leg][tap]: origins of the lines written

captureVars == <<opt, work, leg, at, pc, cur, layer, bound, cap, st, saved, rank, fs, trace>>

LayersTapped == 0..(NumLayers - 1)
Empty == [k \in {} |-> 0]
NoForward == [ids |-> "none", t |-> 0, of |-> "none", n |-> 0]

\* Where a tensor comes from: n-th start-up forward, or forward, of a layer.
Origin(l) == [of |-> cur.of, n |-> cur.n, layer |-> l]

\* First come, first kept: a key that is there is not replaced.
Keep(f, new) == [k \in DOMAIN f \cup DOMAIN new |-> IF k \in DOMAIN f THEN f[k] ELSE new[k]]

-----------------------------------------------------------------------------
(* Request-bound capture: _target_seq_index, _model_fwd and the taps.      *)

\* Mutant: a prompt of the same length is as good as the prompt itself.
SeqIndexByLength(f) ==
    LET alike == {i \in DOMAIN Frozen : TokensIn[Frozen[i]] = f.t}
    IN  IF alike # {} /\ f.ids \notin Constant
        THEN CHOOSE i \in alike : \A j \in alike : i <= j ELSE 0

\* Mutant: constant batches are not told from prompts.
SeqIndexAnyBatch(f) ==
    LET same  == {i \in DOMAIN Frozen : Frozen[i] = f.ids}
        alike == {i \in DOMAIN Frozen : TokensIn[Frozen[i]] = f.t}
        first(S) == CHOOSE i \in S : \A j \in S : i <= j
    IN  IF same # {} THEN first(same) ELSE IF alike # {} THEN first(alike) ELSE 0

\* The frozen prompt that a forward is of: itself, else the first as long
\* unless the batch is one token over and over; 0 for none.
SeqIndex(f) ==
    LET same  == {i \in DOMAIN Frozen : Frozen[i] = f.ids}
        alike == {i \in DOMAIN Frozen :
                    TokensIn[Frozen[i]] = f.t /\ f.ids \notin Constant}
        first(S) == CHOOSE i \in S : \A j \in S : i <= j
    IN  IF same # {} THEN first(same) ELSE IF alike # {} THEN first(alike) ELSE 0

Unbound == [active |-> FALSE, done |-> FALSE, seq |-> 0, ids |-> "none",
            main |-> Empty, moetopk |-> Empty, attnout |-> Empty, qfinal |-> Empty]

\* _model_fwd, before the model's own forward.
Activate(f) ==
    LET i == SeqIndex(f)
    IN  IF bound.done \/ i = 0 THEN bound
        ELSE [bound EXCEPT !.active = TRUE, !.seq = i, !.ids = f.ids, !.main = Empty]

\* The layer, router, attention and q taps of a layer, while active: the last
\* one wins, until the file is written.
BoundLayer ==
    IF ~bound.active THEN bound
    ELSE LET put(f) == [l \in DOMAIN f \cup {layer} |-> IF l = layer THEN Origin(l) ELSE f[l]]
         IN  [bound EXCEPT !.main = put(@), !.moetopk = put(@),
                           !.attnout = put(@), !.qfinal = put(@)]

\* Mutant: the capture stays active behind its forward.
BoundEndStays == [bound EXCEPT !.done = @ \/ bound.active]

\* _model_fwd, behind the model's forward; the outer wrappers' flags go with
\* it, because they find something to write exactly when it is active.
BoundEnd == [bound EXCEPT !.active = FALSE, !.done = @ \/ bound.active]

\* The files a rank writes behind this forward, in the order of the wrappers.
Dumps == IF bound.active THEN <<"main", "moetopk", "attnout", "qfinal">> ELSE <<>>

-----------------------------------------------------------------------------
(* Full capture.  A key is a pass (0 for "pf", 1 + g for "dc<g>"), an       *)
(* operator and a number: of a layer, of an inverse RoPE call (which only   *)
(* counts), or of a logits.                                                *)

IsPrompt(f) == f.t \in 2..16

Start == [seen |-> FALSE, dc |-> 0, irc |-> [p \in {0, 1} |-> 0]]

\* Mutant: a single token is a decode step, whatever came before.
PassAnyDecode(f, s, op) ==
    IF IsPrompt(f) THEN 0
    ELSE IF f.t = 1 THEN (IF op \in {"hidden", "hcpost"} THEN 1 + s.dc \div Group ELSE 1)
    ELSE -1

\* Mutant: hc_post counts the layer it is in, as the tag it takes is its own.
PassCountsEarly(f, s, op) ==
    IF IsPrompt(f) THEN 0
    ELSE IF f.t = 1 /\ s.seen
    THEN (CASE op = "hidden" -> 1 + (s.dc + 1) \div Group
            [] op = "hcpost" -> 1 + s.dc \div Group
            [] OTHER -> 1)
    ELSE -1

\* The tag of a tensor of f, -1 for none: decode steps count once a short
\* prompt has been seen; only the layer outputs, and hc_post, tell them apart.
Pass(f, s, op) ==
    IF IsPrompt(f) THEN 0
    ELSE IF f.t = 1 /\ s.seen
    THEN (IF op \in {"hidden", "hcpost"} THEN 1 + s.dc \div Group ELSE 1)
    ELSE -1

\* The operators tapped inside a layer, in the order of the computation.
LayerOpsGlm == <<"hcpost", "hidden">>

LayerOps ==
    IF opt.family = "glm" THEN LayerOpsGlm
    ELSE <<"qcore", "acore", "invrope", "attn", "moe", "hidden">>

\* seen_pf as the tap of `op` finds it.  In DSV4 only the layer output sets
\* it; in GLM hc_post, which comes first, does as well.
SeenAt(op) ==
    IF IsPrompt(cur) /\ opt.family = "glm" THEN [st EXCEPT !.seen = TRUE] ELSE st

KeyOf(op, p) == [pass |-> p, op |-> op, n |-> IF op = "invrope" THEN st.irc[p] ELSE layer]

\* What the taps of this layer put into the dictionary.
LayerKeys ==
    LET tapped == {op \in ToSet(LayerOps) : Pass(cur, SeenAt(op), op) # -1}
        keys   == {KeyOf(op, Pass(cur, SeenAt(op), op)) : op \in tapped}
    IN  Keep(cap, [k \in keys |-> Origin(layer)])

\* _ST and _irc behind the layer.
AfterLayer ==
    LET p == Pass(cur, st, "invrope")
    IN  [seen |-> st.seen \/ IsPrompt(cur),
         dc   |-> IF cur.t = 1 /\ st.seen THEN st.dc + 1 ELSE st.dc,
         irc  |-> [q \in {0, 1} |-> IF q = p /\ opt.family = "dsv4" THEN st.irc[q] + 1 ELSE st.irc[q]]]

\* GLM's reference saves the dictionary at every new key.
SavesInForward == opt.family = "glm" /\ leg = "gpu"

\* The logits of any forward, numbered by those before it.
LogitsKey ==
    [pass |-> 0, op |-> "logits", n |-> Cardinality({k \in DOMAIN cap : k.op = "logits"})]

-----------------------------------------------------------------------------
(* Trace. *)

\* Taps of attention tensors, whose rows are the tokens of the batch.
AttentionTaps == {"attn", "woa", "qb", "kv", "fqr", "woafn"}

\* Taps of the MHC sinkhorn, inside hc_pre, and of the logits of a forward.
SinkTap == "sink"
LogitsTap == "lp"

Taps == AttentionTaps \cup {"layer", "hcpre", "hcpost", SinkTap, LogitsTap}

ASSUME LimitsAssumption == \A l \in Leg, tap \in Taps : Limits[l][tap] \in Nat

\* Mutant: the reference does not leave long batches out of the attention.
ShorterNever(tap) == 1000

\* The batches a tap looks at: the sinkhorn's and the logits' any; of the
\* others the reference leaves out those of 32 tokens and more, the CPU plugin
\* only in the attention.
Shorter(tap) ==
    IF tap \in AttentionTaps \/ (leg = "gpu" /\ tap \notin {SinkTap, LogitsTap}) THEN 32 ELSE 1000

\* hc_pre and hc_post come before and behind both halves of a layer.
CallsPerLayer(tap) ==
    IF tap \in {"hcpre", "hcpost", SinkTap} THEN 2 ELSE IF tap = LogitsTap THEN 0 ELSE 1

\* Mutant: the limit is looked at once a layer, not once a line.
TraceLayerPerCall ==
    [trace EXCEPT ![leg] = [tap \in Taps |->
        LET room  == Limits[leg][tap] - Len(@[tap])
            lines == IF cur.t >= Shorter(tap) \/ room = 0 THEN 0 ELSE CallsPerLayer(tap)
        IN  @[tap] \o [i \in 1..lines |-> Origin(layer)]]]

TraceLayer ==
    [trace EXCEPT ![leg] = [tap \in Taps |->
        LET room  == Limits[leg][tap] - Len(@[tap])
            calls == CallsPerLayer(tap)
            lines == IF cur.t >= Shorter(tap) THEN 0 ELSE IF room < calls THEN room ELSE calls
        IN  @[tap] \o [i \in 1..lines |-> Origin(layer)]]]

\* Mutant: the logits are traced without a limit.
TraceLogitsNoLimit ==
    [trace EXCEPT ![leg][LogitsTap] = Append(@, Origin(NumLayers))]

\* The line of a forward's logits.
TraceLogits ==
    IF Len(trace[leg][LogitsTap]) >= Limits[leg][LogitsTap] THEN trace
    ELSE [trace EXCEPT ![leg][LogitsTap] = Append(@, Origin(NumLayers))]

-----------------------------------------------------------------------------
(* The legs. *)

Ranks == 1..opt.ranks

Files == {"main", "moetopk", "attnout", "qfinal"}

\* The files under their temporary and their final name.
NoFiles == [n \in {"tmp", "out"} |-> [f \in Files |-> "none"]]

\* What is left to write, and the name the open file is found under by now.
Idle == [r \in 1..2 |-> [todo |-> <<>>, step |-> "open", h |-> "none"]]

\* The next forward: a start-up one, or one of the requests.  The first leg
\* makes the work up, the second is given the same.
NextForwards ==
    LET ups == opt.start[leg]
        n   == at + 1 - Len(ups)
    IN  IF n <= 0 THEN {[ids |-> ups[at + 1], t |-> TokensIn[ups[at + 1]], of |-> "start", n |-> at + 1]}
        ELSE {[ids |-> i, t |-> TokensIn[i], of |-> "work", n |-> n] :
                i \in IF leg = "cpu" THEN (IF n <= Len(work) THEN {work[n]} ELSE {})
                      ELSE IF n > MaxWork THEN {}
                      ELSE {j \in Requests : n = 1 => TokensIn[j] > 1}}

Begin ==
    /\ leg # "done" /\ pc = "idle"
    /\ \E f \in NextForwards :
          /\ cur' = f
          /\ work' = IF f.of = "work" /\ leg = "gpu" THEN Append(work, f.ids) ELSE work
          /\ bound' = IF opt.family = "dsv4" THEN Activate(f) ELSE bound
    /\ at' = at + 1
    /\ layer' = 0
    /\ pc' = "layer"
    /\ UNCHANGED <<opt, leg, cap, st, saved, rank, fs, trace>>

\* One decoder layer with all of its taps.
Layer ==
    /\ pc = "layer" /\ layer < NumLayers
    /\ bound' = BoundLayer
    /\ cap' = LayerKeys
    /\ st' = AfterLayer
    /\ trace' = IF opt.family = "dsv4" THEN TraceLayer ELSE trace
    /\ saved' = IF SavesInForward /\ cap' # cap
                THEN [saved EXCEPT ![leg] = [whole |-> TRUE, keys |-> cap']] ELSE saved
    /\ layer' = layer + 1
    /\ UNCHANGED <<opt, work, leg, at, pc, cur, rank, fs>>

\* Mutant: the logits are taken and only the next ones save them.
LogitsSavesFirst ==
    /\ pc = "layer" /\ layer = NumLayers
    /\ cap' = Keep(cap, [k \in {LogitsKey} |-> Origin(NumLayers)])
    /\ saved' = [saved EXCEPT ![leg] = [whole |-> FALSE, keys |-> @.keys]]
    /\ trace' = IF opt.family = "dsv4" THEN TraceLogits ELSE trace
    /\ pc' = "save"
    /\ UNCHANGED <<opt, work, leg, at, cur, layer, bound, st, rank, fs>>

\* LogitsProcessor.forward: the logits are traced, go into the dictionary, and
\* torch.save truncates the file.
Logits ==
    /\ pc = "layer" /\ layer = NumLayers
    /\ cap' = Keep(cap, [k \in {LogitsKey} |-> Origin(NumLayers)])
    /\ saved' = [saved EXCEPT ![leg] = [whole |-> FALSE, keys |-> cap']]
    /\ trace' = IF opt.family = "dsv4" THEN TraceLogits ELSE trace
    /\ pc' = "save"
    /\ UNCHANGED <<opt, work, leg, at, cur, layer, bound, st, rank, fs>>

\* torch.save is through, and the wrappers of the model's forward go on.
Save ==
    /\ pc = "save"
    /\ saved' = [saved EXCEPT ![leg].whole = TRUE]
    /\ rank' = [r \in 1..2 |->
                  IF r \in Ranks THEN [todo |-> Dumps, step |-> "open", h |-> "none"] ELSE Idle[r]]
    /\ bound' = BoundEnd
    /\ pc' = "dump"
    /\ UNCHANGED <<opt, work, leg, at, cur, layer, cap, st, fs, trace>>

\* Mutant: the file is written under its final name.
OpenFinal(r, f) ==
    /\ rank[r].step = "open"
    /\ fs' = [fs EXCEPT !.out[f] = "torn"]
    /\ rank' = [rank EXCEPT ![r].step = "write", ![r].h = "out"]

\* open(tmp, "w"): the file of that name, emptied, or a new one.
Open(r, f) ==
    /\ rank[r].step = "open"
    /\ fs' = [fs EXCEPT !.tmp[f] = "torn"]
    /\ rank' = [rank EXCEPT ![r].step = "write", ![r].h = "tmp"]

\* json.dump, and the file closed.
Write(r, f) ==
    /\ rank[r].step = "write"
    /\ fs' = IF rank[r].h = "gone" THEN fs ELSE [fs EXCEPT ![rank[r].h][f] = "whole"]
    /\ rank' = [rank EXCEPT ![r].step = "replace"]

\* os.replace: a file that another rank has open goes along.  If another rank
\* has moved the temporary file away it raises; the handler ends this tap's
\* files, and .attnout and .qfinal share one.
Replace(r, f) ==
    LET there == fs.tmp[f] # "none"
        Moved(q) ==
            IF ~there \/ rank[q].todo = <<>> \/ rank[q].step = "open" \/ Head(rank[q].todo) # f
            THEN rank[q]
            ELSE [rank[q] EXCEPT !.h = IF @ = "tmp" THEN "out" ELSE "gone"]
    IN  /\ rank[r].step = "replace"
        /\ fs' = IF there THEN [fs EXCEPT !.out[f] = fs.tmp[f], !.tmp[f] = "none"] ELSE fs
        /\ rank' = [q \in 1..2 |->
                IF q # r THEN Moved(q)
                ELSE [todo |-> IF ~there /\ f = "attnout" THEN <<>> ELSE Tail(rank[r].todo),
                      step |-> "open", h |-> "none"]]

Dump(r) ==
    /\ pc = "dump" /\ rank[r].todo # <<>>
    /\ LET f == Head(rank[r].todo) IN Open(r, f) \/ Write(r, f) \/ Replace(r, f)
    /\ UNCHANGED <<opt, work, leg, at, pc, cur, layer, bound, cap, st, saved, trace>>

\* The next forward's collectives wait for all ranks.
EndForward ==
    /\ pc = "dump" /\ \A r \in Ranks : rank[r].todo = <<>>
    /\ pc' = "idle"
    /\ cur' = NoForward
    /\ UNCHANGED <<opt, work, leg, at, layer, bound, cap, st, saved, rank, fs, trace>>

\* The leg has done its work: its files stay, its process is gone.
EndLeg ==
    /\ pc = "idle" /\ leg # "done"
    /\ at >= Len(opt.start[leg])
    /\ leg = "cpu" => at = Len(opt.start[leg]) + Len(work)
    /\ leg' = IF leg = "gpu" THEN "cpu" ELSE "done"
    /\ at' = 0
    /\ bound' = Unbound /\ cap' = Empty /\ st' = Start
    /\ fs' = IF leg = "gpu" THEN NoFiles ELSE fs
    /\ UNCHANGED <<opt, work, pc, cur, layer, saved, rank, trace>>

\* The engine is killed, perhaps within a save.
Kill ==
    /\ pc \in {"layer", "save", "dump"}
    /\ pc' = "dead"
    /\ \/ UNCHANGED saved
       \/ /\ pc = "layer" /\ layer > 0 /\ SavesInForward
          /\ saved' = [saved EXCEPT ![leg].whole = FALSE]
    /\ UNCHANGED <<opt, work, leg, at, cur, layer, bound, cap, st, rank, fs, trace>>

CaptureInit ==
    /\ opt \in Options
    /\ work = <<>> /\ leg = "gpu" /\ at = 0 /\ pc = "idle"
    /\ cur = NoForward /\ layer = 0
    /\ bound = Unbound /\ cap = Empty /\ st = Start
    /\ saved = [l \in Leg |-> [whole |-> TRUE, keys |-> Empty]]
    /\ rank = Idle /\ fs = NoFiles
    /\ trace = [l \in Leg |-> [tap \in Taps |-> <<>>]]

CaptureNext ==
    \/ Begin \/ Layer \/ Logits \/ Save
    \/ \E r \in Ranks : Dump(r)
    \/ EndForward \/ EndLeg \/ Kill

CaptureSpec == CaptureInit /\ [][CaptureNext]_captureVars

-----------------------------------------------------------------------------
(* diff_fullcap.py: the shared keys, in the order it prints them.          *)

Shared == DOMAIN saved["gpu"].keys \cap DOMAIN saved["cpu"].keys

\* Mutant: the layer before the pass.
SortKeyByLayer(k) ==
    IF k.op \in {"hidden", "hcpost"}
    THEN <<0, k.n, k.pass, IF k.op = "hcpost" THEN 1 ELSE 0>>
    ELSE IF k.op = "logits" THEN <<1, 0, k.n, 0>> ELSE <<2, 0, 0, 0>>

\* _sortkey: it knows the layer outputs, hc_post and the logits; the keys of
\* the other operators are all alike to it, and last.
SortKey(k) ==
    IF k.op \in {"hidden", "hcpost"}
    THEN <<0, k.pass, k.n, IF k.op = "hcpost" THEN 1 ELSE 0>>
    ELSE IF k.op = "logits" THEN <<1, 0, k.n, 0>> ELSE <<2, 0, 0, 0>>

\* Order of tuples of one length.
Before(x, y) ==
    \E i \in DOMAIN x : x[i] < y[i] /\ \A j \in 1..(i - 1) : x[j] = y[j]

\* What main() can report as FIRST DIVERGENCE when the keys of D differ.
FirstDivergence(D) == {k \in D : \A j \in D : ~Before(SortKey(j), SortKey(k))}

-----------------------------------------------------------------------------
(* Properties. *)

OriginType == [of : {"start", "work"}, n : Nat \ {0}, layer : 0..NumLayers]

\* Each variable has its type, and the taps keep within their limits.
CaptureTypeOK ==
    /\ leg \in Leg \cup {"done"}
    /\ pc \in {"idle", "layer", "logits", "save", "dump", "dead"}
    /\ layer \in 0..NumLayers
    /\ \A f \in Files : DOMAIN bound[f] \subseteq LayersTapped
    /\ \A k \in DOMAIN cap :
          cap[k] \in OriginType /\ k.pass \in 0..(1 + (st.dc \div Group))
    /\ st.dc \in 0..(at * NumLayers)
    /\ \A l \in Leg, tap \in Taps : Len(trace[l][tap]) <= Limits[l][tap]

\* What a start-up forward must not look like to be left out of a tap.
StartsOutside(l, T) == \A i \in DOMAIN opt.start[l] : TokensIn[opt.start[l][i]] \notin T

\* The request-bound files of a leg are of one forward, all layers of it: the
\* first of the work that is a frozen prompt or taken for one, so that both
\* legs bind to the same; never a dummy batch.  The tokens recorded are its
\* own, and the number is that of the prompt if it is one.
BoundToOnePrompt ==
    bound.done =>
        \E w \in DOMAIN work :
            /\ \A f \in Files :
                  bound[f] = [l \in LayersTapped |-> [of |-> "work", n |-> w, layer |-> l]]
            /\ bound.ids = work[w]
            /\ work[w] \in ToSet(Frozen) => Frozen[bound.seq] = work[w]
            /\ ~NoPrompt(work[w]) /\ \A v \in 1..(w - 1) : NoPrompt(work[v])

\* A JSON file of a single rank is absent or whole, whenever the engine is
\* killed.  Several ranks share the temporary name, empty each other's file
\* and find it gone; yet when all are through, the files whose contents the
\* ranks agree on are there and whole.
JsonWhole ==
    /\ opt.ranks = 1 => \A f \in Files : fs.out[f] # "torn"
    /\ bound.done /\ pc \notin {"dump", "dead"} =>
          \A f \in Files \ {"qfinal"} : fs.out[f] = "whole"

\* A full capture that is whole has everything of the forwards that are over:
\* a kill costs the forward it comes in, unless it comes in a save.
SavedIsPast ==
    leg # "done" /\ saved[leg].whole =>
        \A k \in DOMAIN cap :
            (cap[k].of # cur.of \/ cap[k].n # cur.n) =>
                k \in DOMAIN saved[leg].keys /\ saved[leg].keys[k] = cap[k]

\* The tensors of one pass and one layer are of one forward, though the tags
\* of hc_post and of the layer are taken from a counter that the layer
\* advances in between, and the inverse RoPE has a count of its own.
TagsAgree ==
    \A j, k \in DOMAIN cap :
        j.op # "logits" /\ k.op # "logits" /\ j.pass = k.pass /\ j.n = k.n => cap[j] = cap[k]

\* What the diff lays side by side was computed at the same step of the same
\* work, whatever forwards each engine has run to start up: unless one of
\* them looks like a short prompt, and but for the logits, whose number counts
\* the start-up forwards too.
KeysPair ==
    /\ leg # "gpu" /\ saved["gpu"].whole /\ saved["cpu"].whole
    /\ \A l \in Leg : StartsOutside(l, 2..16)
    => \A k \in Shared : k.op # "logits" =>
          saved["gpu"].keys[k] = saved["cpu"].keys[k]

\* If the legs differ from one operator on, in the first prompt or the first
\* decode step, the diff names its layer.
DiffNamesLayer ==
    LET origin == saved["gpu"].keys
        Ops    == LayerOps
        When(k) == <<origin[k].n, origin[k].layer, CHOOSE i \in DOMAIN Ops : Ops[i] = k.op>>
        Keys   == {k \in Shared : k.op # "logits"}
    IN  leg = "done" /\ (\A l \in Leg : StartsOutside(l, 2..16)) =>
            \A c \in Keys :
                c.pass <= 1 /\ c.op # "invrope" =>
                    \A k \in FirstDivergence({d \in Keys : ~Before(When(d), When(c))}) :
                        k.pass = c.pass /\ k.n = c.n

\* Line for line the traces of the two legs are of the same forward and layer:
\* where both leave out long batches, as long as no start-up forward is short;
\* where both take any batch, only if neither engine has run any to start up;
\* elsewhere only if the CPU engine has run nothing but short requests.
TracePairs ==
    \A tap \in Taps :
        /\ \A l \in Leg : StartsOutside(l, 1..31)
        /\ tap \in {SinkTap, LogitsTap} => \A l \in Leg : opt.start[l] = <<>>
        /\ tap \in {"layer", "hcpre", "hcpost"} =>
              /\ opt.start["cpu"] = <<>>
              /\ \A i \in DOMAIN work : TokensIn[work[i]] < 32
        => \A i \in DOMAIN trace["gpu"][tap] \cap DOMAIN trace["cpu"][tap] :
              trace["gpu"][tap][i] = trace["cpu"][tap][i]

\* What was written before a kill is whole, and has the past in it.
FilesSurvive == JsonWhole /\ SavedIsPast

\* What each leg binds to is one prompt; what the diff pairs, and what two
\* traces show line by line, belongs together, and the first operator that
\* differs is named.
LegsPair ==
    CaptureTypeOK /\ BoundToOnePrompt /\ TagsAgree /\ KeysPair /\ DiffNamesLayer /\ TracePairs

=============================================================================
