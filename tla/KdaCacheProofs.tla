--------------------------- MODULE KdaCacheProofs ---------------------------
(***************************************************************************)
(* Each token of a request is computed from the request's own inputs, in   *)
(* every schedule of extends, decodes and reuses of a slot, and the        *)
(* module's test of itself passes: for every window, chunk, length, pool   *)
(* and set of requests.                                                    *)
(***************************************************************************)
EXTENDS KdaCache, TLAPS, WellFoundedInduction, SequenceTheorems

\* A nonempty set of naturals has a least element: what the proofs use in
\* place of induction.
LEMMA LeastElement ==
    ASSUME NEW T \in SUBSET Nat, T # {}
    PROVE  \E x \in T : \A y \in T : x <= y
<1> DEFINE Lt == {p \in Nat \X Nat : p[1] < p[2]}
<1>1. OpToRel(<, Nat) = Lt
  BY Zenon DEF OpToRel
<1>2. IsWellFoundedOn(Lt, Nat)
  BY <1>1, NatLessThanWellFounded, Zenon
<1> HIDE DEF Lt
<1>3. PICK x \in T : \A y \in T : ~(<<y, x>> \in Lt)
  BY <1>2, WFMin, Zenon
<1>4. \A y \in T : ~(y < x)
  BY <1>3 DEF Lt
<1> QED
  BY <1>4

AnyToken == [rid : Rid \cup {NoRid}, pos : Nat]

\* The last Kernel - 1 inputs of a request of p tokens, zeros before its first.
RefHistory(id, p) ==
    [i \in 1..(Kernel - 1) |-> IF p - Kernel + i >= 0 THEN Token(id, p - Kernel + i) ELSE Zero]

\* The next n inputs of a request of p tokens.
Fresh(id, p, n) == [i \in 1..n |-> Token(id, p + i - 1)]

\* What a call's convs read: the carried inputs, and then its tokens.
Carrying(hist, x) == hist \o x

-----------------------------------------------------------------------------
(* Sequences of tokens. *)

LEMMA TokenTypes ==
    /\ Kernel \in Nat /\ Kernel > 1
    /\ Zero \in AnyToken
    /\ Zeros \in Seq(AnyToken) /\ Len(Zeros) = Kernel - 1
    /\ \A i \in 1..(Kernel - 1) : Zeros[i] = Zero
    /\ \A id \in Rid, p \in Nat : Token(id, p) \in AnyToken
<1>1. Kernel \in Nat /\ Kernel > 1
  BY KdaCacheAssumption
<1>2. Zero \in AnyToken
  BY DEF Zero, AnyToken
<1>3. Zeros \in [1..(Kernel - 1) -> AnyToken] /\ Kernel - 1 \in Nat
  BY <1>1, <1>2 DEF Zeros
<1>4. Zeros \in Seq(AnyToken) /\ Len(Zeros) = Kernel - 1
  BY <1>3
<1>5. \A id \in Rid, p \in Nat : Token(id, p) \in AnyToken
  BY DEF Token, AnyToken
<1> QED
  BY <1>1, <1>2, <1>3, <1>4, <1>5 DEF Zeros

LEMMA TokenSeqs ==
    ASSUME NEW id \in Rid, NEW p \in Nat, NEW n \in Nat
    PROVE  /\ Fresh(id, p, n) \in Seq(AnyToken)
           /\ Len(Fresh(id, p, n)) = n
           /\ RefBefore(id, p) \in Seq(AnyToken)
           /\ Len(RefBefore(id, p)) = p
           /\ RefHistory(id, p) \in Seq(AnyToken)
           /\ Len(RefHistory(id, p)) = Kernel - 1
<1>1. Fresh(id, p, n) \in [1..n -> AnyToken]
  BY TokenTypes DEF Fresh
<1>2. RefBefore(id, p) \in [1..p -> AnyToken]
  BY TokenTypes DEF RefBefore
<1>3. RefHistory(id, p) \in [1..(Kernel - 1) -> AnyToken]
  <2>1. \A i \in 1..(Kernel - 1) :
           (IF p - Kernel + i >= 0 THEN Token(id, p - Kernel + i) ELSE Zero) \in AnyToken
    <3> SUFFICES ASSUME NEW i \in 1..(Kernel - 1), p - Kernel + i >= 0
                 PROVE  Token(id, p - Kernel + i) \in AnyToken
      BY TokenTypes
    <3>1. p - Kernel + i \in Nat
      BY TokenTypes
    <3> QED
      BY <3>1, TokenTypes
  <2> QED
    BY <2>1 DEF RefHistory
<1>4. Kernel - 1 \in Nat
  BY TokenTypes
<1> QED
  BY <1>1, <1>2, <1>3, <1>4

\* What a request has absorbed, and then the next tokens.
LEMMA AbsorbedGrows ==
    ASSUME NEW id \in Rid, NEW p \in Nat, NEW n \in Nat
    PROVE  RefBefore(id, p) \o Fresh(id, p, n) = RefBefore(id, p + n)
<1> DEFINE s == RefBefore(id, p)
           t == Fresh(id, p, n)
           u == RefBefore(id, p + n)
<1>1. p + n \in Nat
  OBVIOUS
<1>2. /\ s \in Seq(AnyToken) /\ Len(s) = p
      /\ t \in Seq(AnyToken) /\ Len(t) = n
      /\ u \in Seq(AnyToken) /\ Len(u) = p + n
  BY <1>1, TokenSeqs
<1>3. /\ s \o t \in Seq(AnyToken) /\ Len(s \o t) = p + n
      /\ \A i \in 1..(p + n) : (s \o t)[i] = IF i <= p THEN s[i] ELSE t[i - p]
  <2> HIDE DEF s, t
  <2> QED
    BY <1>2, ConcatProperties
<1>4. \A i \in 1..(p + n) : (s \o t)[i] = u[i]
  <2> SUFFICES ASSUME NEW i \in 1..(p + n) PROVE (s \o t)[i] = u[i]
    OBVIOUS
  <2>1. u[i] = Token(id, i - 1)
    BY DEF RefBefore
  <2>2. CASE i <= p
    <3>1. i \in 1..p
      BY <2>2
    <3>2. s[i] = Token(id, i - 1)
      BY <3>1 DEF RefBefore
    <3>3. (s \o t)[i] = s[i]
      BY <1>3, <2>2
    <3> QED
      BY <2>1, <3>2, <3>3
  <2>3. CASE i > p
    <3>1. i - p \in 1..n /\ p + (i - p) - 1 = i - 1
      BY <2>3
    <3>2. t[i - p] = Token(id, i - 1)
      BY <3>1 DEF Fresh
    <3>3. (s \o t)[i] = t[i - p]
      BY <1>3, <2>3
    <3> QED
      BY <2>1, <3>2, <3>3
  <2>4. i <= p \/ i > p
    OBVIOUS
  <2> QED
    BY <2>2, <2>3, <2>4
<1> HIDE DEF s, t, u
<1>5. s \o t = u
  BY <1>2, <1>3, <1>4, SeqEqual
<1> QED
  BY <1>5 DEF s, t, u

LEMMA FreshPrefix ==
    ASSUME NEW id \in Rid, NEW p \in Nat, NEW n \in Nat, NEW i \in 1..n
    PROVE  SubSeq(Fresh(id, p, n), 1, i - 1) = Fresh(id, p, i - 1)
<1> DEFINE s == SubSeq(Fresh(id, p, n), 1, i - 1)
           t == Fresh(id, p, i - 1)
<1>1. i - 1 \in Nat
  OBVIOUS
<1>2. t \in Seq(AnyToken) /\ Len(t) = i - 1
  BY <1>1, TokenSeqs
<1>3. \A j \in 1..(i - 1) : Fresh(id, p, n)[j] = Token(id, p + j - 1)
  BY DEF Fresh
<1>4. \A j \in 1..(i - 1) : Fresh(id, p, n)[j] \in AnyToken
  BY <1>3, TokenTypes
<1>5. /\ s \in Seq(AnyToken) /\ Len(s) = i - 1
      /\ \A j \in 1..(i - 1) : s[j] = Fresh(id, p, n)[1 + j - 1]
  BY <1>1, <1>4, SubSeqProperties
<1>6. \A j \in 1..(i - 1) : s[j] = t[j]
  BY <1>3, <1>5 DEF Fresh
<1> HIDE DEF s, t
<1>7. s = t
  BY <1>2, <1>5, <1>6, SeqEqual
<1> QED
  BY <1>7 DEF s, t

-----------------------------------------------------------------------------
(* The operators of a layer. *)

\* The window of a token: the Kernel inputs up to it, carried ones included.
LEMMA LayerWindow ==
    ASSUME NEW hist \in Seq(AnyToken), NEW x \in Seq(AnyToken), NEW state,
           NEW decode \in BOOLEAN,
           Len(hist) = Kernel - 1, decode => Len(x) = 1
    PROVE  \A t \in 1..Len(x), j \in 1..Kernel :
              kda_layer_forward(x, hist, state, decode).out[t].window[j] = Carrying(hist, x)[t + j - 1]
<1> USE DEF Carrying
<1> TAKE t \in 1..Len(x), j \in 1..Kernel
<1> DEFINE y == hist \o x
           z == Zeros \o y
           out == IF decode THEN <<causal_conv1d_update(x[1], hist).out>>
                  ELSE SubSeq(causal_conv1d(y), Kernel, Kernel - 1 + Len(x))
<1>1. /\ Kernel \in Nat /\ Kernel > 1 /\ Len(x) \in Nat
      /\ Zeros \in Seq(AnyToken) /\ Len(Zeros) = Kernel - 1
  BY TokenTypes, LenProperties
<1>2. DOMAIN x = 1..Len(x)
  BY LenProperties
<1>3. /\ y \in Seq(AnyToken) /\ Len(y) = Kernel - 1 + Len(x)
      /\ \A i \in 1..(Kernel - 1 + Len(x)) :
            y[i] = IF i <= Kernel - 1 THEN hist[i] ELSE x[i - (Kernel - 1)]
  <2>1. /\ y \in Seq(AnyToken) /\ Len(y) = Len(hist) + Len(x)
        /\ \A i \in 1..(Len(hist) + Len(x)) :
              y[i] = IF i <= Len(hist) THEN hist[i] ELSE x[i - Len(hist)]
    BY ConcatProperties
  <2> HIDE DEF y
  <2> QED
    BY <2>1
<1>4. kda_layer_forward(x, hist, state, decode).out[t].window = out[t]
  <2>1. t \in DOMAIN x
    BY <1>2
  <2> QED
    BY <2>1, Zenon DEF kda_layer_forward
<1>5. CASE decode
  <2>0. Len(x) = 1
    BY <1>5, Zenon
  <2>1. t = 1 /\ Len(x) = 1
    BY <2>0
  <2>2. out[t] = Append(hist, x[1])
    BY <1>5, <2>1 DEF causal_conv1d_update
  <2>3. Append(hist, x[1])[j] = y[j]
    <3>1. Append(hist, x[1])[j] = IF j <= Kernel - 1 THEN hist[j] ELSE x[1]
      BY <1>1
    <3>2. y[j] = IF j <= Kernel - 1 THEN hist[j] ELSE x[j - (Kernel - 1)]
      BY <1>1, <1>3, <2>1
    <3>3. j > Kernel - 1 => j - (Kernel - 1) = 1
      BY <1>1
    <3> QED
      BY <1>1, <3>1, <3>2, <3>3
  <2>4. t + j - 1 = j
    BY <1>1, <2>1
  <2> QED
    BY <1>4, <2>2, <2>3, <2>4
<1>6. CASE ~decode
  <2>1. /\ z \in Seq(AnyToken) /\ Len(z) = Kernel - 1 + Len(y)
        /\ \A i \in 1..(Kernel - 1 + Len(y)) :
              z[i] = IF i <= Kernel - 1 THEN Zeros[i] ELSE y[i - (Kernel - 1)]
    <3>1. y \in Seq(AnyToken)
      BY <1>3
    <3> HIDE DEF y
    <3>2. /\ z \in Seq(AnyToken) /\ Len(z) = Len(Zeros) + Len(y)
          /\ \A i \in 1..(Len(Zeros) + Len(y)) :
                z[i] = IF i <= Len(Zeros) THEN Zeros[i] ELSE y[i - Len(Zeros)]
      BY <1>1, <3>1, ConcatProperties
    <3> HIDE DEF z
    <3> QED
      BY <1>1, <3>2
  <2> DEFINE c == causal_conv1d(y)
             k == t + Kernel - 1
  <2>2. k \in 1..(Kernel - 1 + Len(x)) /\ k \in Nat
    BY <1>1
  <2>3. DOMAIN y = 1..(Kernel - 1 + Len(x))
    BY <1>3, LenProperties
  <2>4. /\ c = [i \in 1..(Kernel - 1 + Len(x)) |-> SubSeq(z, i, i + Kernel - 1)]
        /\ c[k] = SubSeq(z, k, k + Kernel - 1)
    BY <2>2, <2>3 DEF causal_conv1d
  <2>5. out[t] = c[k]
    <3>1. out[t] = SubSeq(c, Kernel, Kernel - 1 + Len(x))[t]
      BY <1>6
    <3> DEFINE S == {SubSeq(z, i, i + Kernel - 1) : i \in 1..(Kernel - 1 + Len(x))}
    <3>2. \A i \in Kernel..(Kernel - 1 + Len(x)) : c[i] \in S
      <4> SUFFICES ASSUME NEW i \in Kernel..(Kernel - 1 + Len(x)) PROVE c[i] \in S
        OBVIOUS
      <4>1. i \in 1..(Kernel - 1 + Len(x))
        BY <1>1
      <4>2. c[i] = SubSeq(z, i, i + Kernel - 1)
        <5> HIDE DEF c, z
        <5> QED
          BY <4>1, <2>4
      <4> QED
        BY <4>1, <4>2, Zenon
    <3>3. t \in 1..((Kernel - 1 + Len(x)) - Kernel + 1)
      BY <1>1
    <3>4. SubSeq(c, Kernel, Kernel - 1 + Len(x))[t] = c[Kernel + t - 1]
      <4> HIDE DEF c, S
      <4>1. Kernel \in Int /\ Kernel - 1 + Len(x) \in Int
        BY <1>1
      <4> QED
        BY <4>1, <3>2, <3>3, SubSeqProperties
    <3>5. Kernel + t - 1 = k
      BY <1>1
    <3> QED
      BY <3>1, <3>4, <3>5
  <2>6. SubSeq(z, k, k + Kernel - 1)[j] = z[k + j - 1]
    <3>1. \A i \in k..(k + Kernel - 1) : z[i] \in AnyToken
      <4> SUFFICES ASSUME NEW i \in k..(k + Kernel - 1) PROVE z[i] \in AnyToken
        OBVIOUS
      <4>1. i \in 1..Len(z)
        BY <1>1, <1>3, <2>1
      <4> QED
        BY <4>1, <2>1, ElementOfSeq
    <3>2. k \in Int /\ k + Kernel - 1 \in Int /\ j \in 1..((k + Kernel - 1) - k + 1)
      BY <1>1, <2>2
    <3> HIDE DEF z, k
    <3> QED
      BY <3>1, <3>2, SubSeqProperties
  <2>7. z[k + j - 1] = y[t + j - 1]
    <3>1. PICK i \in Int : i = k + j - 1
      BY <1>1
    <3>2. /\ i \in 1..(Kernel - 1 + Len(y))
          /\ ~(i <= Kernel - 1)
          /\ i - (Kernel - 1) = t + j - 1
      BY <1>1, <1>3, <3>1
    <3> HIDE DEF z, y, k, c, out
    <3>3. z[i] = y[i - (Kernel - 1)]
      BY <2>1, <3>2
    <3> QED
      BY <3>1, <3>2, <3>3
  <2>8. out[t][j] = y[t + j - 1]
    <3> HIDE DEF z, y, k, c, out
    <3> QED
      BY <2>4, <2>5, <2>6, <2>7, Zenon
  <2> HIDE DEF out
  <2> QED
    BY <1>4, <2>8, Zenon
<1> QED
  BY <1>5, <1>6

\* What the recurrent state held before a token.
LEMMA LayerScan ==
    ASSUME NEW x, NEW hist, NEW state, NEW decode
    PROVE  \A t \in DOMAIN x : kda_layer_forward(x, hist, state, decode).out[t].before
                                  = state \o SubSeq(x, 1, t - 1)
  BY DEF kda_layer_forward, kda_recurrent

\* What it holds in the end.
LEMMA LayerAbsorbs ==
    ASSUME NEW x, NEW hist, NEW state, NEW decode
    PROVE  kda_layer_forward(x, hist, state, decode).ssm = state \o x
  BY DEF kda_layer_forward, kda_recurrent

\* The window has Kernel inputs.
LEMMA LayerWindowLength ==
    ASSUME NEW hist \in Seq(AnyToken), NEW x \in Seq(AnyToken), NEW state,
           NEW decode \in BOOLEAN,
           Len(hist) = Kernel - 1, decode => Len(x) = 1
    PROVE  \A t \in 1..Len(x) :
              LET w == kda_layer_forward(x, hist, state, decode).out[t].window
              IN  w \in Seq(AnyToken) /\ Len(w) = Kernel
<1> TAKE t \in 1..Len(x)
<1> DEFINE y == hist \o x
           z == Zeros \o y
           out == IF decode THEN <<causal_conv1d_update(x[1], hist).out>>
                  ELSE SubSeq(causal_conv1d(y), Kernel, Kernel - 1 + Len(x))
<1>1. /\ Kernel \in Nat /\ Kernel > 1 /\ Len(x) \in Nat
      /\ Zeros \in Seq(AnyToken) /\ Len(Zeros) = Kernel - 1
  BY TokenTypes, LenProperties
<1>2. DOMAIN x = 1..Len(x)
  BY LenProperties
<1>3. kda_layer_forward(x, hist, state, decode).out[t].window = out[t]
  <2>1. t \in DOMAIN x
    BY <1>2
  <2> QED
    BY <2>1, Zenon DEF kda_layer_forward
<1>4. CASE decode
  <2>1. Len(x) = 1
    BY <1>4, Zenon
  <2>2. x[1] \in AnyToken
    <3>1. 1 \in 1..Len(x)
      BY <2>1
    <3> QED
      BY <3>1, ElementOfSeq
  <2>2a. t = 1
    BY <2>1
  <2>3. out[t] = Append(hist, x[1])
    BY <1>4, <2>2a DEF causal_conv1d_update
  <2>4. Append(hist, x[1]) \in Seq(AnyToken) /\ Len(Append(hist, x[1])) = Kernel
    BY <1>1, <2>2
  <2> QED
    BY <1>3, <2>3, <2>4, Zenon
<1>5. CASE ~decode
  <2>1. y \in Seq(AnyToken) /\ Len(y) = Kernel - 1 + Len(x)
    <3>1. y \in Seq(AnyToken) /\ Len(y) = Len(hist) + Len(x)
      BY ConcatProperties
    <3> HIDE DEF y
    <3> QED
      BY <3>1
  <2>2. z \in Seq(AnyToken) /\ Len(z) = Kernel - 1 + (Kernel - 1 + Len(x))
    <3> HIDE DEF y
    <3>1. z \in Seq(AnyToken) /\ Len(z) = Len(Zeros) + Len(y)
      BY <1>1, <2>1, ConcatProperties
    <3> HIDE DEF z
    <3> QED
      BY <1>1, <2>1, <3>1
  <2> DEFINE c == causal_conv1d(y)
  <2>3. DOMAIN y = 1..(Kernel - 1 + Len(x))
    BY <2>1, LenProperties
  <2>4. c = [i \in 1..(Kernel - 1 + Len(x)) |-> SubSeq(z, i, i + Kernel - 1)]
    BY <2>3 DEF causal_conv1d
  <2>5. \A i \in 1..(Kernel - 1 + Len(x)) :
           c[i] \in Seq(AnyToken) /\ Len(c[i]) = Kernel
    <3> SUFFICES ASSUME NEW i \in 1..(Kernel - 1 + Len(x))
                 PROVE  c[i] \in Seq(AnyToken) /\ Len(c[i]) = Kernel
      OBVIOUS
    <3> HIDE DEF y, z
    <3>1. c[i] = SubSeq(z, i, i + Kernel - 1)
      <4> HIDE DEF c
      <4> QED
        BY <2>4
    <3>2. \A k \in i..(i + Kernel - 1) : z[k] \in AnyToken
      <4> SUFFICES ASSUME NEW k \in i..(i + Kernel - 1) PROVE z[k] \in AnyToken
        OBVIOUS
      <4>1. k \in 1..Len(z)
        BY <1>1, <2>2
      <4> QED
        BY <4>1, <2>2, ElementOfSeq
    <3>3. i \in Int /\ i + Kernel - 1 \in Int /\ i <= i + Kernel - 1
      BY <1>1
    <3>4. /\ SubSeq(z, i, i + Kernel - 1) \in Seq(AnyToken)
          /\ Len(SubSeq(z, i, i + Kernel - 1)) = (i + Kernel - 1) - i + 1
      BY <3>2, <3>3, SubSeqProperties
    <3>5. (i + Kernel - 1) - i + 1 = Kernel
      BY <1>1
    <3> HIDE DEF c
    <3> QED
      BY <3>1, <3>4, <3>5
  <2> HIDE DEF c
  <2> DEFINE S == {w \in Seq(AnyToken) : Len(w) = Kernel}
  <2>6. \A i \in Kernel..(Kernel - 1 + Len(x)) : c[i] \in S
    BY <1>1, <2>5
  <2>7. SubSeq(c, Kernel, Kernel - 1 + Len(x)) \in Seq(S)
        /\ Len(SubSeq(c, Kernel, Kernel - 1 + Len(x)))
             = (IF Kernel <= Kernel - 1 + Len(x) THEN (Kernel - 1 + Len(x)) - Kernel + 1 ELSE 0)
    <3> HIDE DEF S
    <3>1. Kernel \in Int /\ Kernel - 1 + Len(x) \in Int
      BY <1>1
    <3> QED
      BY <2>6, <3>1, SubSeqProperties
  <2>8. t \in 1..Len(SubSeq(c, Kernel, Kernel - 1 + Len(x)))
    BY <1>1, <2>7
  <2>9. SubSeq(c, Kernel, Kernel - 1 + Len(x))[t] \in S
    <3> HIDE DEF S
    <3> QED
      BY <2>7, <2>8, ElementOfSeq
  <2>10. out[t] \in S
    <3> HIDE DEF S
    <3> QED
      BY <1>5, <2>9, Zenon DEF c
  <2> HIDE DEF out
  <2> QED
    BY <1>3, <2>10
<1> QED
  BY <1>4, <1>5

\* The conv state a call returns.
LEMMA LayerConv ==
    ASSUME NEW hist \in Seq(AnyToken), NEW x \in Seq(AnyToken), NEW state,
           NEW decode \in BOOLEAN,
           Len(hist) = Kernel - 1, Len(x) > 0, decode => Len(x) = 1
    PROVE  LET c == kda_layer_forward(x, hist, state, decode).conv
           IN  /\ c \in Seq(AnyToken) /\ Len(c) = Kernel - 1
               /\ decode => \A i \in 1..(Kernel - 1) : c[i] = Carrying(hist, x)[i + 1]
               /\ ~decode => \A i \in 1..(Kernel - 1) : c[i] = Carrying(Zeros, x)[Len(x) + i]
<1> USE DEF Carrying
<1> DEFINE c == kda_layer_forward(x, hist, state, decode).conv
           y == hist \o x
           z == Zeros \o x
<1>1. /\ Kernel \in Nat /\ Kernel > 1 /\ Len(x) \in Nat
      /\ Zeros \in Seq(AnyToken) /\ Len(Zeros) = Kernel - 1
  BY TokenTypes, LenProperties
<1>2. c = IF decode THEN causal_conv1d_update(x[1], hist).state ELSE LastOf(Zeros \o x, Kernel - 1)
  BY Zenon DEF kda_layer_forward
<1>3. CASE decode
  <2>1. Len(x) = 1
    BY <1>3, Zenon
  <2>2. x[1] \in AnyToken
    <3>1. 1 \in 1..Len(x)
      BY <2>1
    <3> QED
      BY <3>1, ElementOfSeq
  <2> DEFINE a == Append(hist, x[1])
  <2>3. /\ a \in Seq(AnyToken) /\ Len(a) = Kernel
        /\ \A i \in 1..Kernel : a[i] = IF i <= Kernel - 1 THEN hist[i] ELSE x[1]
    BY <1>1, <2>2
  <2>4. c = Tail(a)
    BY <1>2, <1>3, Zenon DEF causal_conv1d_update
  <2>5. /\ y \in Seq(AnyToken) /\ Len(y) = Kernel
        /\ \A i \in 1..Kernel : y[i] = IF i <= Kernel - 1 THEN hist[i] ELSE x[i - (Kernel - 1)]
    <3>1. /\ y \in Seq(AnyToken) /\ Len(y) = Len(hist) + Len(x)
          /\ \A i \in 1..(Len(hist) + Len(x)) :
                y[i] = IF i <= Len(hist) THEN hist[i] ELSE x[i - Len(hist)]
      BY ConcatProperties
    <3> HIDE DEF y
    <3> QED
      BY <1>1, <2>1, <3>1
  <2> HIDE DEF a, y
  <2>6. \A i \in 1..Kernel : a[i] = y[i]
    <3> SUFFICES ASSUME NEW i \in 1..Kernel PROVE a[i] = y[i]
      OBVIOUS
    <3>1. CASE i <= Kernel - 1
      <4>1. a[i] = hist[i] /\ y[i] = hist[i]
        BY <2>3, <2>5, <3>1
      <4> QED
        BY <4>1
    <3>2. CASE ~(i <= Kernel - 1)
      <4>1. i - (Kernel - 1) = 1
        BY <1>1, <3>2
      <4>2. a[i] = x[1] /\ y[i] = x[i - (Kernel - 1)]
        BY <2>3, <2>5, <3>2
      <4> QED
        BY <4>1, <4>2
    <3> QED
      BY <3>1, <3>2
  <2>7. /\ Tail(a) \in Seq(AnyToken) /\ Len(Tail(a)) = Kernel - 1
        /\ \A i \in 1..(Kernel - 1) : Tail(a)[i] = a[i + 1]
    BY <1>1, <2>3, HeadTailProperties, EmptySeq
  <2>8. \A i \in 1..(Kernel - 1) : Tail(a)[i] = y[i + 1]
    BY <1>1, <2>6, <2>7
  <2> HIDE DEF c
  <2>9. /\ c \in Seq(AnyToken) /\ Len(c) = Kernel - 1
        /\ \A i \in 1..(Kernel - 1) : c[i] = y[i + 1]
    BY <2>4, <2>7, <2>8, Zenon
  <2> QED
    BY <1>3, <2>9, Zenon DEF c, y
<1>4. CASE ~decode
  <2>1. z \in Seq(AnyToken) /\ Len(z) = Kernel - 1 + Len(x)
    <3>1. z \in Seq(AnyToken) /\ Len(z) = Len(Zeros) + Len(x)
      BY <1>1, ConcatProperties
    <3> HIDE DEF z
    <3> QED
      BY <1>1, <3>1
  <2>2. c = SubSeq(z, Len(z) - (Kernel - 1) + 1, Len(z))
    BY <1>2, <1>4, Zenon DEF LastOf
  <2> HIDE DEF c, z
  <2>3. PICK f \in Int, g \in Int : f = Len(z) - (Kernel - 1) + 1 /\ g = Len(z)
    BY <1>1, <2>1
  <2>3a. f = Len(x) + 1 /\ g - f + 1 = Kernel - 1
    BY <1>1, <2>1, <2>3
  <2>3b. \A i \in 1..(Kernel - 1) : f + i - 1 = Len(x) + i /\ i \in 1..(g - f + 1)
    BY <1>1, <2>3a
  <2>4. \A i \in f..g : z[i] \in AnyToken
    <3> SUFFICES ASSUME NEW i \in f..g PROVE z[i] \in AnyToken
      OBVIOUS
    <3>1. i \in 1..Len(z)
      BY <1>1, <2>1, <2>3, <2>3a
    <3> QED
      BY <3>1, <2>1, ElementOfSeq
  <2>5. /\ SubSeq(z, f, g) \in Seq(AnyToken)
        /\ Len(SubSeq(z, f, g)) = IF f <= g THEN g - f + 1 ELSE 0
        /\ \A i \in 1..(g - f + 1) : SubSeq(z, f, g)[i] = z[f + i - 1]
    BY <2>4, SubSeqProperties
  <2>6. c = SubSeq(z, f, g)
    BY <2>2, <2>3
  <2>7. f <= g
    BY <1>1, <2>3a
  <2>8. c \in Seq(AnyToken) /\ Len(c) = Kernel - 1
    BY <2>3a, <2>5, <2>6, <2>7
  <2>9. \A i \in 1..(Kernel - 1) : c[i] = z[Len(x) + i]
    <3> SUFFICES ASSUME NEW i \in 1..(Kernel - 1) PROVE c[i] = z[Len(x) + i]
      OBVIOUS
    <3>1. c[i] = z[f + i - 1]
      BY <2>3b, <2>5, <2>6
    <3>2. f + i - 1 = Len(x) + i
      BY <2>3b
    <3> QED
      BY <3>1, <3>2
  <2> QED
    BY <1>4, <2>8, <2>9, Zenon DEF c, z
<1> QED
  BY <1>3, <1>4

-----------------------------------------------------------------------------
(* A layer that carries on with a request. *)

\* The input at position q of a request, and before its first.
InputAt(id, q) == IF q >= 0 THEN Token(id, q) ELSE Zero

Own(id, w) == \A i \in 1..Len(w) : w[i].rid \in {id, NoRid}

\* What a slot may carry for a request.
Carries(id, hist) == hist \in Seq(AnyToken) /\ Len(hist) = Kernel - 1 /\ Own(id, hist)

LEMMA WindowType ==
    ASSUME NEW id \in Rid, NEW p \in Nat
    PROVE  RefWindow(id, p) \in Seq(AnyToken) /\ Len(RefWindow(id, p)) = Kernel
<1>1. \A i \in 1..Kernel :
         (IF p - Kernel + i >= 0 THEN Token(id, p - Kernel + i) ELSE Zero) \in AnyToken
  <2> SUFFICES ASSUME NEW i \in 1..Kernel, p - Kernel + i >= 0
               PROVE  Token(id, p - Kernel + i) \in AnyToken
    BY TokenTypes
  <2>1. p - Kernel + i \in Nat
    BY TokenTypes
  <2> QED
    BY <2>1, TokenTypes
<1>2. RefWindow(id, p) \in [1..Kernel -> AnyToken] /\ Kernel \in Nat
  BY <1>1, TokenTypes DEF RefWindow
<1> QED
  BY <1>2

\* A request that has not begun.
LEMMA Beginning ==
    ASSUME NEW id \in Rid
    PROVE  RefHistory(id, 0) = Zeros /\ RefBefore(id, 0) = <<>> /\ Own(id, Zeros)
<1>1. RefHistory(id, 0) = Zeros
  <2>1. \A i \in 1..(Kernel - 1) : ~(0 - Kernel + i >= 0)
    BY TokenTypes
  <2> QED
    BY <2>1 DEF RefHistory, Zeros
<1>2. RefBefore(id, 0) = <<>>
  BY DEF RefBefore
<1>3. Own(id, Zeros)
  <2> SUFFICES ASSUME NEW i \in 1..Len(Zeros) PROVE Zeros[i].rid \in {id, NoRid}
    BY DEF Own
  <2>1. Zeros[i] = Zero
    BY TokenTypes
  <2> QED
    BY <2>1 DEF Zero
<1> QED
  BY <1>1, <1>2, <1>3

\* What is carried and then the tokens of the call: the request's own, and
\* when what is carried is exact, all of them in order.
LEMMA CarriedInputs ==
    ASSUME NEW id \in Rid, NEW p \in Nat, NEW n \in Nat,
           NEW hist \in Seq(AnyToken), Len(hist) = Kernel - 1, Own(id, hist),
           NEW i \in 1..(Kernel - 1 + n)
    PROVE  LET y == Carrying(hist, Fresh(id, p, n))
           IN  /\ y[i].rid \in {id, NoRid}
               /\ i > Kernel - 1 => y[i] = Token(id, p - Kernel + i) /\ p - Kernel + i >= 0
               /\ hist = RefHistory(id, p) => y[i] = InputAt(id, p - Kernel + i)
<1> USE DEF Carrying
<1> DEFINE x == Fresh(id, p, n)
           y == hist \o x
<1>1. Kernel \in Nat /\ Kernel > 1 /\ x \in Seq(AnyToken) /\ Len(x) = n
  BY TokenTypes, TokenSeqs
<1>2. y[i] = IF i <= Kernel - 1 THEN hist[i] ELSE x[i - (Kernel - 1)]
  <2> HIDE DEF x
  <2>1. \A k \in 1..(Len(hist) + Len(x)) : y[k] = IF k <= Len(hist) THEN hist[k] ELSE x[k - Len(hist)]
    BY <1>1, ConcatProperties
  <2> HIDE DEF y
  <2> QED
    BY <1>1, <2>1
<1>3. CASE i <= Kernel - 1
  <2>1. y[i] = hist[i] /\ i \in 1..(Kernel - 1)
    BY <1>2, <1>3
  <2> HIDE DEF y
  <2>2. y[i].rid \in {id, NoRid}
    BY <2>1 DEF Own
  <2>3. hist = RefHistory(id, p) => y[i] = InputAt(id, p - Kernel + i)
    BY <2>1 DEF RefHistory, InputAt
  <2> QED
    BY <1>1, <1>3, <2>2, <2>3 DEF y
<1>4. CASE ~(i <= Kernel - 1)
  <2>1. /\ i - (Kernel - 1) \in 1..n
        /\ p + (i - (Kernel - 1)) - 1 = p - Kernel + i
        /\ p - Kernel + i >= 0
    BY <1>1, <1>4
  <2>2. x[i - (Kernel - 1)] = Token(id, p + (i - (Kernel - 1)) - 1)
    BY <2>1 DEF Fresh
  <2>3. y[i] = Token(id, p - Kernel + i)
    <3> HIDE DEF x, y
    <3> QED
      BY <1>2, <1>4, <2>1, <2>2
  <2> HIDE DEF y
  <2> QED
    BY <2>1, <2>3 DEF Token, InputAt, y
<1> QED
  BY <1>3, <1>4

LEMMA LayerTokens ==
    ASSUME NEW id \in Rid, NEW p \in Nat, NEW n \in Nat,
           NEW hist, Carries(id, hist),
           NEW decode \in BOOLEAN, decode => n = 1, NEW t \in 1..n
    PROVE  LET o == kda_layer_forward(Fresh(id, p, n), hist, RefBefore(id, p), decode).out[t]
           IN  /\ o.before = RefBefore(id, p + (t - 1))
               /\ \A j \in 1..Kernel : o.window[j].rid \in {id, NoRid}
               /\ hist = RefHistory(id, p) => o.window = RefWindow(id, p + (t - 1))
<1>0. PICK x : x = Fresh(id, p, n)
  OBVIOUS
<1>h. hist \in Seq(AnyToken) /\ Len(hist) = Kernel - 1 /\ Own(id, hist)
  BY DEF Carries
<1> DEFINE y == Carrying(hist, x)
           o == kda_layer_forward(x, hist, RefBefore(id, p), decode).out[t]
           w == o.window
<1>1. /\ Kernel \in Nat /\ Kernel > 1 /\ x \in Seq(AnyToken) /\ Len(x) = n
      /\ DOMAIN x = 1..n
  BY <1>0, TokenTypes, TokenSeqs DEF Fresh
<1>2. o.before = RefBefore(id, p + (t - 1))
  <2>1. o.before = RefBefore(id, p) \o SubSeq(x, 1, t - 1)
    <3>1. t \in DOMAIN x
      BY <1>1
    <3> QED
      BY <3>1, LayerScan, Zenon
  <2>2. SubSeq(x, 1, t - 1) = Fresh(id, p, t - 1)
    BY <1>0, FreshPrefix
  <2>3. t - 1 \in Nat
    OBVIOUS
  <2>4. RefBefore(id, p) \o Fresh(id, p, t - 1) = RefBefore(id, p + (t - 1))
    BY <2>3, AbsorbedGrows
  <2> HIDE DEF o
  <2> QED
    BY <2>1, <2>2, <2>4
<1>3. \A j \in 1..Kernel : w[j] = y[t + j - 1]
  <2>1. t \in 1..Len(x)
    BY <1>1
  <2>2. decode => Len(x) = 1
    BY <1>1
  <2>3. x \in Seq(AnyToken)
    BY <1>1
  <2> QED
    BY <2>1, <2>2, <2>3, <1>h, LayerWindow
<1>4. w \in Seq(AnyToken) /\ Len(w) = Kernel
  BY <1>1, <1>h, LayerWindowLength
<1>5. \A j \in 1..Kernel :
         /\ w[j].rid \in {id, NoRid}
         /\ hist = RefHistory(id, p) => w[j] = InputAt(id, (p + (t - 1)) - Kernel + j)
  <2> SUFFICES ASSUME NEW j \in 1..Kernel
               PROVE  /\ w[j].rid \in {id, NoRid}
                      /\ hist = RefHistory(id, p) => w[j] = InputAt(id, (p + (t - 1)) - Kernel + j)
    OBVIOUS
  <2>1. PICK i \in 1..(Kernel - 1 + n) : i = t + j - 1
    BY <1>1
  <2>2. p - Kernel + i = (p + (t - 1)) - Kernel + j
    BY <1>1, <2>1
  <2>3. w[j] = y[i]
    BY <1>3, <2>1
  <2>4. y[i].rid \in {id, NoRid}
    BY <1>0, <1>h, CarriedInputs
  <2>5. hist = RefHistory(id, p) => y[i] = InputAt(id, p - Kernel + i)
    BY <1>0, <1>h, CarriedInputs
  <2> HIDE DEF w, y
  <2> QED
    BY <2>2, <2>3, <2>4, <2>5
<1>6. ASSUME hist = RefHistory(id, p)
      PROVE  w = RefWindow(id, p + (t - 1))
  <2>1. p + (t - 1) \in Nat
    OBVIOUS
  <2>2. /\ RefWindow(id, p + (t - 1)) \in Seq(AnyToken)
        /\ Len(RefWindow(id, p + (t - 1))) = Kernel
    BY <2>1, WindowType
  <2>3. \A j \in 1..Kernel : RefWindow(id, p + (t - 1))[j] = InputAt(id, (p + (t - 1)) - Kernel + j)
    BY <2>1 DEF RefWindow, InputAt
  <2> HIDE DEF w
  <2> QED
    BY <1>4, <1>5, <1>6, <2>2, <2>3, SeqEqual
<1> HIDE DEF o
<1> QED
  BY <1>0, <1>2, <1>5, <1>6 DEF o

\* The states the call leaves.  The conv state is exact again unless a chunk
\* that went on with the prompt was shorter than it.
LEMMA LayerStates ==
    ASSUME NEW id \in Rid, NEW p \in Nat, NEW n \in Nat \ {0},
           NEW hist, Carries(id, hist),
           NEW decode \in BOOLEAN, decode => n = 1
    PROVE  LET l == kda_layer_forward(Fresh(id, p, n), hist, RefBefore(id, p), decode)
           IN  /\ l.ssm = RefBefore(id, p + n)
               /\ Carries(id, l.conv)
               /\ hist = RefHistory(id, p) /\ (decode \/ p = 0 \/ n >= Kernel - 1)
                    => l.conv = RefHistory(id, p + n)
<1>0. PICK x : x = Fresh(id, p, n)
  OBVIOUS
<1>h. hist \in Seq(AnyToken) /\ Len(hist) = Kernel - 1 /\ Own(id, hist)
  BY DEF Carries
<1> DEFINE l == kda_layer_forward(x, hist, RefBefore(id, p), decode)
           c == l.conv
           y == Carrying(hist, x)
           z == Carrying(Zeros, x)
<1>1. /\ Kernel \in Nat /\ Kernel > 1 /\ x \in Seq(AnyToken) /\ Len(x) = n
      /\ Zeros \in Seq(AnyToken) /\ Len(Zeros) = Kernel - 1
      /\ 1 \in DOMAIN x
  BY <1>0, TokenTypes, TokenSeqs DEF Fresh
<1>2. l.ssm = RefBefore(id, p + n)
  <2>1. l.ssm = RefBefore(id, p) \o x
    BY LayerAbsorbs, Zenon
  <2>2. RefBefore(id, p) \o x = RefBefore(id, p + n)
    BY <1>0, AbsorbedGrows
  <2> HIDE DEF l
  <2> QED
    BY <2>1, <2>2
<1>3. /\ c \in Seq(AnyToken) /\ Len(c) = Kernel - 1
      /\ decode => \A i \in 1..(Kernel - 1) : c[i] = y[i + 1]
      /\ ~decode => \A i \in 1..(Kernel - 1) : c[i] = z[n + i]
  <2>1. Len(x) = n
    BY <1>1
  <2>3. Len(x) > 0
    BY <1>1
  <2>4. decode => Len(x) = 1
    BY <1>1
  <2>5. x \in Seq(AnyToken)
    BY <1>1
  <2>2. /\ c \in Seq(AnyToken) /\ Len(c) = Kernel - 1
        /\ decode => \A i \in 1..(Kernel - 1) : c[i] = y[i + 1]
        /\ ~decode => \A i \in 1..(Kernel - 1) : c[i] = z[Len(x) + i]
    BY <2>3, <2>4, <2>5, <1>h, LayerConv
  <2> HIDE DEF c, y, z
  <2> QED
    BY <2>1, <2>2
<1> DEFINE Kept == hist = RefHistory(id, p) /\ (decode \/ p = 0 \/ n >= Kernel - 1)
<1>4. \A i \in 1..(Kernel - 1) :
         c[i].rid \in {id, NoRid} /\ (Kept => c[i] = InputAt(id, (p + n) - Kernel + i))
  <2> SUFFICES ASSUME NEW i \in 1..(Kernel - 1)
               PROVE  c[i].rid \in {id, NoRid} /\ (Kept => c[i] = InputAt(id, (p + n) - Kernel + i))
    OBVIOUS
  <2>1. CASE decode
    <3>1. PICK k \in 1..(Kernel - 1 + n) : k = i + 1
      BY <1>1
    <3>2. p - Kernel + k = (p + n) - Kernel + i
      BY <1>1, <2>1, <3>1
    <3>3. c[i] = y[k]
      BY <1>3, <2>1, <3>1
    <3>4. y[k].rid \in {id, NoRid} /\ (hist = RefHistory(id, p) => y[k] = InputAt(id, p - Kernel + k))
      BY <1>0, <1>h, CarriedInputs
    <3> HIDE DEF c, y
    <3> QED
      BY <3>2, <3>3, <3>4
  <2>2. CASE ~decode
    <3>1. PICK k \in 1..(Kernel - 1 + n) : k = n + i
      BY <1>1
    <3>2. p - Kernel + k = (p + n) - Kernel + i
      BY <1>1, <3>1
    <3>3. c[i] = z[k]
      BY <1>3, <2>2, <3>1
    <3>4. /\ z[k].rid \in {id, NoRid}
          /\ k > Kernel - 1 => z[k] = Token(id, p - Kernel + k) /\ p - Kernel + k >= 0
      <4>1. Own(id, Zeros)
        BY Beginning
      <4>2. Zeros \in Seq(AnyToken) /\ Len(Zeros) = Kernel - 1
        BY TokenTypes
      <4>3. /\ Carrying(Zeros, Fresh(id, p, n))[k].rid \in {id, NoRid}
            /\ k > Kernel - 1 =>
                 /\ Carrying(Zeros, Fresh(id, p, n))[k] = Token(id, p - Kernel + k)
                 /\ p - Kernel + k >= 0
        BY <4>1, <4>2, CarriedInputs
      <4> QED
        BY <1>0, <4>3
    <3>5. CASE k > Kernel - 1
      <4> HIDE DEF c, z
      <4> QED
        BY <3>2, <3>3, <3>4, <3>5 DEF InputAt
    <3>6. CASE ~(k > Kernel - 1)
      <4>1. z[k] = Zero
        <5>1. z[k] = Zeros[k]
          BY <1>1, <3>6, ConcatProperties DEF Carrying
        <5>2. k \in 1..(Kernel - 1)
          BY <1>1, <3>6
        <5> QED
          BY <5>1, <5>2, TokenTypes
      <4>2. Kept => p = 0
        BY <1>1, <2>2, <3>1, <3>6
      <4>3. p = 0 => ~((p + n) - Kernel + i >= 0)
        BY <1>1, <3>1, <3>6
      <4> HIDE DEF c, z, Kept
      <4> QED
        BY <3>3, <3>4, <4>1, <4>2, <4>3 DEF InputAt
    <3> QED
      BY <3>5, <3>6
  <2> QED
    BY <2>1, <2>2
<1>5. ASSUME Kept
      PROVE  c = RefHistory(id, p + n)
  <2>1. p + n \in Nat
    OBVIOUS
  <2>2. /\ RefHistory(id, p + n) \in Seq(AnyToken)
        /\ Len(RefHistory(id, p + n)) = Kernel - 1
    BY <2>1, TokenSeqs
  <2>3. \A i \in 1..(Kernel - 1) : RefHistory(id, p + n)[i] = InputAt(id, (p + n) - Kernel + i)
    BY <2>1 DEF RefHistory, InputAt
  <2> HIDE DEF c, Kept
  <2> QED
    BY <1>3, <1>4, <1>5, <2>2, <2>3, SeqEqual
<1>6. Own(id, c)
  <2> HIDE DEF c
  <2> QED
    BY <1>3, <1>4 DEF Own
<1> HIDE DEF l
<1> QED
  BY <1>0, <1>2, <1>3, <1>5, <1>6 DEF l, Carries

-----------------------------------------------------------------------------
(* The module's test of itself: scan, conv, layer and the batched calls. *)

\* A layer on the next n inputs of a request, from what it has come to.
Going(id, p, n, decode) ==
    kda_layer_forward(Fresh(id, p, n), RefHistory(id, p), RefBefore(id, p), decode)

\* The last inputs of a request are its own.
LEMMA HistoryIsOwn ==
    ASSUME NEW id \in Rid, NEW p \in Nat
    PROVE  Carries(id, RefHistory(id, p))
<1>1. RefHistory(id, p) \in Seq(AnyToken) /\ Len(RefHistory(id, p)) = Kernel - 1
  BY TokenSeqs
<1>2. Own(id, RefHistory(id, p))
  <2> SUFFICES ASSUME NEW i \in 1..(Kernel - 1)
               PROVE  RefHistory(id, p)[i].rid \in {id, NoRid}
    BY <1>1 DEF Own
  <2> QED
    BY DEF RefHistory, Token, Zero
<1> QED
  BY <1>1, <1>2 DEF Carries

\* The output of a token is its window and what the state held before it.
LEMMA LayerPairs ==
    ASSUME NEW x, NEW hist, NEW state, NEW decode \in BOOLEAN,
           NEW l, l = kda_layer_forward(x, hist, state, decode)
    PROVE  l.out = [t \in DOMAIN x |-> [window |-> l.out[t].window, before |-> l.out[t].before]]
<1> DEFINE w == IF decode THEN <<causal_conv1d_update(x[1], hist).out>>
                ELSE SubSeq(causal_conv1d(hist \o x), Kernel, Kernel - 1 + Len(x))
           b == kda_recurrent(x, state).out
<1>1. l.out = [t \in DOMAIN x |-> [window |-> w[t], before |-> b[t]]]
  BY DEF kda_layer_forward
<1> HIDE DEF w, b
<1> QED
  BY <1>1

\* A whole prefill or one decode step leaves the states exact, and each of its
\* tokens is computed from the request's inputs up to it.
LEMMA GoingOn ==
    ASSUME NEW id \in Rid, NEW p \in Nat, NEW n \in Nat \ {0}, NEW decode \in BOOLEAN,
           decode => n = 1, decode \/ p = 0
    PROVE  LET l == Going(id, p, n, decode)
           IN  /\ l.out = [t \in 1..n |-> [window |-> RefWindow(id, p + (t - 1)),
                                           before |-> RefBefore(id, p + (t - 1))]]
               /\ l.conv = RefHistory(id, p + n)
               /\ l.ssm = RefBefore(id, p + n)
<1> DEFINE l == Going(id, p, n, decode)
<1>1. PICK hist : hist = RefHistory(id, p)
  OBVIOUS
<1>2. Carries(id, hist)
  BY <1>1, HistoryIsOwn
<1>3. l = kda_layer_forward(Fresh(id, p, n), hist, RefBefore(id, p), decode)
  BY <1>1 DEF Going
<1> HIDE DEF l
<1>4. l.conv = RefHistory(id, p + n) /\ l.ssm = RefBefore(id, p + n)
  <2>1. decode \/ p = 0 \/ n >= Kernel - 1
    OBVIOUS
  <2>2. LET k == kda_layer_forward(Fresh(id, p, n), hist, RefBefore(id, p), decode)
        IN  /\ k.ssm = RefBefore(id, p + n)
            /\ hist = RefHistory(id, p) /\ (decode \/ p = 0 \/ n >= Kernel - 1)
                 => k.conv = RefHistory(id, p + n)
    BY <1>2, LayerStates
  <2> QED
    BY <1>1, <1>3, <2>1, <2>2
<1>5. \A t \in 1..n : /\ l.out[t].before = RefBefore(id, p + (t - 1))
                      /\ l.out[t].window = RefWindow(id, p + (t - 1))
  BY <1>1, <1>2, <1>3, LayerTokens
<1>6. l.out = [t \in 1..n |-> [window |-> l.out[t].window, before |-> l.out[t].before]]
  <2>1. PICK x, m : x = Fresh(id, p, n) /\ m = RefBefore(id, p)
    OBVIOUS
  <2>2. DOMAIN x = 1..n
    BY <2>1 DEF Fresh
  <2>3. l = kda_layer_forward(x, hist, m, decode)
    BY <1>3, <2>1
  <2> QED
    BY <2>2, <2>3, LayerPairs
<1> QED
  BY <1>4, <1>5, <1>6 DEF l

\* The sequences of the test are those of a request from its beginning.
LEMMA DrawnIs ==
    ASSUME NEW id \in Rid, NEW n \in Nat
    PROVE  /\ Drawn(id, n) = Fresh(id, 0, n)
           /\ Drawn(id, n) \in Seq(AnyToken) /\ Len(Drawn(id, n)) = n
           /\ DOMAIN Drawn(id, n) = 1..n
           /\ \A t \in 1..n : <<Drawn(id, n)[t]>> = Fresh(id, t - 1, 1)
<1>1. Drawn(id, n) = Fresh(id, 0, n)
  BY DEF Drawn, Fresh
<1>2. \A t \in 1..n : <<Drawn(id, n)[t]>> = Fresh(id, t - 1, 1)
  <2> SUFFICES ASSUME NEW t \in 1..n PROVE <<Drawn(id, n)[t]>> = Fresh(id, t - 1, 1)
    OBVIOUS
  <2>1. Drawn(id, n)[t] = Token(id, t - 1)
    BY DEF Drawn
  <2>2. Fresh(id, t - 1, 1) \in Seq(AnyToken) /\ Len(Fresh(id, t - 1, 1)) = 1
    <3>1. t - 1 \in Nat /\ 1 \in Nat
      OBVIOUS
    <3> QED
      BY <3>1, TokenSeqs
  <2>3. Fresh(id, t - 1, 1)[1] = Token(id, t - 1)
    BY DEF Fresh
  <2>4. Token(id, t - 1) \in AnyToken
    BY TokenTypes
  <2> QED
    BY <2>1, <2>2, <2>3, <2>4, SeqEqual
<1>3. DOMAIN Drawn(id, n) = 1..n
  BY DEF Drawn
<1> QED
  BY <1>1, <1>2, <1>3, TokenSeqs

\* Induction from a up to n.
LEMMA UpTo ==
    ASSUME NEW a \in Nat, NEW n \in Nat, NEW T,
           a \in T, \A t \in (a + 1)..n : t - 1 \in T => t \in T
    PROVE  \A t \in a..n : t \in T
<1> DEFINE U == {t \in a..n : t \notin T}
<1> SUFFICES ASSUME U # {} PROVE FALSE
  OBVIOUS
<1>1. PICK t \in U : \A u \in U : t <= u
  <2>1. U \in SUBSET Nat
    OBVIOUS
  <2> QED
    BY <2>1, LeastElement
<1>2. t \in (a + 1)..n
  BY <1>1
<1>3. t - 1 \in a..n /\ t - 1 \notin U
  BY <1>1, <1>2
<1> QED
  BY <1>1, <1>2, <1>3

\* A part of the inputs of a request.
LEMMA FreshPart ==
    ASSUME NEW id \in Rid, NEW p \in Nat, NEW n \in Nat, NEW a \in 0..n, NEW b \in a..n
    PROVE  SubSeq(Fresh(id, p, n), a + 1, b) = Fresh(id, p + a, b - a)
<1>1. PICK f : f = Fresh(id, p, n)
  OBVIOUS
<1>2. PICK t : t = Fresh(id, p + a, b - a)
  OBVIOUS
<1>3. p + a \in Nat /\ b - a \in Nat /\ a + 1 \in 1..(n + 1) /\ b \in Nat
  OBVIOUS
<1>4. t \in Seq(AnyToken) /\ Len(t) = b - a
  BY <1>2, <1>3, TokenSeqs
<1>5. \A j \in 1..n : f[j] = Token(id, p + j - 1)
  BY <1>1 DEF Fresh
<1>6. \A j \in (a + 1)..b : f[j] \in AnyToken
  <2> SUFFICES ASSUME NEW j \in (a + 1)..b PROVE f[j] \in AnyToken
    OBVIOUS
  <2>1. j \in 1..n /\ p + j - 1 \in Nat
    OBVIOUS
  <2> QED
    BY <1>5, <2>1, TokenTypes
<1>7. PICK s : s = SubSeq(f, a + 1, b)
  OBVIOUS
<1>8. /\ s \in Seq(AnyToken) /\ Len(s) = b - a
      /\ \A j \in 1..(b - a) : s[j] = f[a + j]
  <2>1. CASE a < b
    <3>1. /\ SubSeq(f, a + 1, b) \in Seq(AnyToken)
          /\ Len(SubSeq(f, a + 1, b)) = b - (a + 1) + 1
          /\ \A j \in 1..(b - (a + 1) + 1) : SubSeq(f, a + 1, b)[j] = f[a + 1 + j - 1]
      BY <1>3, <1>6, <2>1, SubSeqProperties
    <3>2. b - (a + 1) + 1 = b - a /\ \A j \in 1..(b - a) : a + 1 + j - 1 = a + j
      OBVIOUS
    <3>3. s \in Seq(AnyToken) /\ Len(s) = b - a
      BY <1>7, <3>1, <3>2
    <3>4. \A j \in 1..(b - a) : s[j] = f[a + 1 + j - 1]
      BY <1>7, <3>1, <3>2
    <3> QED
      BY <3>2, <3>3, <3>4
  <2>2. CASE a = b
    BY <1>3, <1>6, <1>7, <2>2, SubSeqProperties
  <2> QED
    BY <2>1, <2>2
<1>9. \A j \in 1..(b - a) : s[j] = t[j]
  BY <1>2, <1>5, <1>8 DEF Fresh
<1>10. s = t
  BY <1>4, <1>8, <1>9, SeqEqual
<1> QED
  BY <1>1, <1>2, <1>7, <1>10

\* A scan that goes on with a request.
LEMMA RecurrentOn ==
    ASSUME NEW id \in Rid, NEW p \in Nat, NEW n \in Nat
    PROVE  LET r == kda_recurrent(Fresh(id, p, n), RefBefore(id, p))
           IN  /\ r.out = [t \in 1..n |-> RefBefore(id, p + (t - 1))]
               /\ r.state = RefBefore(id, p + n)
<1>1. PICK x, m : x = Fresh(id, p, n) /\ m = RefBefore(id, p)
  OBVIOUS
<1>2. DOMAIN x = 1..n
  BY <1>1 DEF Fresh
<1>3. \A t \in 1..n : m \o SubSeq(x, 1, t - 1) = RefBefore(id, p + (t - 1))
  <2> SUFFICES ASSUME NEW t \in 1..n PROVE m \o SubSeq(x, 1, t - 1) = RefBefore(id, p + (t - 1))
    OBVIOUS
  <2>1. SubSeq(x, 1, t - 1) = Fresh(id, p, t - 1)
    BY <1>1, FreshPrefix
  <2>2. t - 1 \in Nat
    OBVIOUS
  <2>3. RefBefore(id, p) \o Fresh(id, p, t - 1) = RefBefore(id, p + (t - 1))
    BY <2>2, AbsorbedGrows
  <2> QED
    BY <1>1, <2>1, <2>3
<1>4. m \o x = RefBefore(id, p + n)
  BY <1>1, AbsorbedGrows
<1>5. /\ kda_recurrent(x, m).out = [t \in 1..n |-> m \o SubSeq(x, 1, t - 1)]
      /\ kda_recurrent(x, m).state = m \o x
  BY <1>2 DEF kda_recurrent
<1>6. kda_recurrent(x, m).out = [t \in 1..n |-> RefBefore(id, p + (t - 1))]
  BY <1>3, <1>5
<1> QED
  BY <1>1, <1>4, <1>5, <1>6

\* (1) and (2): the recursion over the tokens has one solution, the states of
\* the request after each.
LEMMA ScanAgrees ==
    ASSUME NEW id \in Rid, NEW n \in Nat \ {0}
    PROVE  SelfTestScan(Drawn(id, n))
<1>1. PICK x : x = Drawn(id, n)
  OBVIOUS
<1> DEFINE full == kda_recurrent(x, <<>>)
           state[t \in 0..Len(x)] ==
             IF t = 0 THEN <<>> ELSE kda_recurrent(<<x[t]>>, state[t - 1]).state
           g == [t \in 0..n |-> RefBefore(id, t)]
<1>2. /\ x = Fresh(id, 0, n) /\ Len(x) = n /\ DOMAIN x = 1..n
      /\ \A t \in 1..n : <<x[t]>> = Fresh(id, t - 1, 1)
  BY <1>1, DrawnIs
<1>3. RefBefore(id, 0) = <<>>
  BY Beginning
<1>4. \A t \in 1..n : LET r == kda_recurrent(<<x[t]>>, RefBefore(id, t - 1))
                      IN  r.out[1] = RefBefore(id, t - 1) /\ r.state = RefBefore(id, t)
  <2> SUFFICES ASSUME NEW t \in 1..n
               PROVE  LET r == kda_recurrent(<<x[t]>>, RefBefore(id, t - 1))
                      IN  r.out[1] = RefBefore(id, t - 1) /\ r.state = RefBefore(id, t)
    OBVIOUS
  <2>1. PICK p \in Nat, k \in Nat : k = 1 /\ p = t - 1 /\ p + k = t
    OBVIOUS
  <2>2. LET r == kda_recurrent(Fresh(id, p, k), RefBefore(id, p))
        IN  /\ r.out = [u \in 1..k |-> RefBefore(id, p + (u - 1))]
            /\ r.state = RefBefore(id, p + k)
    BY RecurrentOn
  <2> QED
    BY <1>2, <2>1, <2>2
<1>5. /\ full.out = [t \in 1..n |-> RefBefore(id, t - 1)]
      /\ full.state = RefBefore(id, n)
  <2>1. PICK z \in Nat : z = 0
    OBVIOUS
  <2>2. LET r == kda_recurrent(Fresh(id, z, n), RefBefore(id, z))
        IN  /\ r.out = [t \in 1..n |-> RefBefore(id, z + (t - 1))]
            /\ r.state = RefBefore(id, z + n)
    BY RecurrentOn
  <2> QED
    BY <1>2, <1>3, <2>1, <2>2
<1>6. state = g
  <2>1. g = [t \in 0..Len(x) |-> IF t = 0 THEN <<>> ELSE kda_recurrent(<<x[t]>>, g[t - 1]).state]
    <3>1. \A t \in 1..n : g[t - 1] = RefBefore(id, t - 1) /\ g[t] = RefBefore(id, t)
      OBVIOUS
    <3>2. g[0] = <<>>
      BY <1>3
    <3>3. \A t \in 0..n : g[t] = IF t = 0 THEN <<>> ELSE kda_recurrent(<<x[t]>>, g[t - 1]).state
      BY <1>4, <3>1, <3>2
    <3>4. g = [t \in 0..n |-> g[t]]
      OBVIOUS
    <3> HIDE DEF g
    <3> QED
      BY <1>2, <3>3, <3>4
  <2> HIDE DEF g
  <2>2. state = [t \in 0..Len(x) |-> IF t = 0 THEN <<>> ELSE kda_recurrent(<<x[t]>>, state[t - 1]).state]
    BY <2>1
  <2> HIDE DEF state
  <2>3. /\ state = [t \in 0..n |-> state[t]] /\ state[0] = <<>>
        /\ \A t \in 1..n : state[t] = kda_recurrent(<<x[t]>>, state[t - 1]).state
    BY <1>2, <2>2
  <2>4. /\ g = [t \in 0..n |-> g[t]] /\ g[0] = <<>>
        /\ \A t \in 1..n : g[t] = kda_recurrent(<<x[t]>>, g[t - 1]).state
    BY <1>2, <2>1
  <2>5. PICK z \in Nat : z = 0 /\ z + 1 = 1
    OBVIOUS
  <2>6. PICK T : T = {t \in z..n : state[t] = g[t]}
    OBVIOUS
  <2>7. z \in T /\ \A t \in (z + 1)..n : t - 1 \in T => t \in T
    <3>1. z \in z..n /\ state[z] = g[z]
      BY <2>3, <2>4, <2>5
    <3>2. ASSUME NEW t \in (z + 1)..n, t - 1 \in T PROVE t \in T
      <4>1. t \in 1..n /\ t \in z..n
        BY <2>5
      <4>2. state[t - 1] = g[t - 1]
        BY <2>6, <3>2
      <4>3. state[t] = g[t]
        BY <2>3, <2>4, <4>1, <4>2
      <4> QED
        BY <2>6, <4>1, <4>3
    <3> QED
      BY <2>6, <3>1, <3>2
  <2>8. \A t \in z..n : t \in T
    BY <2>7, UpTo
  <2> QED
    BY <2>3, <2>4, <2>5, <2>6, <2>8
<1>7. \A t \in DOMAIN x : kda_recurrent(<<x[t]>>, state[t - 1]).out[1] = full.out[t]
  <2> HIDE DEF state, full
  <2>1. \A t \in 1..n : state[t - 1] = RefBefore(id, t - 1)
    BY <1>6
  <2> HIDE DEF g
  <2> QED
    BY <1>2, <1>4, <1>5, <2>1
<1>8. ASSUME NEW m \in DOMAIN x
      PROVE  LET head == kda_recurrent(SubSeq(x, 1, m), <<>>)
                 rest == kda_recurrent(SubSeq(x, m + 1, Len(x)), head.state)
             IN  head.out \o rest.out = full.out /\ rest.state = full.state
  <2>1. PICK k \in Nat : m \in 1..n /\ k = n - m
    BY <1>2
  <2>2. SubSeq(x, 1, m) = Fresh(id, 0, m) /\ SubSeq(x, m + 1, Len(x)) = Fresh(id, m, k)
    <3>1. PICK z \in 0..n : z = 0 /\ m \in z..n /\ m \in 0..n /\ n \in m..n
      BY <2>1
    <3>2. /\ SubSeq(Fresh(id, z, n), z + 1, m) = Fresh(id, z + z, m - z)
          /\ SubSeq(Fresh(id, z, n), m + 1, n) = Fresh(id, z + m, n - m)
      BY <3>1, FreshPart
    <3>3. z + 1 = 1 /\ z + z = 0 /\ m - z = m /\ z + m = m
      BY <2>1, <3>1
    <3> QED
      BY <1>2, <2>1, <3>1, <3>2, <3>3
  <2> DEFINE head == kda_recurrent(SubSeq(x, 1, m), <<>>)
             rest == kda_recurrent(SubSeq(x, m + 1, Len(x)), head.state)
  <2>3. /\ head.out = [t \in 1..m |-> RefBefore(id, 0 + (t - 1))]
        /\ head.state = RefBefore(id, 0 + m)
    <3>1. PICK z \in Nat, l \in Nat : z = 0 /\ l = m
      BY <2>1
    <3>2. LET r == kda_recurrent(Fresh(id, z, l), RefBefore(id, z))
          IN  /\ r.out = [t \in 1..l |-> RefBefore(id, z + (t - 1))]
              /\ r.state = RefBefore(id, z + l)
      BY RecurrentOn
    <3> QED
      BY <1>3, <2>2, <3>1, <3>2
  <2>4. /\ rest.out = [t \in 1..k |-> RefBefore(id, m + (t - 1))]
        /\ rest.state = RefBefore(id, m + k)
    <3>1. head.state = RefBefore(id, m)
      BY <2>1, <2>3
    <3>2. PICK l \in Nat : l = m
      BY <2>1
    <3>3. LET r == kda_recurrent(Fresh(id, l, k), RefBefore(id, l))
          IN  /\ r.out = [t \in 1..k |-> RefBefore(id, l + (t - 1))]
              /\ r.state = RefBefore(id, l + k)
      BY RecurrentOn
    <3> HIDE DEF head
    <3> QED
      BY <2>2, <3>1, <3>2, <3>3
  <2> HIDE DEF head, rest, full
  <2>5. rest.state = full.state
    BY <1>5, <2>1, <2>4
  <2>6. head.out \o rest.out = full.out
    <3>1. \A t \in Nat : RefBefore(id, t) \in Seq(AnyToken)
      BY TokenSeqs
    <3>2. PICK a, b, c : a = head.out /\ b = rest.out /\ c = full.out
      OBVIOUS
    <3>3. /\ a = [t \in 1..m |-> RefBefore(id, 0 + (t - 1))]
          /\ b = [t \in 1..k |-> RefBefore(id, m + (t - 1))]
          /\ c = [t \in 1..n |-> RefBefore(id, t - 1)]
      BY <1>5, <2>3, <2>4, <3>2
    <3>4. PICK S : S = Seq(AnyToken)
      OBVIOUS
    <3>5. a \in Seq(S) /\ Len(a) = m /\ b \in Seq(S) /\ Len(b) = k /\ c \in Seq(S) /\ Len(c) = n
      <4>1. m \in Nat /\ \A t \in 1..m : 0 + (t - 1) \in Nat
        BY <2>1
      <4>2. a \in [1..m -> S]
        BY <3>1, <3>3, <3>4, <4>1
      <4>3. \A t \in 1..k : m + (t - 1) \in Nat
        BY <2>1
      <4>4. b \in [1..k -> S]
        BY <3>1, <3>3, <3>4, <4>3
      <4>5. \A t \in 1..n : t - 1 \in Nat
        OBVIOUS
      <4>6. c \in [1..n -> S]
        BY <3>1, <3>3, <3>4, <4>5
      <4> QED
        BY <2>1, <4>1, <4>2, <4>4, <4>6
    <3>6. /\ a \o b \in Seq(S) /\ Len(a \o b) = m + k
          /\ \A t \in 1..(m + k) : (a \o b)[t] = IF t <= m THEN a[t] ELSE b[t - m]
      BY <3>5, ConcatProperties
    <3>7. m + k = n
      BY <2>1
    <3>8. \A t \in 1..n : (a \o b)[t] = c[t]
      <4> SUFFICES ASSUME NEW t \in 1..n PROVE (a \o b)[t] = c[t]
        OBVIOUS
      <4>1. c[t] = RefBefore(id, t - 1)
        BY <3>3
      <4>2. CASE t <= m
        <5>1. a[t] = RefBefore(id, 0 + (t - 1)) /\ 0 + (t - 1) = t - 1
          BY <2>1, <3>3, <4>2
        <5> QED
          BY <3>6, <3>7, <4>1, <4>2, <5>1
      <4>3. CASE ~(t <= m)
        <5>1. /\ t - m \in 1..k /\ m + ((t - m) - 1) = t - 1
          BY <2>1, <4>3
        <5>2. b[t - m] = RefBefore(id, m + ((t - m) - 1))
          BY <3>3, <5>1
        <5> QED
          BY <3>6, <3>7, <4>1, <4>3, <5>1, <5>2
      <4> QED
        BY <4>2, <4>3
    <3>9. a \o b = c
      BY <3>5, <3>6, <3>7, <3>8, SeqEqual
    <3> QED
      BY <3>2, <3>9
  <2> QED
    BY <2>5, <2>6 DEF head, rest
<1>9. SelfTestScan(x)
  BY <1>7, <1>8, Zenon DEF SelfTestScan
<1> QED
  BY <1>1, <1>9, Zenon

\* One update of the conv of a request.
LEMMA UpdateOn ==
    ASSUME NEW id \in Rid, NEW p \in Nat
    PROVE  LET u == causal_conv1d_update(Token(id, p), RefHistory(id, p))
           IN  u.out = RefWindow(id, p) /\ u.state = RefHistory(id, p + 1)
<1>1. PICK k \in Nat \ {0} : k = 1
  OBVIOUS
<1>2. PICK x, hist, m : x = Fresh(id, p, k) /\ hist = RefHistory(id, p) /\ m = RefBefore(id, p)
  OBVIOUS
<1>3. x[1] = Token(id, p) /\ DOMAIN x = 1..1
  BY <1>1, <1>2 DEF Fresh
<1> DEFINE l == kda_layer_forward(x, hist, m, TRUE)
<1>4. /\ l.out[1].window = causal_conv1d_update(x[1], hist).out
      /\ l.conv = causal_conv1d_update(x[1], hist).state
  BY <1>3 DEF kda_layer_forward
<1>5. l = Going(id, p, k, TRUE)
  BY <1>2 DEF Going
<1>6. /\ l.out = [t \in 1..k |-> [window |-> RefWindow(id, p + (t - 1)),
                                 before |-> RefBefore(id, p + (t - 1))]]
      /\ l.conv = RefHistory(id, p + k)
  <2>1. LET h == Going(id, p, k, TRUE)
        IN  /\ h.out = [t \in 1..k |-> [window |-> RefWindow(id, p + (t - 1)),
                                        before |-> RefBefore(id, p + (t - 1))]]
            /\ h.conv = RefHistory(id, p + k)
    BY <1>1, GoingOn
  <2> HIDE DEF l
  <2> QED
    BY <1>5, <2>1
<1> HIDE DEF l
<1>7. l.out[1].window = RefWindow(id, p)
  <2>1. p + (1 - 1) = p /\ 1 \in 1..k
    BY <1>1
  <2> QED
    BY <1>6, <2>1
<1> QED
  BY <1>1, <1>2, <1>3, <1>4, <1>6, <1>7

\* The conv of a request from its first token.
LEMMA ConvOn ==
    ASSUME NEW id \in Rid, NEW n \in Nat, NEW t \in 1..n
    PROVE  causal_conv1d(Drawn(id, n))[t] = RefWindow(id, t - 1)
<1>0. PICK z \in Nat : z = 0
  OBVIOUS
<1>1. PICK x : x = Fresh(id, z, n) /\ z = 0 /\ x = Drawn(id, n)
  BY <1>0, DrawnIs
<1>2. PICK y : y = Zeros \o x
  OBVIOUS
<1>3. PICK w : w = SubSeq(y, t, t + Kernel - 1)
  OBVIOUS
<1>4. causal_conv1d(x)[t] = w
  <2>1. t \in DOMAIN x
    BY <1>1 DEF Fresh
  <2> QED
    BY <1>2, <1>3, <2>1 DEF causal_conv1d
<1>5. /\ Kernel \in Nat /\ Kernel > 1
      /\ Zeros \in Seq(AnyToken) /\ Len(Zeros) = Kernel - 1
      /\ x \in Seq(AnyToken) /\ Len(x) = n
  BY <1>1, TokenTypes, TokenSeqs
<1>6. y \in Seq(AnyToken) /\ Len(y) = Kernel - 1 + n
  BY <1>2, <1>5, ConcatProperties
<1>7. /\ w \in Seq(AnyToken) /\ Len(w) = Kernel
      /\ \A j \in 1..Kernel : w[j] = y[t + j - 1]
  <2>1. /\ t \in 1..(Len(y) + 1) /\ t + Kernel - 1 \in (t - 1)..Len(y) /\ t <= t + Kernel - 1
        /\ (t + Kernel - 1) - t + 1 = Kernel
    BY <1>5, <1>6
  <2>2. \A i \in t..(t + Kernel - 1) : y[i] \in AnyToken
    BY <1>5, <1>6
  <2>3. /\ SubSeq(y, t, t + Kernel - 1) \in Seq(AnyToken)
        /\ Len(SubSeq(y, t, t + Kernel - 1)) = (t + Kernel - 1) - t + 1
        /\ \A j \in 1..((t + Kernel - 1) - t + 1) : SubSeq(y, t, t + Kernel - 1)[j] = y[t + j - 1]
    <3>1. t \in Int /\ t + Kernel - 1 \in Int
      BY <1>5
    <3> QED
      BY <2>1, <2>2, <3>1, SubSeqProperties
  <2> QED
    BY <1>3, <2>1, <2>3
<1>8. ASSUME NEW j \in 1..Kernel
      PROVE  y[t + j - 1] = InputAt(id, (t - 1) - Kernel + j)
  <2>1. PICK i \in 1..(Kernel - 1 + n) : i = t + j - 1
    BY <1>5
  <2>2. Zeros = RefHistory(id, z) /\ Own(id, Zeros)
    BY <1>1, Beginning
  <2>3. Carrying(Zeros, Fresh(id, z, n))[i] = InputAt(id, z - Kernel + i)
    BY <1>5, <2>2, CarriedInputs
  <2>4. z - Kernel + i = (t - 1) - Kernel + j
    BY <1>1, <1>5, <2>1
  <2> QED
    BY <1>1, <1>2, <2>1, <2>3, <2>4 DEF Carrying
<1>9. PICK q \in Nat : q = t - 1
  OBVIOUS
<1>10. /\ RefWindow(id, q) \in Seq(AnyToken) /\ Len(RefWindow(id, q)) = Kernel
       /\ \A j \in 1..Kernel : RefWindow(id, q)[j] = InputAt(id, q - Kernel + j)
  BY WindowType DEF RefWindow, InputAt
<1>11. w = RefWindow(id, q)
  BY <1>7, <1>8, <1>9, <1>10, SeqEqual
<1> QED
  BY <1>1, <1>4, <1>9, <1>11

\* (3): so has the recursion over the conv states.
LEMMA ConvAgrees ==
    ASSUME NEW id \in Rid, NEW n \in Nat \ {0}
    PROVE  SelfTestConv(Drawn(id, n))
<1>1. PICK x : x = Drawn(id, n)
  OBVIOUS
<1> DEFINE cs[t \in 0..Len(x)] ==
             IF t = 0 THEN Zeros ELSE causal_conv1d_update(x[t], cs[t - 1]).state
           g == [t \in 0..n |-> RefHistory(id, t)]
<1>2. Len(x) = n /\ DOMAIN x = 1..n /\ \A t \in 1..n : x[t] = Token(id, t - 1)
  BY <1>1, DrawnIs DEF Drawn
<1>3. \A t \in 1..n : LET u == causal_conv1d_update(x[t], RefHistory(id, t - 1))
                      IN  u.out = RefWindow(id, t - 1) /\ u.state = RefHistory(id, t)
  <2> SUFFICES ASSUME NEW t \in 1..n
               PROVE  LET u == causal_conv1d_update(x[t], RefHistory(id, t - 1))
                      IN  u.out = RefWindow(id, t - 1) /\ u.state = RefHistory(id, t)
    OBVIOUS
  <2>1. PICK p \in Nat : p = t - 1 /\ p + 1 = t
    OBVIOUS
  <2>2. LET u == causal_conv1d_update(Token(id, p), RefHistory(id, p))
        IN  u.out = RefWindow(id, p) /\ u.state = RefHistory(id, p + 1)
    BY UpdateOn
  <2> QED
    BY <1>2, <2>1, <2>2
<1>4. cs = g
  <2>1. g = [t \in 0..Len(x) |-> IF t = 0 THEN Zeros ELSE causal_conv1d_update(x[t], g[t - 1]).state]
    <3>1. \A t \in 1..n : g[t - 1] = RefHistory(id, t - 1) /\ g[t] = RefHistory(id, t)
      OBVIOUS
    <3>2. g[0] = Zeros
      BY Beginning
    <3>3. \A t \in 0..n : g[t] = IF t = 0 THEN Zeros ELSE causal_conv1d_update(x[t], g[t - 1]).state
      BY <1>3, <3>1, <3>2
    <3>4. g = [t \in 0..n |-> g[t]]
      OBVIOUS
    <3> HIDE DEF g
    <3> QED
      BY <1>2, <3>3, <3>4
  <2> HIDE DEF g
  <2>2. cs = [t \in 0..Len(x) |-> IF t = 0 THEN Zeros ELSE causal_conv1d_update(x[t], cs[t - 1]).state]
    BY <2>1
  <2> HIDE DEF cs
  <2>3. /\ cs = [t \in 0..n |-> cs[t]] /\ cs[0] = Zeros
        /\ \A t \in 1..n : cs[t] = causal_conv1d_update(x[t], cs[t - 1]).state
    BY <1>2, <2>2
  <2>4. /\ g = [t \in 0..n |-> g[t]] /\ g[0] = Zeros
        /\ \A t \in 1..n : g[t] = causal_conv1d_update(x[t], g[t - 1]).state
    BY <1>2, <2>1
  <2>5. PICK z \in Nat : z = 0 /\ z + 1 = 1
    OBVIOUS
  <2>6. PICK T : T = {t \in z..n : cs[t] = g[t]}
    OBVIOUS
  <2>7. z \in T /\ \A t \in (z + 1)..n : t - 1 \in T => t \in T
    <3>1. z \in z..n /\ cs[z] = g[z]
      BY <2>3, <2>4, <2>5
    <3>2. ASSUME NEW t \in (z + 1)..n, t - 1 \in T PROVE t \in T
      <4>1. t \in 1..n /\ t \in z..n
        BY <2>5
      <4>2. cs[t - 1] = g[t - 1]
        BY <2>6, <3>2
      <4>3. cs[t] = g[t]
        BY <2>3, <2>4, <4>1, <4>2
      <4> QED
        BY <2>6, <4>1, <4>3
    <3> QED
      BY <2>6, <3>1, <3>2
  <2>8. \A t \in z..n : t \in T
    BY <2>7, UpTo
  <2> QED
    BY <2>3, <2>4, <2>5, <2>6, <2>8
<1>5. \A t \in DOMAIN x : causal_conv1d_update(x[t], cs[t - 1]).out = causal_conv1d(x)[t]
  <2> HIDE DEF cs
  <2>1. \A t \in 1..n : cs[t - 1] = RefHistory(id, t - 1)
    BY <1>4
  <2> HIDE DEF g
  <2>2. \A t \in 1..n : causal_conv1d(x)[t] = RefWindow(id, t - 1)
    BY <1>1, ConvOn
  <2> QED
    BY <1>2, <1>3, <2>1, <2>2
<1>6. SelfTestConv(x)
  BY <1>5, Zenon DEF SelfTestConv
<1> QED
  BY <1>1, <1>6, Zenon

\* The layer of a decode and that of an extend.
Decoded(x, hist, state) == kda_layer_forward(x, hist, state, TRUE)

Extended(x, hist, state) == kda_layer_forward(x, hist, state, FALSE)

\* What the layer makes of the token at position p of a request.
Exact(id, p) == [window |-> RefWindow(id, p), before |-> RefBefore(id, p)]

\* One decoded token, and a prefill from a cleared slot.
LEMMA DecodeOn ==
    ASSUME NEW id \in Rid, NEW p \in Nat
    PROVE  LET h == Decoded(<<Token(id, p)>>, RefHistory(id, p), RefBefore(id, p))
           IN  /\ h.out = <<Exact(id, p)>>
               /\ h.conv = RefHistory(id, p + 1)
               /\ h.ssm = RefBefore(id, p + 1)
<1>1. PICK k \in Nat \ {0} : k = 1
  OBVIOUS
<1> DEFINE l == Going(id, p, k, TRUE)
<1>2. /\ l.out = [t \in 1..k |-> [window |-> RefWindow(id, p + (t - 1)),
                                 before |-> RefBefore(id, p + (t - 1))]]
      /\ l.conv = RefHistory(id, p + k)
      /\ l.ssm = RefBefore(id, p + k)
  BY <1>1, GoingOn
<1>3. <<Token(id, p)>> = Fresh(id, p, k)
  <2>1. p + 1 - 1 = p
    OBVIOUS
  <2>2. <<Token(id, p)>> = [i \in 1..1 |-> Token(id, p)]
    OBVIOUS
  <2>3. Fresh(id, p, k) = [i \in 1..1 |-> Token(id, p)]
    BY <1>1, <2>1 DEF Fresh
  <2> QED
    BY <2>2, <2>3
<1>4. l = Decoded(<<Token(id, p)>>, RefHistory(id, p), RefBefore(id, p))
  BY <1>3, Zenon DEF Decoded, Going
<1> HIDE DEF l
<1>5. l.out = <<Exact(id, p)>>
  <2>1. p + (1 - 1) = p /\ 1..k = 1..1
    BY <1>1
  <2>2. l.out = [t \in 1..1 |-> Exact(id, p + (t - 1))]
    BY <1>2, <2>1 DEF Exact
  <2>3. l.out = [t \in 1..1 |-> Exact(id, p)]
    BY <2>1, <2>2
  <2> QED
    BY <2>3
<1> QED
  BY <1>1, <1>2, <1>4, <1>5

LEMMA ExtendOn ==
    ASSUME NEW id \in Rid, NEW n \in Nat \ {0}
    PROVE  LET h == Extended(Drawn(id, n), Zeros, <<>>)
           IN  /\ h.out = [t \in 1..n |-> Exact(id, t - 1)]
               /\ h.conv = RefHistory(id, n)
               /\ h.ssm = RefBefore(id, n)
<1>1. PICK z \in Nat : z = 0
  OBVIOUS
<1> DEFINE l == Going(id, z, n, FALSE)
<1>2. /\ l.out = [t \in 1..n |-> [window |-> RefWindow(id, z + (t - 1)),
                                 before |-> RefBefore(id, z + (t - 1))]]
      /\ l.conv = RefHistory(id, z + n)
      /\ l.ssm = RefBefore(id, z + n)
  BY <1>1, GoingOn
<1>3. Drawn(id, n) = Fresh(id, z, n) /\ RefHistory(id, z) = Zeros /\ RefBefore(id, z) = <<>>
  BY <1>1, DrawnIs, Beginning
<1>4. l = Extended(Drawn(id, n), Zeros, <<>>)
  BY <1>3, Zenon DEF Extended, Going
<1>5. z + n = n /\ \A t \in 1..n : z + (t - 1) = t - 1
  BY <1>1
<1> HIDE DEF l
<1>6. l.out = [t \in 1..n |-> Exact(id, t - 1)]
  BY <1>2, <1>5 DEF Exact
<1> QED
  BY <1>2, <1>4, <1>5, <1>6

\* (5): and the one over what the layer returns.
LEMMA LayerAgrees ==
    ASSUME NEW id \in Rid, NEW n \in Nat \ {0}
    PROVE  SelfTestLayer(Drawn(id, n))
<1>1. PICK x : x = Drawn(id, n)
  OBVIOUS
<1> DEFINE full == kda_layer_forward(x, Zeros, <<>>, FALSE)
           step[t \in DOMAIN x] ==
             IF t = 1 THEN kda_layer_forward(<<x[1]>>, Zeros, <<>>, TRUE)
             ELSE kda_layer_forward(<<x[t]>>, step[t - 1].conv, step[t - 1].ssm, TRUE)
           g == [t \in 1..n |-> Decoded(<<x[t]>>, RefHistory(id, t - 1), RefBefore(id, t - 1))]
<1>2. Len(x) = n /\ DOMAIN x = 1..n /\ \A t \in 1..n : x[t] = Token(id, t - 1)
  BY <1>1, DrawnIs DEF Drawn
<1>3. RefHistory(id, 0) = Zeros /\ RefBefore(id, 0) = <<>>
  BY Beginning
<1>4. ASSUME NEW t \in 1..n
      PROVE  /\ g[t] = Decoded(<<x[t]>>, RefHistory(id, t - 1), RefBefore(id, t - 1))
             /\ g[t].out[1] = Exact(id, t - 1)
             /\ g[t].conv = RefHistory(id, t)
             /\ g[t].ssm = RefBefore(id, t)
  <2>1. PICK p \in Nat : p = t - 1 /\ p + 1 = t
    OBVIOUS
  <2>2. g[t] = Decoded(<<Token(id, p)>>, RefHistory(id, p), RefBefore(id, p))
    BY <1>2, <2>1
  <2>3. /\ g[t].out = <<Exact(id, p)>>
        /\ g[t].conv = RefHistory(id, p + 1)
        /\ g[t].ssm = RefBefore(id, p + 1)
    BY <2>2, DecodeOn
  <2> HIDE DEF g
  <2> QED
    BY <1>2, <2>1, <2>2, <2>3
<1>5. step = g
  <2>1. g = [t \in 1..n |-> IF t = 1 THEN Decoded(<<x[1]>>, Zeros, <<>>)
                            ELSE Decoded(<<x[t]>>, g[t - 1].conv, g[t - 1].ssm)]
    <3>1. g = [t \in 1..n |-> g[t]]
      OBVIOUS
    <3> HIDE DEF g
    <3>2. ASSUME NEW t \in 1..n
          PROVE  g[t] = IF t = 1 THEN Decoded(<<x[1]>>, Zeros, <<>>)
                        ELSE Decoded(<<x[t]>>, g[t - 1].conv, g[t - 1].ssm)
      <4>1. g[t] = Decoded(<<x[t]>>, RefHistory(id, t - 1), RefBefore(id, t - 1))
        BY <1>4
      <4>2. CASE t = 1
        <5>1. t - 1 = 0
          BY <4>2
        <5> QED
          BY <1>3, <4>1, <4>2, <5>1
      <4>3. CASE t # 1
        <5>1. t - 1 \in 1..n
          BY <4>3
        <5>2. g[t - 1].conv = RefHistory(id, t - 1) /\ g[t - 1].ssm = RefBefore(id, t - 1)
          BY <1>4, <5>1
        <5> QED
          BY <4>1, <4>3, <5>2
      <4> QED
        BY <4>2, <4>3
    <3> QED
      BY <3>1, <3>2
  <2> HIDE DEF g
  <2>2. g = [t \in DOMAIN x |->
               IF t = 1 THEN kda_layer_forward(<<x[1]>>, Zeros, <<>>, TRUE)
               ELSE kda_layer_forward(<<x[t]>>, g[t - 1].conv, g[t - 1].ssm, TRUE)]
    BY <1>2, <2>1, Zenon DEF Decoded
  <2>3. step = [t \in DOMAIN x |->
                  IF t = 1 THEN kda_layer_forward(<<x[1]>>, Zeros, <<>>, TRUE)
                  ELSE kda_layer_forward(<<x[t]>>, step[t - 1].conv, step[t - 1].ssm, TRUE)]
    BY <2>2, Zenon
  <2> HIDE DEF step
  <2>4. step = [t \in 1..n |-> IF t = 1 THEN Decoded(<<x[1]>>, Zeros, <<>>)
                               ELSE Decoded(<<x[t]>>, step[t - 1].conv, step[t - 1].ssm)]
    BY <1>2, <2>3, Zenon DEF Decoded
  <2>5. step = [t \in 1..n |-> step[t]] /\ g = [t \in 1..n |-> g[t]]
    BY <2>1, <2>4
  <2>6. PICK z \in Nat : z = 1 /\ z + 1 = 2
    OBVIOUS
  <2>7. PICK T : T = {t \in z..n : step[t] = g[t]}
    OBVIOUS
  <2>8. z \in T
    BY <2>1, <2>4, <2>6, <2>7
  <2>9. ASSUME NEW t \in (z + 1)..n, t - 1 \in T PROVE t \in T
    <3>1. t \in 1..n /\ t # 1 /\ t \in z..n
      BY <2>6
    <3>2. step[t - 1] = g[t - 1]
      BY <2>7, <2>9
    <3>3. step[t] = Decoded(<<x[t]>>, step[t - 1].conv, step[t - 1].ssm)
      BY <2>4, <3>1
    <3>4. g[t] = Decoded(<<x[t]>>, g[t - 1].conv, g[t - 1].ssm)
      BY <2>1, <3>1
    <3> QED
      BY <2>7, <3>1, <3>2, <3>3, <3>4
  <2>10. \A t \in z..n : t \in T
    BY <2>8, <2>9, UpTo
  <2> QED
    BY <2>5, <2>6, <2>7, <2>10
<1>6. full.out = [t \in 1..n |-> Exact(id, t - 1)] /\ full.ssm = RefBefore(id, n)
  <2>1. full = Extended(Drawn(id, n), Zeros, <<>>)
    BY <1>1, Zenon DEF Extended
  <2> HIDE DEF full
  <2> QED
    BY <2>1, ExtendOn
<1>7. /\ \A t \in DOMAIN x : step[t].out[1] = full.out[t]
      /\ step[Len(x)].ssm = full.ssm
  <2> HIDE DEF step, g, full
  <2>1. \A t \in 1..n : full.out[t] = Exact(id, t - 1)
    BY <1>6
  <2>2. n \in 1..n
    OBVIOUS
  <2> QED
    BY <1>2, <1>4, <1>5, <1>6, <2>1, <2>2
<1>8. SelfTestLayer(x)
  BY <1>7, Zenon DEF SelfTestLayer
<1> QED
  BY <1>1, <1>8, Zenon

\* The layer on a whole sequence, and on all but its last token and then that.
LEMMA ExactGrows ==
    ASSUME NEW id \in Rid, NEW n \in Nat
    PROVE  [t \in 1..n |-> Exact(id, t - 1)] \o <<Exact(id, n)>> = [t \in 1..(n + 1) |-> Exact(id, t - 1)]
<1>1. PICK S : \A t \in Nat : Exact(id, t) \in S
  <2>1. \A t \in Nat : Exact(id, t) \in {Exact(id, u) : u \in Nat}
    OBVIOUS
  <2> QED
    BY <2>1
<1>2. PICK a, b, c : /\ a = [t \in 1..n |-> Exact(id, t - 1)]
                     /\ b = <<Exact(id, n)>>
                     /\ c = [t \in 1..(n + 1) |-> Exact(id, t - 1)]
  OBVIOUS
<1>3. a \in Seq(S) /\ Len(a) = n
  <2>1. a \in [1..n -> S]
    BY <1>1, <1>2
  <2> QED
    BY <1>2, <2>1
<1>4. b \in Seq(S) /\ Len(b) = 1 /\ b[1] = Exact(id, n)
  BY <1>1, <1>2
<1>5. c \in Seq(S) /\ Len(c) = n + 1
  <2>1. \A t \in 1..(n + 1) : t - 1 \in Nat
    OBVIOUS
  <2>2. c \in [1..(n + 1) -> S] /\ n + 1 \in Nat
    BY <1>1, <1>2, <2>1
  <2> QED
    BY <1>2, <2>2
<1>6. /\ a \o b \in Seq(S) /\ Len(a \o b) = n + 1
      /\ \A t \in 1..(n + 1) : (a \o b)[t] = IF t <= n THEN a[t] ELSE b[t - n]
  <2>1. /\ a \o b \in Seq(S) /\ Len(a \o b) = Len(a) + Len(b)
        /\ \A t \in 1..(Len(a) + Len(b)) :
              (a \o b)[t] = IF t <= Len(a) THEN a[t] ELSE b[t - Len(a)]
    BY <1>3, <1>4, ConcatProperties
  <2> QED
    BY <1>3, <1>4, <2>1
<1>7. \A t \in 1..(n + 1) : (a \o b)[t] = c[t]
  <2> SUFFICES ASSUME NEW t \in 1..(n + 1) PROVE (a \o b)[t] = c[t]
    OBVIOUS
  <2>1. CASE t <= n
    BY <1>2, <1>6, <2>1
  <2>2. CASE ~(t <= n)
    <3>1. t - n = 1 /\ t - 1 = n
      BY <2>2
    <3> QED
      BY <1>2, <1>4, <1>6, <2>2, <3>1
  <2> QED
    BY <2>1, <2>2
<1>8. a \o b = c
  BY <1>5, <1>6, <1>7, SeqEqual
<1> QED
  BY <1>2, <1>8

\* (6): a batch from cleared slots, and one decode.
LEMMA GlueAgrees ==
    ASSUME NEW used \in SUBSET Slot, NEW id \in [used -> Rid], NEW lens \in [used -> 1..MaxPrompt]
    PROVE  SelfTestGlue(id, lens)
<1> DEFINE x == [s \in used |-> Drawn(id[s], lens[s])]
           seeded == [s \in used |-> FALSE]
           convs == [s \in Slot |-> Zeros]
           ssms == [s \in Slot |-> <<>>]
           ext  == cpu_kda_extend(x, seeded, convs, ssms)
           y == [s \in used |-> <<Token(id[s], lens[s])>>]
           dec  == cpu_kda_decode(y, Scatter(convs, [s \in used |-> ext[s].conv]),
                                     Scatter(ssms, [s \in used |-> ext[s].ssm]))
           ref(s) == kda_layer_forward(Drawn(id[s], lens[s] + 1), Zeros, <<>>, FALSE)
<1>1. \A s \in used : ext[s] = Extended(x[s], Zeros, <<>>)
  <2>1. DOMAIN x = used /\ \A s \in used : ~seeded[s]
    OBVIOUS
  <2> HIDE DEF x, seeded, convs, ssms
  <2>2. ext = [s \in used |-> IF seeded[s] THEN kda_layer_forward(x[s], convs[s], ssms[s], FALSE)
                              ELSE kda_layer_forward(x[s], Zeros, <<>>, FALSE)]
    BY <2>1, Zenon DEF cpu_kda_extend
  <2>3. ext = [s \in used |-> IF seeded[s] THEN Extended(x[s], convs[s], ssms[s])
                              ELSE Extended(x[s], Zeros, <<>>)]
    BY <2>2, Zenon DEF Extended
  <2> HIDE DEF ext
  <2> QED
    BY <2>1, <2>3
<1>2. ASSUME NEW s \in used
      PROVE  /\ id[s] \in Rid /\ lens[s] \in Nat \ {0}
             /\ ext[s].out = [t \in 1..lens[s] |-> Exact(id[s], t - 1)]
             /\ ext[s].conv = RefHistory(id[s], lens[s])
             /\ ext[s].ssm = RefBefore(id[s], lens[s])
  <2>1. PICK i \in Rid, n \in Nat \ {0} : i = id[s] /\ n = lens[s]
    BY KdaCacheAssumption
  <2>2. ext[s] = Extended(Drawn(i, n), Zeros, <<>>)
    BY <1>1, <2>1
  <2> HIDE DEF ext
  <2> QED
    BY <2>1, <2>2, ExtendOn
<1>3. ASSUME NEW s \in used
      PROVE  dec[s].out = <<Exact(id[s], lens[s])>>
  <2> HIDE DEF ext
  <2> DEFINE c == Scatter(convs, [u \in used |-> ext[u].conv])
             m == Scatter(ssms, [u \in used |-> ext[u].ssm])
  <2>1. c[s] = RefHistory(id[s], lens[s]) /\ m[s] = RefBefore(id[s], lens[s])
    BY <1>2 DEF Scatter
  <2>2. DOMAIN y = used /\ y[s] = <<Token(id[s], lens[s])>>
    OBVIOUS
  <2> HIDE DEF c, m, y
  <2>3. dec = [u \in used |-> kda_layer_forward(y[u], c[u], m[u], TRUE)]
    BY <2>2, Zenon DEF cpu_kda_decode, c, m
  <2>4. dec = [u \in used |-> Decoded(y[u], c[u], m[u])]
    BY <2>3, Zenon DEF Decoded
  <2> HIDE DEF dec
  <2>5. dec[s] = Decoded(<<Token(id[s], lens[s])>>, RefHistory(id[s], lens[s]), RefBefore(id[s], lens[s]))
    BY <2>1, <2>2, <2>4
  <2>6. PICK i \in Rid, n \in Nat : i = id[s] /\ n = lens[s]
    BY <1>2
  <2> QED
    BY <2>5, <2>6, DecodeOn
<1>4. ASSUME NEW s \in used
      PROVE  ref(s).out = [t \in 1..(lens[s] + 1) |-> Exact(id[s], t - 1)]
  <2>1. PICK i \in Rid, n \in Nat \ {0} : i = id[s] /\ n = lens[s] + 1
    BY <1>2
  <2>2. ref(s) = Extended(Drawn(i, n), Zeros, <<>>)
    BY <2>1, Zenon DEF Extended
  <2> HIDE DEF ref
  <2> QED
    BY <2>1, <2>2, ExtendOn
<1>5. \A s \in used : ref(s).out = ext[s].out \o dec[s].out
  <2> SUFFICES ASSUME NEW s \in used PROVE ref(s).out = ext[s].out \o dec[s].out
    OBVIOUS
  <2>1. PICK i \in Rid, n \in Nat : i = id[s] /\ n = lens[s]
    BY <1>2
  <2>2. [t \in 1..n |-> Exact(i, t - 1)] \o <<Exact(i, n)>> = [t \in 1..(n + 1) |-> Exact(i, t - 1)]
    BY ExactGrows
  <2> HIDE DEF ref, ext, dec
  <2> QED
    BY <1>2, <1>3, <1>4, <2>1, <2>2
<1>6. DOMAIN lens = used
  OBVIOUS
<1> QED
  BY <1>5, <1>6, Zenon DEF SelfTestGlue

\* _selftest passes: the layer's operators agree with themselves however a
\* sequence is cut, for every length and window.
LEMMA SelfTest == SelfTestPasses
<1>1. ASSUME NEW id \in Rid, NEW n \in 1..(MaxPrompt + MaxGen)
      PROVE  /\ SelfTestScan(Drawn(id, n))
             /\ SelfTestConv(Drawn(id, n))
             /\ SelfTestLayer(Drawn(id, n))
  <2>1. n \in Nat \ {0}
    BY KdaCacheAssumption
  <2> QED
    BY <2>1, ScanAgrees, ConvAgrees, LayerAgrees
<1> QED
  BY <1>1, GlueAgrees, Zenon DEF SelfTestPasses
-----------------------------------------------------------------------------
(* The inductive invariant. *)

SlotsOK ==
    /\ req \in [Slot -> [rid : Rid \cup {NoRid}, prompt : Nat, len : Nat, short : BOOLEAN]]
    /\ \A s \in Slot : req[s] # NoReq => req[s].rid \in Rid /\ req[s].prompt > 0
    /\ DOMAIN conv = Slot /\ DOMAIN ssm = Slot

\* A slot with conv state c and recurrent state m goes on with its request.
GoesOn(r, c, m) ==
    r.len > 0 =>
        /\ r.rid \in Rid
        /\ m = RefBefore(r.rid, r.len)
        /\ Carries(r.rid, c)
        /\ ~r.short => c = RefHistory(r.rid, r.len)

SlotsGoOn == \A s \in Slot : GoesOn(req[s], conv[s], ssm[s])

\* What a slot holds has its shape, whoever left it there.
Shaped(r, c, m) ==
    /\ r.len <= r.prompt + MaxGen /\ r.prompt <= MaxPrompt
    /\ c \in Seq(AnyToken) /\ Len(c) = Kernel - 1
    /\ \A i \in DOMAIN m : m[i].rid \in Rid

SlotsShaped == \A s \in Slot : Shaped(req[s], conv[s], ssm[s])

IInv == SlotsOK /\ SlotsShaped /\ SlotsGoOn /\ RecurrenceExact /\ WindowExact /\ NoForeignInput

\* What a call starts from.
Hist(s) == IF Seeded(s) THEN conv[s] ELSE Zeros
State(s) == IF Seeded(s) THEN ssm[s] ELSE <<>>

LEMMA SeedIsOwn ==
    ASSUME SlotsOK, SlotsGoOn, NEW s \in Slot, req[s] # NoReq
    PROVE  /\ req[s].rid \in Rid /\ req[s].len \in Nat /\ req[s].short \in BOOLEAN
           /\ Carries(req[s].rid, Hist(s))
           /\ State(s) = RefBefore(req[s].rid, req[s].len)
           /\ ~req[s].short => Hist(s) = RefHistory(req[s].rid, req[s].len)
<1>1. req[s].rid \in Rid /\ req[s].len \in Nat /\ req[s].short \in BOOLEAN
  BY DEF SlotsOK
<1>2. CASE Seeded(s)
  BY <1>1, <1>2 DEF SlotsGoOn, GoesOn, Seeded, Hist, State
<1>3. CASE ~Seeded(s)
  <2>1. req[s].len = 0
    BY <1>1, <1>3 DEF Seeded
  <2>2. Carries(req[s].rid, Zeros)
    BY <1>1, TokenTypes, Beginning DEF Carries
  <2> QED
    BY <1>1, <1>3, <2>1, <2>2, Beginning DEF Hist, State
<1> QED
  BY <1>2, <1>3

\* A call that runs the next n[s] tokens of the requests of a batch.
Serving(batch, n, decode, short, x, done) ==
    /\ \A s \in batch : /\ req[s] # NoReq
                        /\ n[s] \in Nat \ {0}
                        /\ decode => n[s] = 1
                        /\ req[s].len + n[s] <= req[s].prompt + MaxGen
                        /\ short[s] \in BOOLEAN
                        /\ ~short[s] => /\ ~req[s].short
                                        /\ decode \/ req[s].len = 0 \/ n[s] >= Kernel - 1
    /\ x = [s \in batch |-> Inputs(s, n[s])]
    /\ done = [s \in batch |-> kda_layer_forward(x[s], Hist(s), State(s), decode)]
    /\ Returned(x, done)
    /\ req' = [s \in Slot |-> IF s \in batch
                              THEN [req[s] EXCEPT !.len = @ + n[s], !.short = short[s]]
                              ELSE req[s]]

LEMMA Serve ==
    ASSUME IInv, NEW batch \in SUBSET Slot, NEW n, NEW decode \in BOOLEAN, NEW short,
           NEW x, NEW done, Serving(batch, n, decode, short, x, done)
    PROVE  IInv'
<1>1. ASSUME NEW s \in batch
      PROVE  /\ s \in Slot
             /\ n[s] \in Nat \ {0}
             /\ decode => n[s] = 1
             /\ req[s].rid \in Rid /\ req[s].len \in Nat /\ req[s].short \in BOOLEAN
             /\ Carries(req[s].rid, Hist(s))
             /\ ~req[s].short => Hist(s) = RefHistory(req[s].rid, req[s].len)
             /\ done[s] = kda_layer_forward(Fresh(req[s].rid, req[s].len, n[s]), Hist(s),
                                            RefBefore(req[s].rid, req[s].len), decode)
  <2>1. s \in Slot /\ req[s] # NoReq
    BY DEF Serving
  <2>2. /\ req[s].rid \in Rid /\ req[s].len \in Nat /\ req[s].short \in BOOLEAN
        /\ Carries(req[s].rid, Hist(s))
        /\ State(s) = RefBefore(req[s].rid, req[s].len)
        /\ ~req[s].short => Hist(s) = RefHistory(req[s].rid, req[s].len)
    BY <2>1, SeedIsOwn DEF IInv
  <2>3. n[s] \in Nat \ {0} /\ (decode => n[s] = 1)
    BY DEF Serving
  <2>4. done[s] = kda_layer_forward(Inputs(s, n[s]), Hist(s), State(s), decode)
    BY DEF Serving
  <2>5. Inputs(s, n[s]) = Fresh(req[s].rid, req[s].len, n[s])
    BY DEF Inputs, Fresh
  <2> QED
    BY <2>1, <2>2, <2>3, <2>4, <2>5
<1>2. ASSUME NEW s \in batch
      PROVE  /\ done[s].ssm = RefBefore(req[s].rid, req[s].len + n[s])
             /\ Carries(req[s].rid, done[s].conv)
             /\ ~short[s] => done[s].conv = RefHistory(req[s].rid, req[s].len + n[s])
  <2>1. PICK id \in Rid, p \in Nat, m \in Nat \ {0}, hist \in {Hist(s)} :
           id = req[s].rid /\ p = req[s].len /\ m = n[s] /\ hist = Hist(s)
    BY <1>1
  <2>2. Carries(id, hist) /\ (decode => m = 1)
    BY <1>1, <2>1
  <2>3. ~short[s] => hist = RefHistory(id, p) /\ (decode \/ p = 0 \/ m >= Kernel - 1)
    BY <1>1, <2>1 DEF Serving
  <2>4. done[s] = kda_layer_forward(Fresh(id, p, m), hist, RefBefore(id, p), decode)
    BY <1>1, <2>1
  <2>5. /\ done[s].ssm = RefBefore(id, p + m)
        /\ Carries(id, done[s].conv)
        /\ hist = RefHistory(id, p) /\ (decode \/ p = 0 \/ m >= Kernel - 1)
             => done[s].conv = RefHistory(id, p + m)
    BY <2>2, <2>4, LayerStates
  <2> QED
    BY <2>1, <2>3, <2>5
<1>3. ASSUME NEW s \in batch, NEW i \in 1..n[s]
      PROVE  /\ done[s].out[i].before = RefBefore(req[s].rid, req[s].len + (i - 1))
             /\ \A j \in 1..Kernel : done[s].out[i].window[j].rid \in {req[s].rid, NoRid}
             /\ ~req[s].short =>
                  done[s].out[i].window = RefWindow(req[s].rid, req[s].len + (i - 1))
  <2>1. PICK id \in Rid, p \in Nat, m \in Nat, hist \in {Hist(s)} :
           id = req[s].rid /\ p = req[s].len /\ m = n[s] /\ hist = Hist(s)
    BY <1>1
  <2>2. Carries(id, hist) /\ (decode => m = 1) /\ i \in 1..m
    BY <1>1, <2>1
  <2>3. ~req[s].short => hist = RefHistory(id, p)
    BY <1>1, <2>1
  <2>4. done[s] = kda_layer_forward(Fresh(id, p, m), hist, RefBefore(id, p), decode)
    BY <1>1, <2>1
  <2>5. /\ done[s].out[i].before = RefBefore(id, p + (i - 1))
        /\ \A j \in 1..Kernel : done[s].out[i].window[j].rid \in {id, NoRid}
        /\ hist = RefHistory(id, p) => done[s].out[i].window = RefWindow(id, p + (i - 1))
    BY <2>2, <2>4, LayerTokens
  <2> QED
    BY <2>1, <2>3, <2>5
<1>4. ASSUME NEW c \in ctx'
      PROVE  \E s \in batch : \E i \in 1..n[s] :
                /\ c.rid = req[s].rid /\ c.pos = req[s].len + (i - 1)
                /\ c.short = req[s].short
                /\ c.window = done[s].out[i].window /\ c.before = done[s].out[i].before
  <2>1. DOMAIN x = batch
    BY DEF Serving
  <2>2. \A s \in batch : DOMAIN x[s] = 1..n[s]
    BY DEF Serving, Inputs
  <2>3. PICK s \in DOMAIN x : \E i \in DOMAIN x[s] :
           c = [rid |-> req[s].rid, pos |-> req[s].len + i - 1, short |-> req[s].short,
                window |-> done[s].out[i].window, before |-> done[s].out[i].before]
    <3>1. Returned(x, done)
      BY DEF Serving
    <3> QED
      BY <3>1, Zenon DEF Returned
  <2>4. s \in batch
    BY <2>1, <2>3
  <2>5. PICK i \in DOMAIN x[s] :
           c = [rid |-> req[s].rid, pos |-> req[s].len + i - 1, short |-> req[s].short,
                window |-> done[s].out[i].window, before |-> done[s].out[i].before]
    BY <2>3
  <2>6. i \in 1..n[s]
    BY <2>2, <2>4, <2>5
  <2> QED
    BY <2>4, <2>5, <2>6
<1>5. (RecurrenceExact /\ WindowExact /\ NoForeignInput)'
  <2> SUFFICES ASSUME NEW c \in ctx'
               PROVE  /\ c.before = RefBefore(c.rid, c.pos)
                      /\ ~c.short => c.window = RefWindow(c.rid, c.pos)
                      /\ \A i \in 1..Kernel : c.window[i].rid \in {c.rid, NoRid}
    BY DEF RecurrenceExact, WindowExact, NoForeignInput
  <2>1. PICK s \in batch : \E i \in 1..n[s] :
           /\ c.rid = req[s].rid /\ c.pos = req[s].len + (i - 1)
           /\ c.short = req[s].short
           /\ c.window = done[s].out[i].window /\ c.before = done[s].out[i].before
    BY <1>4
  <2>2. PICK i \in 1..n[s] :
           /\ c.rid = req[s].rid /\ c.pos = req[s].len + (i - 1)
           /\ c.short = req[s].short
           /\ c.window = done[s].out[i].window /\ c.before = done[s].out[i].before
    BY <2>1
  <2> QED
    BY <1>3, <2>2
<1>6. /\ DOMAIN conv' = Slot /\ DOMAIN ssm' = Slot
      /\ \A s \in Slot : /\ conv'[s] = IF s \in batch THEN done[s].conv ELSE conv[s]
                         /\ ssm'[s] = IF s \in batch THEN done[s].ssm ELSE ssm[s]
  <2>1. DOMAIN x = batch
    BY DEF Serving
  <2>2. DOMAIN conv = Slot /\ DOMAIN ssm = Slot
    BY DEF IInv, SlotsOK
  <2>3. /\ conv' = Scatter(conv, [s \in batch |-> done[s].conv])
        /\ ssm' = Scatter(ssm, [s \in batch |-> done[s].ssm])
    BY <2>1 DEF Serving, Returned
  <2> QED
    BY <2>2, <2>3 DEF Scatter
<1>7. /\ req' \in [Slot -> [rid : Rid \cup {NoRid}, prompt : Nat, len : Nat, short : BOOLEAN]]
      /\ \A s \in Slot \ batch : req'[s] = req[s]
      /\ \A s \in batch : /\ req'[s].rid = req[s].rid /\ req'[s].prompt = req[s].prompt
                          /\ req'[s].len = req[s].len + n[s] /\ req'[s].short = short[s]
  <2>1. req \in [Slot -> [rid : Rid \cup {NoRid}, prompt : Nat, len : Nat, short : BOOLEAN]]
    BY DEF IInv, SlotsOK
  <2>2. req' = [s \in Slot |-> IF s \in batch
                               THEN [req[s] EXCEPT !.len = @ + n[s], !.short = short[s]]
                               ELSE req[s]]
    BY DEF Serving
  <2>3. \A s \in batch : req[s].len + n[s] \in Nat /\ short[s] \in BOOLEAN
    <3>1. \A s \in batch : short[s] \in BOOLEAN
      BY DEF Serving
    <3>2. \A s \in batch : req[s].len + n[s] \in Nat
      BY <1>1
    <3> QED
      BY <3>1, <3>2
  <2> QED
    BY <2>1, <2>2, <2>3
<1>8. SlotsOK'
  <2>1. ASSUME NEW s \in Slot, req'[s] # NoReq
        PROVE  req'[s].rid \in Rid /\ req'[s].prompt > 0
    <3>1. CASE s \in batch
      <4>1. req[s].rid \in Rid /\ req[s].prompt > 0
        BY <3>1 DEF IInv, SlotsOK, Serving
      <4> QED
        BY <1>7, <3>1, <4>1
    <3>2. CASE s \notin batch
      <4>1. req'[s] = req[s]
        BY <1>7, <3>2
      <4> QED
        BY <2>1, <4>1 DEF IInv, SlotsOK
    <3> QED
      BY <3>1, <3>2
  <2> QED
    BY <1>6, <1>7, <2>1 DEF SlotsOK, NoReq
<1>9. SlotsGoOn'
  <2> SUFFICES ASSUME NEW s \in Slot PROVE GoesOn(req'[s], conv'[s], ssm'[s])
    BY DEF SlotsGoOn
  <2>1. CASE s \in batch
    <3>1. /\ req[s].rid \in Rid
          /\ done[s].ssm = RefBefore(req[s].rid, req[s].len + n[s])
          /\ Carries(req[s].rid, done[s].conv)
          /\ ~short[s] => done[s].conv = RefHistory(req[s].rid, req[s].len + n[s])
      BY <1>1, <1>2, <2>1
    <3>2. conv'[s] = done[s].conv /\ ssm'[s] = done[s].ssm
      BY <1>6, <2>1
    <3>3. /\ req'[s].rid = req[s].rid /\ req'[s].len = req[s].len + n[s]
          /\ req'[s].short = short[s]
      BY <1>7, <2>1
    <3> QED
      BY <3>1, <3>2, <3>3 DEF GoesOn
  <2>2. CASE s \notin batch
    <3>1. req'[s] = req[s] /\ conv'[s] = conv[s] /\ ssm'[s] = ssm[s]
      BY <1>6, <1>7, <2>2
    <3> QED
      BY <3>1 DEF SlotsGoOn, IInv
  <2> QED
    BY <2>1, <2>2
<1>10. SlotsShaped'
  <2> SUFFICES ASSUME NEW s \in Slot PROVE Shaped(req'[s], conv'[s], ssm'[s])
    BY DEF SlotsShaped
  <2>1. Shaped(req[s], conv[s], ssm[s])
    BY DEF IInv, SlotsShaped
  <2>2. CASE s \in batch
    <3>1. PICK id \in Rid, p \in Nat : id = req[s].rid /\ p = req[s].len + n[s]
      BY <1>1, <2>2
    <3>2. ssm'[s] = RefBefore(id, p) /\ Carries(id, conv'[s])
      BY <1>2, <1>6, <2>2, <3>1
    <3>3. \A i \in DOMAIN ssm'[s] : ssm'[s][i].rid \in Rid
      BY <3>2 DEF RefBefore, Token
    <3>4. req'[s].prompt = req[s].prompt /\ req'[s].len <= req[s].prompt + MaxGen
      BY <1>7, <2>2 DEF Serving
    <3> QED
      BY <2>1, <3>2, <3>3, <3>4 DEF Shaped, Carries
  <2>3. CASE s \notin batch
    BY <1>6, <1>7, <2>1, <2>3
  <2> QED
    BY <2>2, <2>3
<1> QED
  BY <1>5, <1>8, <1>9, <1>10 DEF IInv

LEMMA InitOwns == Init => IInv
<1> SUFFICES ASSUME Init PROVE IInv
  OBVIOUS
<1>1. SlotsOK
  BY DEF Init, SlotsOK, NoReq
<1>2. SlotsGoOn
  BY DEF Init, SlotsGoOn, GoesOn, NoReq
<1>3. SlotsShaped
  <2>1. \A s \in Slot : req[s] = NoReq /\ conv[s] = Zeros /\ ssm[s] = <<>>
    BY DEF Init
  <2>2. MaxGen \in Nat /\ MaxPrompt \in Nat
    BY KdaCacheAssumption
  <2> QED
    BY <2>1, <2>2, TokenTypes DEF SlotsShaped, Shaped, NoReq
<1> QED
  BY <1>1, <1>2, <1>3 DEF Init, IInv, RecurrenceExact, WindowExact, NoForeignInput

LEMMA AdmitOwns ==
    ASSUME IInv, NEW s \in Slot, NEW id \in Rid, NEW prompt \in 1..MaxPrompt, Admit(s, id, prompt)
    PROVE  IInv'
<1>0. prompt \in Nat /\ prompt > 0
  BY KdaCacheAssumption
<1>1. SlotsOK'
  BY <1>0 DEF IInv, SlotsOK, Admit, NoReq
<1>2. SlotsGoOn'
  BY DEF IInv, SlotsOK, SlotsGoOn, GoesOn, Admit
<1>3. SlotsShaped'
  <2> SUFFICES ASSUME NEW u \in Slot PROVE Shaped(req'[u], conv[u], ssm[u])
    BY DEF SlotsShaped, Admit
  <2>1. Shaped(req[u], conv[u], ssm[u])
    BY DEF IInv, SlotsShaped
  <2>2. req' = [req EXCEPT ![s] = [rid |-> id, prompt |-> prompt, len |-> 0, short |-> FALSE]]
    BY DEF Admit
  <2>3. req'[u] = req[u] \/ (req'[u].len = 0 /\ req'[u].prompt = prompt)
    BY <2>2 DEF IInv, SlotsOK
  <2>4. 0 <= prompt + MaxGen /\ prompt <= MaxPrompt
    BY KdaCacheAssumption
  <2> QED
    BY <2>1, <2>3, <2>4 DEF Shaped
<1> QED
  BY <1>1, <1>2, <1>3 DEF IInv, Admit, RecurrenceExact, WindowExact, NoForeignInput

LEMMA ReleaseOwns ==
    ASSUME IInv, NEW s \in Slot, Release(s)
    PROVE  IInv'
<1>1. SlotsOK'
  BY DEF IInv, SlotsOK, Release, NoReq
<1>2. SlotsGoOn'
  BY DEF IInv, SlotsOK, SlotsGoOn, GoesOn, Release, NoReq
<1>3. SlotsShaped'
  <2> SUFFICES ASSUME NEW u \in Slot PROVE Shaped(req'[u], conv[u], ssm[u])
    BY DEF SlotsShaped, Release
  <2>1. Shaped(req[u], conv[u], ssm[u])
    BY DEF IInv, SlotsShaped
  <2>2. req'[u] = req[u] \/ req'[u] = NoReq
    BY DEF IInv, SlotsOK, Release
  <2>3. MaxGen \in Nat /\ MaxPrompt \in Nat
    BY KdaCacheAssumption
  <2> QED
    BY <2>1, <2>2, <2>3 DEF Shaped, NoReq
<1> QED
  BY <1>1, <1>2, <1>3 DEF IInv, Release, RecurrenceExact, WindowExact, NoForeignInput

LEMMA ExtendOwns ==
    ASSUME IInv, NEW batch \in SUBSET Slot, NEW n \in [batch -> 1..Chunk], Extend(batch, n)
    PROVE  IInv'
<1> DEFINE x == [s \in batch |-> Inputs(s, n[s])]
           done == cpu_kda_extend(x, [s \in batch |-> Seeded(s)], conv, ssm)
           short == [s \in batch |-> req[s].short \/ (Seeded(s) /\ n[s] < Kernel - 1)]
<1>1. /\ \A s \in batch : req[s] # NoReq
      /\ Returned(x, done)
      /\ req' = [s \in Slot |-> IF s \in batch
                                THEN [req[s] EXCEPT !.len = @ + n[s], !.short = short[s]]
                                ELSE req[s]]
  BY DEF Extend
<1>2. done = [s \in batch |-> kda_layer_forward(x[s], Hist(s), State(s), FALSE)]
  BY DEF cpu_kda_extend, Hist, State
<1>3. \A s \in batch : /\ n[s] \in Nat \ {0}
                       /\ short[s] \in BOOLEAN
                       /\ ~short[s] => /\ ~req[s].short
                                       /\ req[s].len = 0 \/ n[s] >= Kernel - 1
  <2> SUFFICES ASSUME NEW s \in batch
               PROVE  /\ n[s] \in Nat \ {0}
                      /\ short[s] \in BOOLEAN
                      /\ ~short[s] => /\ ~req[s].short
                                      /\ req[s].len = 0 \/ n[s] >= Kernel - 1
    OBVIOUS
  <2>1. req[s].len \in Nat /\ req[s].short \in BOOLEAN
    BY DEF IInv, SlotsOK
  <2>2. n[s] \in Nat \ {0} /\ Kernel \in Nat
    BY KdaCacheAssumption
  <2>3. short[s] = (req[s].short \/ (Seeded(s) /\ n[s] < Kernel - 1))
    OBVIOUS
  <2>4. ~Seeded(s) => req[s].len = 0
    BY <2>1 DEF Seeded
  <2>5. ~(n[s] < Kernel - 1) => n[s] >= Kernel - 1
    BY <2>2
  <2> HIDE DEF short
  <2>6. short[s] \in BOOLEAN
    BY <2>3
  <2>7. ~short[s] => ~req[s].short /\ (req[s].len = 0 \/ n[s] >= Kernel - 1)
    BY <2>3, <2>4, <2>5, Zenon
  <2> QED
    BY <2>2, <2>6, <2>7
<1>4. \A s \in batch : req[s].len + n[s] <= req[s].prompt + MaxGen
  <2> SUFFICES ASSUME NEW s \in batch PROVE req[s].len + n[s] <= req[s].prompt + MaxGen
    OBVIOUS
  <2>1. n[s] \in 1..(req[s].prompt - req[s].len)
    BY DEF Extend
  <2>2. req[s].len \in Nat /\ req[s].prompt \in Nat /\ MaxGen \in Nat
    BY KdaCacheAssumption DEF IInv, SlotsOK
  <2> QED
    BY <2>1, <2>2
<1>5. Serving(batch, n, FALSE, short, x, done)
  <2> HIDE DEF done, short
  <2> QED
    BY <1>1, <1>2, <1>3, <1>4 DEF Serving
<1> HIDE DEF x, done, short
<1> QED
  BY <1>5, Serve

LEMMA DecodeOwns ==
    ASSUME IInv, NEW batch \in SUBSET Slot, Decode(batch)
    PROVE  IInv'
<1> DEFINE n == [s \in batch |-> 1]
           x == [s \in batch |-> Inputs(s, n[s])]
           done == cpu_kda_decode(x, conv, ssm)
           short == [s \in batch |-> req[s].short]
<1>1. /\ \A s \in batch : req[s] # NoReq /\ req[s].len >= req[s].prompt
      /\ Returned(x, done)
      /\ req' = [s \in Slot |-> IF s \in batch THEN [req[s] EXCEPT !.len = @ + 1] ELSE req[s]]
  BY DEF Decode
<1>2. \A s \in batch : Seeded(s)
  BY <1>1 DEF IInv, SlotsOK, Seeded
<1>3. done = [s \in batch |-> kda_layer_forward(x[s], Hist(s), State(s), TRUE)]
  BY <1>2 DEF cpu_kda_decode, Hist, State
<1>4. req' = [s \in Slot |-> IF s \in batch
                             THEN [req[s] EXCEPT !.len = @ + n[s], !.short = short[s]]
                             ELSE req[s]]
  BY <1>1 DEF IInv, SlotsOK
<1>5. \A s \in batch : n[s] = 1 /\ short[s] \in BOOLEAN /\ (~short[s] => ~req[s].short)
  BY DEF IInv, SlotsOK
<1>6. Serving(batch, n, TRUE, short, x, done)
  <2>1. \A s \in batch : req[s].len + n[s] <= req[s].prompt + MaxGen
    <3> SUFFICES ASSUME NEW s \in batch PROVE req[s].len + n[s] <= req[s].prompt + MaxGen
      OBVIOUS
    <3>1. req[s].len < req[s].prompt + MaxGen
      BY DEF Decode
    <3>2. req[s].len \in Nat /\ req[s].prompt \in Nat /\ MaxGen \in Nat
      BY KdaCacheAssumption DEF IInv, SlotsOK
    <3> QED
      BY <3>1, <3>2
  <2> HIDE DEF n, done, short
  <2>2. \A s \in batch : n[s] \in Nat \ {0}
    BY <1>5
  <2> QED
    BY <1>1, <1>3, <1>4, <1>5, <2>1, <2>2, Zenon DEF Serving
<1> HIDE DEF n, x, done, short
<1> QED
  BY <1>6, Serve

LEMMA NextOwns == IInv /\ [Next]_vars => IInv'
<1> SUFFICES ASSUME IInv, [Next]_vars PROVE IInv'
  OBVIOUS
<1>1. ASSUME NEW s \in Slot, NEW id \in Rid, NEW prompt \in 1..MaxPrompt, Admit(s, id, prompt)
      PROVE  IInv'
  BY <1>1, AdmitOwns
<1>2. ASSUME NEW batch \in SUBSET Slot, NEW n \in [batch -> 1..Chunk], Extend(batch, n)
      PROVE  IInv'
  BY <1>2, ExtendOwns
<1>3. ASSUME NEW batch \in SUBSET Slot, Decode(batch)
      PROVE  IInv'
  BY <1>3, DecodeOwns
<1>4. ASSUME NEW s \in Slot, Release(s)
      PROVE  IInv'
  BY <1>4, ReleaseOwns
<1>5. CASE UNCHANGED vars
  BY <1>5 DEF vars, IInv, SlotsOK, SlotsShaped, SlotsGoOn, RecurrenceExact, WindowExact, NoForeignInput
<1> QED
  BY <1>1, <1>2, <1>3, <1>4, <1>5 DEF Next

\* The recurrent state that a token is computed from holds its request's own
\* earlier tokens, each once and in order: cpu_kda_extend and cpu_kda_decode on
\* a slot that is reused without being cleared, for every schedule of chunks.
THEOREM RecurrenceIsExact == Spec => []RecurrenceExact
<1>1. IInv => RecurrenceExact
  BY DEF IInv
<1> QED
  BY <1>1, InitOwns, NextOwns, PTL DEF Spec

\* ConvExact: _selftest passes, the pool keeps its shape, and a conv sees its
\* own request's inputs alone, and misses none unless a short chunk went before.
THEOREM ConvIsExact == Spec => []ConvExact
<1>1. IInv => ConvExact
  <2> SUFFICES ASSUME IInv PROVE TypeOK
    BY SelfTest DEF IInv, ConvExact
  <2> SUFFICES ASSUME NEW s \in Slot
               PROVE  /\ req[s].rid \in Rid \cup {NoRid} /\ req[s].len \in 0..(MaxPrompt + MaxGen)
                      /\ DOMAIN conv[s] = 1..(Kernel - 1)
                      /\ \A i \in DOMAIN ssm[s] : ssm[s][i].rid \in Rid
    BY DEF TypeOK
  <2>1. /\ req[s].rid \in Rid \cup {NoRid} /\ req[s].len \in Nat /\ req[s].prompt \in Nat
        /\ Shaped(req[s], conv[s], ssm[s])
    BY DEF IInv, SlotsOK, SlotsShaped
  <2>2. req[s].len \in 0..(MaxPrompt + MaxGen)
    BY <2>1, KdaCacheAssumption DEF Shaped
  <2>3. DOMAIN conv[s] = 1..(Kernel - 1)
    BY <2>1 DEF Shaped
  <2> QED
    BY <2>1, <2>2, <2>3 DEF Shaped
<1> QED
  BY <1>1, InitOwns, NextOwns, PTL DEF Spec

=============================================================================
