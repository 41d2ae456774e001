----------------------------- MODULE PairedGate -----------------------------
(***************************************************************************)
(* paired_analyze.py: the answers several legs gave to the same questions, *)
(* compared pair by pair, and the exit status that gates a release on the  *)
(* C++ leg being equivalent to the eager one.                              *)
(*                                                                         *)
(* `legs` lists [name, recs] in the order of --legs; recs maps the         *)
(* questions of the leg's file to what was predicted and whether it is     *)
(* correct.                                                                *)
(***************************************************************************)
EXTENDS Integers, Sequences, FiniteSets, FiniteSetsExt, Combinatorics

\* Mutant: the tail stops at the larger of the two counts.
FewerOfLarger(b, c) == IF b >= c THEN b ELSE c

Fewer(b, c) == IF b <= c THEN b ELSE c

\* _mcnemar(b, c) >= 0.05: the two-sided binomial tail of the discordant
\* questions, in whole numbers.
NotSignificant(b, c) ==
    40 * MapThenSumSet(LAMBDA i : choose(b + c, i), 0..Fewer(b, c)) >= 2^(b + c)

\* qids: the questions that every leg has answered.
Common(legs) == {q \in DOMAIN legs[1].recs : \A i \in DOMAIN legs : q \in DOMAIN legs[i].recs}

Agreeing(a, b, qids) == {q \in qids : a[q].pred = b[q].pred}

\* The questions that a answers correctly and b does not.
OnlyCorrect(a, b, qids) == {q \in qids : a[q].correct /\ ~b[q].correct}

\* Mutant: two wrong answers that differ are taken to agree.
EquivalentIfAsCorrect(a, b, qids, agreeMin) ==
    /\ 100 * Cardinality({q \in qids : a[q].correct = b[q].correct})
         >= agreeMin * (IF qids = {} THEN 1 ELSE Cardinality(qids))
    /\ NotSignificant(Cardinality(OnlyCorrect(a, b, qids)),
                      Cardinality(OnlyCorrect(b, a, qids)))

\* EQUIVALENT, with --agree-min in percent; no question in common is no
\* agreement.
Equivalent(a, b, qids, agreeMin) ==
    /\ 100 * Cardinality(Agreeing(a, b, qids))
         >= agreeMin * (IF qids = {} THEN 1 ELSE Cardinality(qids))
    /\ NotSignificant(Cardinality(OnlyCorrect(a, b, qids)),
                      Cardinality(OnlyCorrect(b, a, qids)))

\* Mutant: the pair is looked for in one order of the names only.
GatedPairsInOrder(legs) ==
    {p \in (DOMAIN legs) \X (DOMAIN legs) :
        p[1] < p[2] /\ legs[p[1]].name = "cpu_eager" /\ legs[p[2]].name = "cpu_c"}

\* The pairs whose key bears both names.
GatedPairs(legs) ==
    {p \in (DOMAIN legs) \X (DOMAIN legs) :
        p[1] < p[2] /\ {legs[p[1]].name, legs[p[2]].name} = {"cpu_c", "cpu_eager"}}

\* The exit status.
PairedExit(legs, agreeMin) ==
    IF \A p \in GatedPairs(legs) :
          Equivalent(legs[p[1]].recs, legs[p[2]].recs, Common(legs), agreeMin)
    THEN 0 ELSE 1

=============================================================================
