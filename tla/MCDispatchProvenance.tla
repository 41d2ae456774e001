----------------------- MODULE MCDispatchProvenance -----------------------
(* DispatchProvenance for the environments the jobs set, and some they     *)
(* might: the two-legged sweep on one engine, loaded with the control file *)
(* at 0 (run_dsv4_p1_cpu) or 1 (run_dsv4_d2_gnrperf2), no control file     *)
(* (run_dsv4_perfdelta_clean), a person at it, one override at a time; and *)
(* a disk that fails now and then.                                         *)
EXTENDS Timeit

NoOverride == [op \in HOT_OPS |-> Unset]

Overrides ==
    {NoOverride, [NoOverride EXCEPT !["topk"] = "0"],
     [NoOverride EXCEPT !["combine"] = "0"], [NoOverride EXCEPT !["indexer"] = "1"]}

Base ==
    [strict |-> FALSE, check |-> TRUE, master |-> "1", over |-> NoOverride,
     file |-> TRUE, first |-> "1", byhand |-> FALSE, mxfp4 |-> TRUE,
     fits |-> TRUE, faulty |-> FALSE, sweep |-> <<"0", "1">>]

MCOptions ==
    {[Base EXCEPT !.strict = s, !.first = f, !.over = v] :
        s \in BOOLEAN, f \in {"0", "1"}, v \in Overrides}
    \cup {[Base EXCEPT !.strict = s, !.file = FALSE, !.master = m, !.sweep = <<w>>] :
        s \in BOOLEAN, m \in {"0", "1"}, w \in {Unset, "1"}}
    \cup {[Base EXCEPT !.byhand = TRUE, !.sweep = <<Unset>>],
          [Base EXCEPT !.mxfp4 = FALSE, !.sweep = <<Unset>>],
          [Base EXCEPT !.fits = FALSE], [Base EXCEPT !.check = FALSE],
          [Base EXCEPT !.faulty = TRUE, !.sweep = <<Unset>>]}

Questions == 1..8

\* The eager code answers right; the C++ code answers otherwise from question
\* f on, and for the first k of those the eager code is wrong instead.
Apart(f, k, other) ==
    [i \in Impl |-> [q \in Questions |->
        IF q < f THEN "gold"
        ELSE IF i = "eager" THEN (IF q < f + k THEN "x" ELSE "gold")
        ELSE (IF q < f + k THEN other ELSE "none")]]

\* From no difference to differences everywhere, one-sided, shared between the
\* two, and between two wrong answers.
MCAnswers ==
    {Apart(9, 0, "gold"), Apart(8, 0, "gold"), Apart(3, 0, "gold"), Apart(2, 3, "gold"),
     Apart(4, 5, "y"), Apart(1, 8, "y"), Apart(1, 1, "gold"), Apart(3, 6, "gold")}

=============================================================================
