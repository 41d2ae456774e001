---------------------------- MODULE MCReviewLoop ----------------------------
(* ReviewLoop with two rounds a run, run a second time over the files of   *)
(* the first: a stale review file, a ledger of the run before.             *)
EXTENDS ReviewLoop

=============================================================================
