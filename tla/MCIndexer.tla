----------------------------- MODULE MCIndexer -----------------------------
(* Instances of Indexer for TLC. *)
EXTENDS Indexer

\* Two indexed layers before one that is not.
TwoIndexed == <<TRUE, TRUE, FALSE>>

=============================================================================
