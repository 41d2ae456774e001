----------------------------- MODULE MCGsm8kRun -----------------------------
(* Gsm8kRun with shards of one chunk, of several, with a short last chunk, *)
(* and of none; and a tail dealt out to two tasks, of one shard, so that   *)
(* either may get nothing.                                                 *)
EXTENDS Gsm8kRun

SmallLayouts ==
    {[n |-> 5, shards |-> 1, chunk |-> 3, tail |-> 0],
     [n |-> 5, shards |-> 2, chunk |-> 2, tail |-> 0],
     [n |-> 3, shards |-> 1, chunk |-> 1, tail |-> 0],
     [n |-> 4, shards |-> 3, chunk |-> 2, tail |-> 0],
     [n |-> 2, shards |-> 1, chunk |-> 1, tail |-> 2]}

Grades == [q \in 0..4 |-> IF q \in {1, 4} THEN "wrong"
                          ELSE IF q = 2 THEN "invalid" ELSE "right"]

=============================================================================
