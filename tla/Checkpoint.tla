----------------------------- MODULE Checkpoint -----------------------------
(***************************************************************************)
(* What a checkpointing run promises, whatever kills it and however often  *)
(* it is launched again: an answer that was saved stays saved, answers are *)
(* saved a chunk at a time, and a shard is closed, never to be launched    *)
(* again, only when each question it owes has a saved answer.  The one     *)
(* exception is a shard that loses its first answers before it has saved   *)
(* any: it may be closed without them.                                     *)
(***************************************************************************)
EXTENDS Integers

CONSTANTS
    Shard,
    Question

VARIABLES
    owed,   \* owed[s]: the questions of shard s, none while it has no work
    step,   \* the most questions saved at once
    saved,  \* saved[s]: the questions of s that have a saved answer
    lost,   \* lost[s]: s has lost its first answers
    closed  \* closed[s]: s is not launched again

vars == <<owed, step, saved, lost, closed>>

Save(s) ==
    /\ ~closed[s]
    /\ \E batch \in [1..step -> owed[s]] :
          saved' = [saved EXCEPT ![s] = @ \cup {batch[i] : i \in 1..step}]
    /\ UNCHANGED <<owed, step, lost, closed>>

Close(s) ==
    /\ ~closed[s]
    /\ saved[s] = owed[s] \/ lost[s]
    /\ closed' = [closed EXCEPT ![s] = TRUE]
    /\ UNCHANGED <<owed, step, saved, lost>>

\* The shard dies before it has saved anything, and may be closed by that.
Lose(s) ==
    /\ ~closed[s] /\ ~lost[s] /\ saved[s] = {}
    /\ lost' = [lost EXCEPT ![s] = TRUE]
    /\ closed' \in {closed, [closed EXCEPT ![s] = TRUE]}
    /\ UNCHANGED <<owed, step, saved>>

\* Shards that had no work get some.
Deal ==
    /\ owed' \in [Shard -> SUBSET Question]
    /\ \A s \in Shard : owed[s] # {} => owed'[s] = owed[s]
    /\ UNCHANGED <<step, saved, lost, closed>>

Init ==
    /\ owed \in [Shard -> SUBSET Question]
    /\ step \in Nat \ {0}
    /\ saved = [s \in Shard |-> {}]
    /\ lost = [s \in Shard |-> FALSE]
    /\ closed = [s \in Shard |-> FALSE]

Next == Deal \/ \E s \in Shard : Save(s) \/ Close(s) \/ Lose(s)

Spec == Init /\ [][Next]_vars

=============================================================================
