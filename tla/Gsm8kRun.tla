------------------------------ MODULE Gsm8kRun ------------------------------
(***************************************************************************)
(* The sharded gsm8k accuracy run: task_gsm8k_chunked.py, one job per      *)
(* shard, and combine_gsm8k_shards.py.  A job asks its shard's questions   *)
(* in chunks; after each it writes the running result (out) and, when      *)
(* asked to, the answers so far (gens), each file atomically but one after *)
(* the other.  A job may be killed at any moment and is launched again,    *)
(* to resume from whichever of its files it finds.  Combine reads the      *)
(* result files that are there, while the jobs run.                        *)
(*                                                                         *)
(* Once in a run, at any moment, reshard_tail.py may deal the questions    *)
(* that slow shards have no answer for to an array of new tasks: the same  *)
(* jobs, with files of their own.  They are numbered after the shards      *)
(* here, and from 0 in their files.                                        *)
(*                                                                         *)
(* An answer is its question and the grade of it; the engine answers a     *)
(* question alike every time (temperature 0).                              *)
(***************************************************************************)
EXTENDS Integers, FiniteSets, Sequences, SequencesExt, FiniteSetsExt

CONSTANTS
    Layouts,  \* records: n questions in `shards` shards, by `chunk` at a time,
              \* and `tail` tasks to share a tail, 0 if it never is
    Grade,    \* Grade[q]: "right", "wrong" or "invalid", of question q
    MaxShards \* bound: most shards and tasks of a layout

Shard == 0..(MaxShards - 1)

ASSUME Gsm8kRunAssumption ==
    /\ MaxShards \in Nat \ {0}
    /\ \A y \in Layouts :
          /\ y.n \in Nat /\ y.chunk \in Nat \ {0} /\ y.shards \in 1..MaxShards
          /\ y.tail \in 0..(MaxShards - y.shards)
          /\ \A q \in 0..(y.n - 1) : Grade[q] \in {"right", "wrong", "invalid"}

VARIABLES
    opt,     \* the layout, and whether --gens-out is given
    out,     \* out[s]: the result file of shard s
    gens,    \* gens[s]: the answers file of shard s, as its questions
    job,     \* job[s]: the running job of shard s, or NoJob
    reader,  \* the running combine, or NoReader
    combined,\* what the last combine to end has said
    tail     \* what has been dealt out of the slow shards, or NoTail

vars == <<opt, out, gens, job, reader, combined, tail>>

NoFile == [file |-> FALSE]
NoGens == <<-1>>
NoJob  == [pc |-> "off"]
NoReader == [pc |-> "off"]
NoTail == [slow |-> {}]

-----------------------------------------------------------------------------
(* Sharding. *)

Per == (opt.n + opt.shards - 1) \div opt.shards

Offset(s) == s * Per

\* q_ids of a shard: a slice of the questions, or what a file lists.
Ids(s) ==
    LET end == IF Offset(s) + Per < opt.n THEN Offset(s) + Per ELSE opt.n
    IN  IF s < opt.shards
        THEN [j \in 1..(IF Offset(s) < end THEN end - Offset(s) ELSE 0) |-> Offset(s) + j - 1]
        ELSE IF tail # NoTail /\ s \in DOMAIN tail.ids THEN tail.ids[s] ELSE <<>>

Total(s) == Len(Ids(s))

\* The shards, and the tasks of the tail once there are any.
Tasks == 0..((IF tail = NoTail THEN opt.shards ELSE opt.shards + opt.tail) - 1)

\* shard_index and num_shards in a task's files.
Index(s) == IF s < opt.shards THEN s ELSE s - opt.shards

NumShards(s) == IF s < opt.shards THEN opt.shards ELSE opt.tail

Count(qs, g) == Cardinality({i \in DOMAIN qs : Grade[qs[i]] = g})

\* q_ids[a : b].
Slice(s, a, b) == SubSeq(Ids(s), a + 1, b)

-----------------------------------------------------------------------------
(* A job. *)

\* Mutant: `done` comes from the result file though the answers file is there.
ResumeDoneFromOut(s) ==
    IF opt.gens /\ gens[s] # NoGens
    THEN [done |-> out[s].done, correct |-> Count(gens[s], "right"),
          invalid |-> Count(gens[s], "invalid"), gens |-> gens[s]]
    ELSE IF out[s].file
    THEN [done |-> out[s].done, correct |-> out[s].correct,
          invalid |-> out[s].invalid, gens |-> <<>>]
    ELSE [done |-> 0, correct |-> 0, invalid |-> 0, gens |-> <<>>]

\* Mutant: the counts come from the result file, the rest from the answers.
ResumeCountsFromOut(s) ==
    IF opt.gens /\ gens[s] # NoGens
    THEN [done |-> Len(gens[s]), correct |-> out[s].correct,
          invalid |-> out[s].invalid, gens |-> gens[s]]
    ELSE IF out[s].file
    THEN [done |-> out[s].done, correct |-> out[s].correct,
          invalid |-> out[s].invalid, gens |-> <<>>]
    ELSE [done |-> 0, correct |-> 0, invalid |-> 0, gens |-> <<>>]

\* Mutant: the answers are scored, but not kept to be written again.
ResumeDropsGens(s) ==
    IF opt.gens /\ gens[s] # NoGens
    THEN [done |-> Len(gens[s]), correct |-> Count(gens[s], "right"),
          invalid |-> Count(gens[s], "invalid"), gens |-> <<>>]
    ELSE IF out[s].file
    THEN [done |-> out[s].done, correct |-> out[s].correct,
          invalid |-> out[s].invalid, gens |-> <<>>]
    ELSE [done |-> 0, correct |-> 0, invalid |-> 0, gens |-> <<>>]

\* What a job finds when it starts: the answers, scored again, or else the
\* counts of the result file.
Resume(s) ==
    IF opt.gens /\ gens[s] # NoGens
    THEN [done |-> Len(gens[s]), correct |-> Count(gens[s], "right"),
          invalid |-> Count(gens[s], "invalid"), gens |-> gens[s]]
    ELSE IF out[s].file
    THEN [done |-> out[s].done, correct |-> out[s].correct,
          invalid |-> out[s].invalid, gens |-> <<>>]
    ELSE [done |-> 0, correct |-> 0, invalid |-> 0, gens |-> <<>>]

\* Mutant: every chunk is asked again.
StartsAll(s, resumeDone) == {a \in 0..(Total(s) - 1) : a % opt.chunk = 0}

\* Mutant: the chunk that starts at resume_done is taken for saved.
StartsAfter(s, resumeDone) ==
    {a \in 0..(Total(s) - 1) : a % opt.chunk = 0 /\ a > resumeDone}

\* The chunks still to be asked: those that do not start before resume_done.
Starts(s, resumeDone) ==
    {a \in 0..(Total(s) - 1) : a % opt.chunk = 0 /\ a >= resumeDone}

\* A job starts, unless its shard is complete already.
Launch(s) ==
    /\ job[s] = NoJob
    /\ Resume(s).done < Total(s)
    /\ job' = [job EXCEPT ![s] = [pc |-> "ask", todo |-> Starts(s, Resume(s).done),
                                  done |-> Resume(s).done, correct |-> Resume(s).correct,
                                  invalid |-> Resume(s).invalid, gens |-> Resume(s).gens,
                                  asked |-> <<>>]]
    /\ UNCHANGED <<opt, out, gens, reader, combined, tail>>

\* A shard with no question gets a result that names no run contract.
LaunchEmpty(s) ==
    /\ s \in Tasks
    /\ job[s] = NoJob
    /\ Total(s) = 0
    /\ ~out[s].file
    /\ out' = [out EXCEPT ![s] = [file |-> TRUE, contract |-> FALSE, done |-> 0,
                                  total |-> 0, correct |-> 0, invalid |-> 0]]
    /\ UNCHANGED <<opt, gens, job, reader, combined, tail>>

\* engine.generate on the next chunk, and the new counts.
Ask(s) ==
    /\ job[s].pc = "ask" /\ job[s].todo # {}
    /\ LET start == CHOOSE a \in job[s].todo : \A b \in job[s].todo : a <= b
           stop  == IF start + opt.chunk < Total(s) THEN start + opt.chunk ELSE Total(s)
           qs    == Slice(s, start, stop)
       IN  job' = [job EXCEPT ![s] = [pc |-> "out", todo |-> @.todo \ {start},
                                      done |-> @.done + Len(qs),
                                      correct |-> @.correct + Count(qs, "right"),
                                      invalid |-> @.invalid + Count(qs, "invalid"),
                                      gens |-> @.gens, asked |-> qs]]
    /\ UNCHANGED <<opt, out, gens, reader, combined, tail>>

\* _atomic_write(args.out, result).
WriteOut(s) ==
    /\ job[s].pc = "out"
    /\ out' = [out EXCEPT ![s] = [file |-> TRUE, contract |-> TRUE, done |-> job[s].done,
                                  total |-> Total(s), correct |-> job[s].correct,
                                  invalid |-> job[s].invalid]]
    /\ job' = [job EXCEPT ![s].pc = IF opt.gens THEN "gens" ELSE "ask"]
    /\ UNCHANGED <<opt, gens, reader, combined, tail>>

\* gens.extend(...), _atomic_write(args.gens_out, gens).
WriteGens(s) ==
    /\ job[s].pc = "gens"
    /\ gens' = [gens EXCEPT ![s] = job[s].gens \o job[s].asked]
    /\ job' = [job EXCEPT ![s].pc = "ask", ![s].gens = @ \o job[s].asked]
    /\ UNCHANGED <<opt, out, reader, combined, tail>>

\* The loop ends and the job with it: with a result to print or, if no chunk
\* was asked, without one (a NameError).  Either way the files stay.
Exit(s) ==
    /\ job[s].pc = "ask" /\ job[s].todo = {}
    /\ job' = [job EXCEPT ![s] = NoJob]
    /\ UNCHANGED <<opt, out, gens, reader, combined, tail>>

\* A wall-kill, a watchdog, an engine that raises or answers too few prompts.
Kill(s) ==
    /\ job[s] # NoJob
    /\ job' = [job EXCEPT ![s] = NoJob]
    /\ UNCHANGED <<opt, out, gens, reader, combined, tail>>

-----------------------------------------------------------------------------
(* Combine. *)

Reject == [ok |-> FALSE]

\* What --glob matches: the files of one array of tasks, or of both.
Matched(glob) ==
    CASE glob = "shards" -> 0..(opt.shards - 1)
      [] glob = "tail"   -> Tasks \ 0..(opt.shards - 1)
      [] glob = "both"   -> Tasks

\* The files are listed once, then read one by one in their order.
CombineStart(requireComplete, glob) ==
    /\ reader = NoReader
    /\ LET files == {s \in Matched(glob) : out[s].file}
       IN  IF files = {}
           THEN reader' = reader
           ELSE reader' = [pc |-> "read", require |-> requireComplete, left |-> files,
                           got |-> [s \in {} |-> NoFile]]
    /\ combined' = Reject
    /\ UNCHANGED <<opt, out, gens, job, tail>>

\* A file is looked at as it is read: its counts, and whether another had its
\* shard_index.
CombineRead ==
    /\ reader.pc = "read" /\ reader.left # {}
    /\ LET s == CHOOSE a \in reader.left : \A b \in reader.left : a <= b
           sound == /\ 0 <= out[s].correct /\ out[s].correct <= out[s].done
                    /\ 0 <= out[s].invalid /\ out[s].invalid <= out[s].done
                    /\ out[s].done <= out[s].total
       IN  IF sound /\ \A t \in DOMAIN reader.got : Index(t) # Index(s)
           THEN /\ reader' = [reader EXCEPT !.left = @ \ {s},
                                 !.got = [x \in DOMAIN @ \cup {s} |-> IF x = s THEN out[s] ELSE @[x]]]
                /\ UNCHANGED combined
           ELSE reader' = NoReader /\ combined' = Reject
    /\ UNCHANGED <<opt, out, gens, job, tail>>

SumOf(got, field) == SumFunction([s \in DOMAIN got |-> got[s][field]])

Indices(got) == {Index(s) : s \in DOMAIN got}

\* One contract: a result of no question has none.
SameRun(got) ==
    \A s, t \in DOMAIN got : /\ got[s].contract = got[t].contract
                            /\ got[s].contract => NumShards(s) = NumShards(t)

\* Mutant: partial shards are accepted.
AcceptedPartial(got, require) ==
    /\ SameRun(got)
    /\ require =>
          /\ \A s \in DOMAIN got : got[s].contract
          /\ \A s \in DOMAIN got : Indices(got) = 0..(NumShards(s) - 1)
    /\ SumOf(got, "done") # 0

\* Mutant: the shards are expected to be numbered from 1.
AcceptedFromOne(got, require) ==
    /\ SameRun(got)
    /\ require =>
          /\ \A s \in DOMAIN got : got[s].contract
          /\ \A s \in DOMAIN got : Indices(got) = 1..NumShards(s)
          /\ \A s \in DOMAIN got : got[s].done = got[s].total
    /\ SumOf(got, "done") # 0

\* The checks of the set of records.
Accepted(got, require) ==
    /\ SameRun(got)
    /\ require =>
          /\ \A s \in DOMAIN got : got[s].contract
          /\ \A s \in DOMAIN got : Indices(got) = 0..(NumShards(s) - 1)
          /\ \A s \in DOMAIN got : got[s].done = got[s].total
    /\ SumOf(got, "done") # 0

CombineEnd ==
    /\ reader.pc = "read" /\ reader.left = {}
    /\ combined' =
          IF Accepted(reader.got, reader.require)
          THEN [ok |-> TRUE, require |-> reader.require, of |-> DOMAIN reader.got,
                done    |-> SumOf(reader.got, "done"),
                correct |-> SumOf(reader.got, "correct"),
                invalid |-> SumOf(reader.got, "invalid")]
          ELSE Reject
    /\ reader' = NoReader
    /\ UNCHANGED <<opt, out, gens, job, tail>>

-----------------------------------------------------------------------------
(* Sharing out a tail. *)

\* The elements of a finite set of numbers in order.
Ordered(S) ==
    CHOOSE qs \in [1..Cardinality(S) -> S] : \A i, j \in DOMAIN qs : i < j => qs[i] < qs[j]

\* The questions of the slow shards that have no answer, in order: each slice
\* without the questions its answers file names.
Remaining(slow) ==
    LET answered(s) == IF gens[s] = NoGens THEN {} ELSE ToSet(gens[s])
    IN  Ordered({q \in 0..(opt.n - 1) : \E s \in slow : q \in ToSet(Ids(s)) \ answered(s)})

\* Mutant: equal parts, what is left over goes to none.
DealtRoundedDown(qs, k) ==
    LET part == Len(qs) \div opt.tail
    IN  SubSeq(qs, k * part + 1, (k + 1) * part)

\* ids_k.json.
Dealt(qs, k) ==
    LET part == (Len(qs) + opt.tail - 1) \div opt.tail
    IN  SubSeq(qs, k * part + 1, IF (k + 1) * part < Len(qs) THEN (k + 1) * part ELSE Len(qs))

\* Nothing keeps the jobs of the slow shards from going on.
Reshard(slow) ==
    /\ opt.tail > 0 /\ tail = NoTail
    /\ slow # {}
    /\ tail' = [slow |-> slow,
                ids |-> [t \in opt.shards..(opt.shards + opt.tail - 1) |->
                           Dealt(Remaining(slow), t - opt.shards)],
                had |-> [s \in slow |-> gens[s]]]
    /\ UNCHANGED <<opt, out, gens, job, reader, combined>>

-----------------------------------------------------------------------------
Init ==
    /\ opt \in {[n |-> y.n, shards |-> y.shards, chunk |-> y.chunk, tail |-> y.tail, gens |-> g]
                  : y \in Layouts, g \in BOOLEAN}
    /\ opt.tail > 0 => opt.gens
    /\ tail = NoTail
    /\ out = [s \in Shard |-> NoFile]
    /\ gens = [s \in Shard |-> NoGens]
    /\ job = [s \in Shard |-> NoJob]
    /\ reader = NoReader
    /\ combined = Reject

JobStep(s) == Ask(s) \/ WriteOut(s) \/ WriteGens(s) \/ Exit(s)

Next ==
    \/ \E s \in Shard : Launch(s) \/ LaunchEmpty(s) \/ JobStep(s) \/ Kill(s)
    \/ \E r \in BOOLEAN : CombineStart(r, "shards")
    \/ \E glob \in {"tail", "both"} : tail # NoTail /\ CombineStart(TRUE, glob)
    \/ CombineRead
    \/ CombineEnd
    \/ \E slow \in SUBSET (0..(opt.shards - 1)) : Reshard(slow)

(* A shard that is not complete is launched again, and a job that is       *)
(* killed again and again still gets to each of its steps in the end: the  *)
(* wall time of a job is enough for a chunk.  Combine is run again until   *)
(* it has what it requires.                                                *)
Fairness ==
    /\ \A s \in Shard :
          /\ WF_vars(Launch(s)) /\ WF_vars(LaunchEmpty(s))
          /\ SF_vars(Ask(s)) /\ SF_vars(WriteOut(s)) /\ SF_vars(WriteGens(s))
    /\ SF_vars(CombineStart(TRUE, "shards")) /\ WF_vars(CombineRead) /\ WF_vars(CombineEnd)

Spec == Init /\ [][Next]_vars /\ Fairness

-----------------------------------------------------------------------------
(* Properties. *)

TypeOK ==
    /\ \A s \in Shard :
          /\ out[s].file => {out[s].done, out[s].correct, out[s].invalid} \subseteq 0..Total(s)
          /\ gens[s] # NoGens => Len(gens[s]) <= Total(s)
          /\ job[s] # NoJob => /\ job[s].pc \in {"ask", "out", "gens"}
                              /\ job[s].done \in 0..Total(s)
    /\ reader # NoReader => reader.left \subseteq Shard /\ DOMAIN reader.got \subseteq Shard

\* The answers file of a shard has lost the shard's first questions: the job
\* that wrote the first result was killed before it wrote the first answers,
\* and the next one took its counts from the result.
Spoilt(s) == gens[s] # NoGens /\ gens[s][1] # Ids(s)[1]

\* The counts of a result file are those of the shard's first `done`
\* questions, each counted once, whenever the jobs were killed and from
\* whichever file they resumed, unless the answers file is spoilt.
ResultExact ==
    \A s \in Shard : out[s].file /\ ~Spoilt(s) =>
        /\ out[s].correct = Count(Slice(s, 0, out[s].done), "right")
        /\ out[s].invalid = Count(Slice(s, 0, out[s].done), "invalid")

\* The answers file holds each question once and in order, from the first
\* one saved, and is at most a chunk behind the result file, and never ahead
\* of it: what offline scoring reads is what the result counted.
FilesAgree ==
    \A s \in Shard : gens[s] # NoGens /\ ~Spoilt(s) =>
        /\ gens[s] = Slice(s, 0, Len(gens[s]))
        /\ out[s].file
        /\ out[s].done \in Len(gens[s])..(Len(gens[s]) + opt.chunk)

\* A combine that requires completeness and accepts has counted every
\* question of the run, or of the tail, once, though it read the files one by
\* one while jobs wrote them.
CombineExact ==
    combined.ok /\ combined.require /\ (\A s \in Shard : ~Spoilt(s)) =>
        LET asked == UNION {{s} \X DOMAIN Ids(s) : s \in combined.of}
            graded(g) == Cardinality({p \in asked : Grade[Ids(p[1])[p[2]]] = g})
        IN  /\ combined.done = Cardinality(asked)
            /\ combined.correct = graded("right")
            /\ combined.invalid = graded("invalid")
            /\ combined.of = 0..(opt.shards - 1) => combined.done = opt.n

\* A shard that is about to be spoilt: its jobs were killed before the first
\* answers were written, and it is further than its first chunk.
Unanswered(s) == gens[s] = NoGens /\ out[s].file /\ out[s].done > opt.chunk

\* Sharing out a tail loses no question and, of slow shards that have been
\* stopped, repeats none: every question of a slow shard is answered there or
\* in the part of one task.  Results, which may be a chunk ahead of the
\* answers, count at most a chunk of each slow shard twice.
TailExact ==
    tail # NoTail /\ (\A s \in Shard : ~Spoilt(s)) =>
        LET answered(s) == IF gens[s] = NoGens THEN {} ELSE ToSet(gens[s])
            parts(q) == {t \in DOMAIN tail.ids : q \in ToSet(tail.ids[t])}
            stopped  == \A s \in tail.slow : gens[s] = tail.had[s]
            results  == SumFunction([s \in Tasks |-> IF out[s].file THEN out[s].done ELSE 0])
        IN  /\ \A s \in tail.slow : \A q \in ToSet(Ids(s)) :
                  /\ q \in answered(s) \/ parts(q) # {}
                  /\ Cardinality(parts(q)) <= 1
                  /\ stopped => q \notin answered(s) \/ parts(q) = {}
            /\ stopped /\ (\A s \in tail.slow : ~Unanswered(s)) =>
                  results <= opt.n + opt.chunk * Cardinality(tail.slow)

\* The questions of a shard that have a saved answer or, without answers
\* files, are counted in its result.
Saved(s) ==
    IF opt.gens THEN (IF gens[s] = NoGens THEN {} ELSE ToSet(gens[s]))
                ELSE (IF out[s].file THEN ToSet(Slice(s, 0, out[s].done)) ELSE {})

\* A job is between the shard's first result and its first answers.
FirstAnswersDue(s) == job[s].pc = "gens" /\ job[s].done = Len(job[s].asked)

\* The shard's first answers will never be saved: the job that was to do it
\* died there, and whoever resumes from the result starts behind them.
Lost(s) ==
    \/ Spoilt(s)
    \/ /\ opt.gens /\ gens[s] = NoGens
       /\ out[s].file /\ out[s].done > 0
       /\ ~FirstAnswersDue(s)

\* A job that is launched finds the shard complete and returns at once.
Closed(s) == job[s] = NoJob /\ Total(s) > 0 /\ Resume(s).done >= Total(s)

\* Checkpoint, seen in the files: what a shard owes are its questions.
Ckpt == INSTANCE Checkpoint WITH Question <- Nat,
                                 owed   <- [s \in Shard |-> ToSet(Ids(s))],
                                 step   <- opt.chunk,
                                 saved  <- [s \in Shard |-> Saved(s)],
                                 lost   <- [s \in Shard |-> Lost(s)],
                                 closed <- [s \in Shard |-> Closed(s)]

\* "pick up where it stopped so a wall-kill/crash loses no work": whatever
\* kills the jobs, no question that has a saved answer loses it, answers are
\* saved a chunk at a time, and a shard is not given up before each of its
\* questions has one.  Shards killed between their first result and their
\* first answers are excepted, for which the quoted comment does not hold:
\* what such a shard saves afterwards is kept, but it misses its beginning.
ImplementsCheckpoint == Ckpt!Spec

Complete(s) == out[s].file /\ out[s].done = Total(s)

\* Both files of a shard count each of its questions once, and tell of the
\* same ones but for the last chunk.
FilesExact == TypeOK /\ ResultExact /\ FilesAgree

\* However often jobs are killed, every task's result is complete in the end,
\* or its answers file spoilt; and if no shard is spoilt or without questions,
\* the combine that requires completeness accepts.
RunIsCombined ==
    <>(/\ \A s \in Tasks : Complete(s) \/ Spoilt(s)
       /\ \/ combined.ok /\ combined.require /\ combined.of = 0..(opt.shards - 1)
          \/ \E s \in 0..(opt.shards - 1) : Spoilt(s) \/ Total(s) = 0)

=============================================================================
