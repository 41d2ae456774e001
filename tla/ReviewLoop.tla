----------------------------- MODULE ReviewLoop -----------------------------
(***************************************************************************)
(* The review loop of a playbook gate: tools/review_loop/review_loop.py.   *)
(* An executor works on the gate, a reviewer (an agent, or a person) ends  *)
(* its review with a verdict block, in its output or in a review file, and *)
(* the loop goes on until PASS, until a user must decide, or until its     *)
(* rounds are used up.  Either agent may time out, which ends the run      *)
(* without a ledger; the loop is then run again over the files of the run  *)
(* before.                                                                 *)
(*                                                                         *)
(* A review is its verdict block (or that it has none) and, as a ghost,    *)
(* the run and round it was written in.  Its findings are left out.        *)
(***************************************************************************)
EXTENDS Integers, Sequences

CONSTANTS
    MaxIterations, \* loop.max_iterations
    MaxRuns        \* bound: runs of the loop

ASSUME ReviewLoopAssumption ==
    MaxIterations \in Nat \ {0} /\ MaxRuns \in Nat \ {0}

\* Where reviewer.review_output lets the reviewer write: nowhere, one file, or
\* one for each round (its template names {round}).
Outputs == {"none", "one", "per round"}

Statuses == {"PASS", "FAIL", "SURFACE"}

\* What a review holds: no block, one that is not JSON, one with another
\* status, or a verdict, which may ask for a user decision besides.
Blocks ==
    [kind : {"no block", "malformed", "invalid"}, surface : {FALSE}]
    \cup [kind : Statuses, surface : BOOLEAN]

VARIABLES
    opt,      \* review_output, whether the reviewer is a person, at a terminal
              \* or not, and whether REVIEW_LOOP_ENABLE is set
    run,      \* the run of the loop, from 1
    step,     \* the step the loop is at
    rnd,      \* its round
    output,   \* the reviewer's output in this round
    files,    \* the review files, by round (0 for the one file)
    feedback, \* last_review
    rounds,   \* the entries of this run's ledger and audit trail
    ledger,   \* ledger.json
    trail,    \* audit_trail.md
    exit      \* how the last run has ended

loopVars == <<opt, run, step, rnd, output, files, feedback, rounds, ledger, trail, exit>>

Nothing == [kind |-> "nothing"]

Review(b, r, i) == [kind |-> b.kind, surface |-> b.surface, run |-> r, round |-> i]

FileOf(i) == IF opt.output = "one" THEN 0 ELSE i

ReviewFile == IF opt.output = "none" THEN Nothing ELSE files[FileOf(rnd)]

-----------------------------------------------------------------------------
(* The verdict. *)

HasBlock(review) == review.kind \notin {"nothing", "no block"}

\* Mutant: the review file is read before the reviewer's output.
VerdictFromFileFirst ==
    IF HasBlock(ReviewFile) THEN ReviewFile ELSE output

\* parse_verdict() takes the first block, of the output, then of the file.
VerdictFrom ==
    IF HasBlock(output) THEN output ELSE ReviewFile

\* A block that cannot be understood, or none, is for the user to decide.
Status(review) ==
    IF review.kind \in Statuses THEN review.kind ELSE "SURFACE"

AsksUser(review) == review.kind \in Statuses /\ review.surface

-----------------------------------------------------------------------------
(* A run. *)

\* loop() of an automation that is off says so and touches nothing.
Disabled ==
    /\ ~opt.enabled /\ step = "off" /\ run < MaxRuns
    /\ run' = run + 1 /\ exit' = "2"
    /\ UNCHANGED <<opt, step, rnd, output, files, feedback, rounds, ledger, trail>>

\* Mutant: the ledger goes on from the run before.
StartKeepsRounds ==
    /\ opt.enabled /\ step = "off" /\ run < MaxRuns
    /\ run' = run + 1 /\ step' = "execute" /\ rnd' = 1
    /\ feedback' = Nothing /\ exit' = "running"
    /\ UNCHANGED <<opt, output, files, rounds, ledger, trail>>

Start ==
    /\ opt.enabled /\ step = "off" /\ run < MaxRuns
    /\ run' = run + 1 /\ step' = "execute" /\ rnd' = 1
    /\ rounds' = <<>> /\ feedback' = Nothing /\ exit' = "running"
    /\ UNCHANGED <<opt, output, files, ledger, trail>>

\* The executor's output is saved and not read; its exit code is not asked.
Execute ==
    /\ step = "execute" /\ step' = "review"
    /\ UNCHANGED <<opt, run, rnd, output, files, feedback, rounds, ledger, trail, exit>>

\* Mutant: a review without a block is asked for again.
ReviewByAgentAgain ==
    /\ step = "review" /\ opt.reviewer = "agent"
    /\ \E b \in Blocks :
          /\ output' = Review(b, run, rnd)
          /\ step' = IF b.kind = "no block" THEN "execute" ELSE "parse"
    /\ UNCHANGED <<opt, run, rnd, files, feedback, rounds, ledger, trail, exit>>

\* The reviewer prints something, and may write its file, whatever the exit
\* code of its command.
ReviewByAgent ==
    /\ step = "review" /\ opt.reviewer = "agent" /\ step' = "parse"
    /\ \E b \in Blocks : output' = Review(b, run, rnd)
    /\ \/ UNCHANGED files
       \/ /\ opt.output # "none"
          /\ \E b \in Blocks : files' = [files EXCEPT ![FileOf(rnd)] = Review(b, run, rnd)]
    /\ UNCHANGED <<opt, run, rnd, feedback, rounds, ledger, trail, exit>>

\* _human_turn(): whatever a person types makes a block; without a terminal it
\* asks for the user.
ReviewByHuman ==
    /\ step = "review" /\ opt.reviewer # "agent" /\ step' = "parse"
    /\ \E b \in Blocks :
          /\ b.kind \notin {"no block", "malformed"} /\ ~b.surface
          /\ opt.reviewer = "no terminal" => b.kind = "SURFACE"
          /\ output' = Review(b, run, rnd)
    /\ UNCHANGED <<opt, run, rnd, files, feedback, rounds, ledger, trail, exit>>

\* The round is entered in the ledger and the trail, and the trail written.
Parse ==
    /\ step = "parse" /\ step' = "decide"
    /\ rounds' = Append(rounds, [round |-> rnd, status |-> Status(VerdictFrom)])
    /\ trail' = [run |-> run, rounds |-> rounds', outcome |-> "open"]
    /\ UNCHANGED <<opt, run, rnd, output, files, feedback, ledger, exit>>

\* Mutant: a FAIL that asks for a user decision goes round again.
OutcomeIgnoresSurface ==
    IF Status(VerdictFrom) \in {"PASS", "SURFACE"} THEN Status(VerdictFrom) ELSE "none"

\* What the verdict decides by itself.  PASS is tested first (line 234), so that
\* a PASS that asks for the user is accepted like any other, against the
\* docstring ("or surface: true", line 26) and the reviewer's prompt.
Outcome ==
    IF Status(VerdictFrom) = "PASS" THEN "PASS"
    ELSE IF Status(VerdictFrom) = "SURFACE" \/ AsksUser(VerdictFrom) THEN "SURFACE"
    ELSE "none"

\* Mutant: one round more than max_iterations.
EndsOneMore ==
    IF Outcome # "none" THEN Outcome
    ELSE IF rnd <= MaxIterations THEN "none" ELSE "SURFACE"

\* What the run ends with after this round, if it ends.
Ends ==
    IF Outcome # "none" THEN Outcome
    ELSE IF rnd < MaxIterations THEN "none" ELSE "SURFACE"

\* Mutant: the verdict's own text is fed back even when there is a file, and
\* one round late.
ConcludeFeedsLate ==
    /\ step = "decide"
    /\ \/ /\ Ends = "none" /\ step' = "execute" /\ rnd' = rnd + 1
          /\ feedback' = (IF rnd = 1 THEN Nothing ELSE output)
       \/ Ends # "none" /\ step' = "finish" /\ UNCHANGED <<rnd, feedback>>
    /\ UNCHANGED <<opt, run, output, files, rounds, ledger, trail, exit>>

\* The run ends, or the review, the file's if there is one, is fed back.
Conclude ==
    /\ step = "decide"
    /\ \/ /\ Ends = "none" /\ step' = "execute" /\ rnd' = rnd + 1
          /\ feedback' = (IF ReviewFile # Nothing THEN ReviewFile ELSE output)
       \/ Ends # "none" /\ step' = "finish" /\ UNCHANGED <<rnd, feedback>>
    /\ UNCHANGED <<opt, run, output, files, rounds, ledger, trail, exit>>

\* _finish() writes the ledger,
WriteLedger ==
    /\ step = "finish" /\ step' = "close"
    /\ ledger' = [run |-> run, rounds |-> rounds, outcome |-> Ends]
    /\ UNCHANGED <<opt, run, rnd, output, files, feedback, rounds, trail, exit>>

\* Mutant: whatever does not surface by its verdict exits with 0.
WriteTrailExitsZero ==
    /\ step = "close" /\ step' = "off"
    /\ trail' = [run |-> run, rounds |-> rounds, outcome |-> Ends]
    /\ exit' = (IF Outcome = "SURFACE" THEN "2" ELSE "0")
    /\ UNCHANGED <<opt, run, rnd, output, files, feedback, rounds, ledger>>

\* then the trail with its outcome; the process exits with 0 on PASS.
WriteTrail ==
    /\ step = "close" /\ step' = "off"
    /\ trail' = [run |-> run, rounds |-> rounds, outcome |-> Ends]
    /\ exit' = (IF Ends = "PASS" THEN "0" ELSE "2")
    /\ UNCHANGED <<opt, run, rnd, output, files, feedback, rounds, ledger>>

\* An agent runs into its timeout, a prompt or a file cannot be read, or the
\* user interrupts: nothing is written.
Raise ==
    /\ step # "off" /\ step' = "off"
    /\ exit' = "raised"
    /\ UNCHANGED <<opt, run, rnd, output, files, feedback, rounds, ledger, trail>>

LoopInit ==
    /\ opt \in [output : Outputs, reviewer : {"agent", "person", "no terminal"},
                enabled : BOOLEAN]
    /\ run = 0 /\ step = "off" /\ rnd = 0
    /\ output = Nothing /\ files = [i \in 0..MaxIterations |-> Nothing]
    /\ feedback = Nothing /\ rounds = <<>>
    /\ ledger = Nothing /\ trail = Nothing /\ exit = "none"

Agent == Execute \/ ReviewByAgent \/ Parse \/ Conclude \/ WriteLedger \/ WriteTrail

LoopNext == Disabled \/ Start \/ Agent \/ ReviewByHuman \/ Raise

LoopSpec == LoopInit /\ [][LoopNext]_loopVars

\* An agent answers or runs into its timeout (timeout_s); a person need not.
FairSpec == LoopSpec /\ WF_loopVars(Agent \/ (Raise /\ opt.reviewer = "agent"))

-----------------------------------------------------------------------------
(* Correctness. *)

Entry == [round : 1..MaxIterations, status : Statuses]

LoopTypeOK ==
    /\ run \in 0..MaxRuns
    /\ step \in {"off", "execute", "review", "parse", "decide", "finish", "close"}
    /\ rnd \in 0..MaxIterations
    /\ \A i \in 1..Len(rounds) : rounds[i] \in Entry
    /\ \A f \in {ledger, trail} : f # Nothing =>
          f.run \in 1..run /\ f.outcome \in {"open", "PASS", "SURFACE"}
    /\ exit \in {"none", "running", "raised", "0", "2"}

\* A gate is passed only on a reviewer's PASS, one that asks for the user as
\* well included; and when the reviewer's output has a verdict, or there is no
\* review file, on one given for this round of this run.
PassIsGiven ==
    step = "close" /\ Ends = "PASS" =>
        /\ VerdictFrom.kind = "PASS"
        /\ HasBlock(output) \/ opt.output = "none" =>
               VerdictFrom.run = run /\ VerdictFrom.round = rnd
        /\ opt.output = "per round" => VerdictFrom.round = rnd

\* The user is asked in the other cases: by SURFACE or surface: true in a block
\* that is not a PASS, by a block that cannot be read, and after the last round;
\* a PASS is what the code keeps from the user against its docstring.
UserIsAsked ==
    step = "close" =>
        (Ends = "SURFACE" <=>
            /\ VerdictFrom.kind # "PASS"
            /\ \/ VerdictFrom.kind # "FAIL" \/ VerdictFrom.surface
               \/ rnd = MaxIterations)

\* The ledger and the trail tell one story: entries for rounds 1, 2, ... of one
\* run, of which only the last can be other than FAIL.  The trail is never of
\* an earlier run than the ledger; of the same run, both have the same rounds;
\* of a later one (that run died), the trail claims no outcome.
FilesTellOneStory ==
    /\ \A f \in {ledger, trail} : f # Nothing =>
          \A i \in 1..Len(f.rounds) :
              /\ f.rounds[i].round = i
              /\ i < Len(f.rounds) => f.rounds[i].status = "FAIL"
    /\ ledger # Nothing =>
          /\ trail # Nothing /\ trail.run >= ledger.run
          /\ IF trail.run = ledger.run
             THEN trail.rounds = ledger.rounds /\ trail.outcome \in {"open", ledger.outcome}
             ELSE trail.outcome = "open"

\* The exit code and the ledger agree: 0 with the PASS of this run, 2 with
\* its SURFACE.  A run that dies before it writes leaves the older ledger in
\* place, but not under the number of this run.
ExitTellsLedger ==
    step = "off" /\ opt.enabled /\ exit \in {"0", "2"} =>
        /\ ledger.run = run
        /\ ledger.outcome = IF exit = "0" THEN "PASS" ELSE "SURFACE"

\* A verdict the loop could not read, and one that asks for the user, ends the
\* run: the round after is begun only on a FAIL that this round's reviewer, or
\* its review file, gives without asking for the user.
OnlyFailGoesOn ==
    [][step = "decide" /\ step' = "execute" =>
          VerdictFrom.kind = "FAIL" /\ ~VerdictFrom.surface]_loopVars

\* The executor of a later round is given the review of the round before, when
\* there is no review file that an earlier run, or round, can have left.
FeedbackIsLast ==
    step = "execute" /\ rnd > 1 /\ opt.output = "none" =>
        feedback # Nothing /\ feedback.run = run /\ feedback.round = rnd - 1

\* Every run of an automated reviewer ends, within its rounds.
RunEnds == opt.reviewer = "agent" => [](step # "off" => <>(step = "off"))

\* The loop ends as passed, asks the user, or goes on, on a verdict that says so,
\* where a PASS outweighs its own request for the user.
VerdictIsObeyed == [](PassIsGiven /\ UserIsAsked) /\ OnlyFailGoesOn

\* Ledger, trail, exit code and the feedback of the next round are of the
\* same run and the same rounds.
RecordsAgree == LoopTypeOK /\ FilesTellOneStory /\ ExitTellsLedger /\ FeedbackIsLast

=============================================================================
