-------------------------- MODULE PolicyEvaluation --------------------------
(***************************************************************************)
(* What the search optimises: the initial policy explores the training     *)
(* incidents online, and a candidate is worth what its replays on the      *)
(* recorded trees score (evaluate_policy, score_result).                   *)
(***************************************************************************)
EXTENDS PolicySearch, Exploration
LOCAL INSTANCE SequencesExt
LOCAL INSTANCE FiniteSetsExt

CONSTANT Train         \* branches of the faults of the training incidents

\* A multiple of every number of rounds a run can have.
Common == 27720
ASSUME \A n \in 1..MaxRounds : Common % n = 0

-----------------------------------------------------------------------------
\* The loops of online_rollout and replay_tree: one more pass than rounds.
Repeat(Round(_), run) ==
  FoldLeft(LAMBDA r, k : IF Running(r) THEN Round(r) ELSE r, run,
           [k \in 1..MaxRounds + 1 |-> k])

Rollout(cfg, target) ==
  Repeat(LAMBDA run : RolloutRound(cfg, target, run), StartRun(<< >>))

ReplayOf(cfg, tree) == Repeat(LAMBDA run : ReplayRound(cfg, run), StartRun(tree))

ValueOfTree(run) ==           \* mutant: best node of the tree, revealed or not
  LET requests == Requests(run)
  IN  Common * (10 * BestScore(run.tree, DOMAIN run.tree) - 25 * requests)
        + 10 * requests * (Common \div MaxOf({1, Len(run.rounds)}))

\* score_result: best - 0.025 requests + 0.01 requests / rounds, in
\* thousandths of 1/Common.
Value(run) ==
  LET requests == Requests(run)
  IN  Common * (10 * BestScore(run.tree, run.revealed) - 25 * requests)
        + 10 * requests * (Common \div MaxOf({1, Len(run.rounds)}))

Correct(run) == \E n \in run.revealed \ {Root} : run.tree[n].diagnosed

Recorded == [t \in Train |-> Rollout(Initial, t).tree]

\* evaluate_policy: the mean over the training trees, times their number; and
\* what the same policy gets of exploring these incidents itself.
ReplayObjective(cfg) ==
  MapThenSumSet(LAMBDA t : Value(ReplayOf(cfg, Recorded[t])), Train)
RolloutObjective(cfg) == MapThenSumSet(LAMBDA t : Value(Rollout(cfg, t)), Train)

DiagnosesAll(cfg) == \A t \in Train : Correct(ReplayOf(cfg, Recorded[t]))
=============================================================================
