------------------------------- MODULE Replay -------------------------------
(***************************************************************************)
(* One policy explores an incident online, another one replays the tree    *)
(* that was recorded, and then explores the same incident online by        *)
(* itself.  The last run is what the replay stands for: "Replay must       *)
(* reveal only recorded outcomes; it must not fabricate counterfactual     *)
(* observations" (CONTRIBUTING.md).                                        *)
(***************************************************************************)
EXTENDS Exploration

CONSTANT Policies    \* the configurations in use

ASSUME PoliciesAssumption ==
  \A cfg \in Policies :
    /\ cfg.workers \in Nat \ {0} /\ cfg.max_nodes \in Nat \ {0}
    /\ cfg.min_branches \in Nat /\ cfg.max_branches \in Nat
    /\ cfg.refine_threshold \in Int /\ cfg.stop_threshold \in Int
    /\ cfg.root_priority \in Int /\ cfg.depth_penalty \in Int
    /\ cfg.evidence_weight \in Int /\ cfg.open_after_stall \in BOOLEAN

VARIABLES
  target,      \* the branch of the fault
  recorder,    \* the policy that recorded the tree
  learner,     \* the policy that is replayed on it
  recorded,    \* online run of the recorder
  replayed,    \* replay of the learner
  own          \* online run of the learner

vars == <<target, recorder, learner, recorded, replayed, own>>

Init ==
  /\ target \in 1..Branches
  /\ recorder \in Policies
  /\ learner \in Policies
  /\ recorded = StartRun(<< >>)
  /\ replayed = [StartRun(<< >>) EXCEPT !.reason = "waiting"]
  /\ own = StartRun(<< >>)

Record ==
  /\ Running(recorded)
  /\ recorded' = RolloutRound(recorder, target, recorded)
  /\ UNCHANGED <<target, recorder, learner, replayed, own>>

BeginReplay ==
  /\ ~Running(recorded)
  /\ replayed.reason = "waiting"
  /\ replayed' = StartRun(recorded.tree)
  /\ UNCHANGED <<target, recorder, learner, recorded, own>>

ReplayOnce ==
  /\ Running(replayed)
  /\ replayed' = ReplayRound(learner, replayed)
  /\ UNCHANGED <<target, recorder, learner, recorded, own>>

Explore ==
  /\ ~Running(recorded) /\ replayed.reason # "waiting" /\ ~Running(replayed)
  /\ Running(own)
  /\ own' = RolloutRound(learner, target, own)
  /\ UNCHANGED <<target, recorder, learner, recorded, replayed>>

Next == Record \/ BeginReplay \/ ReplayOnce \/ Explore

Spec == Init /\ [][Next]_vars

-----------------------------------------------------------------------------
Reasons == {"running", "policy_stop", "exhausted", "round_limit"}

Node ==
  [parent : Nat, branch : 1..Branches, depth : 1..MaxDepth,
   score : 0..100, diagnosed : BOOLEAN]

\* A run is over nodes of its tree, and an online run over all of them.
RunOK(run) ==
  /\ run.tree \in Seq(Node)
  /\ \A n \in DOMAIN run.tree : run.tree[n].parent \in 0..n - 1
  /\ Root \in run.revealed /\ run.revealed \subseteq {Root} \cup DOMAIN run.tree
  /\ run.last_best \in 0..100 /\ run.stalled \in Nat
  /\ \A k \in 1..Len(run.rounds) : run.rounds[k] \subseteq DOMAIN run.tree

TypeOK ==
  /\ target \in 1..Branches /\ recorder \in Policies /\ learner \in Policies
  /\ \A run \in {recorded, replayed, own} : RunOK(run)
  /\ \A run \in {recorded, own} :
       run.reason \in Reasons /\ run.revealed = 0..Len(run.tree)
  /\ replayed.reason \in Reasons \cup {"waiting", "fully_revealed"}

\* The budget is looked at before a round and a round adds up to `workers'
\* nodes (policy.py:34, 58): it is exceeded by less than one round.
Budgeted(run, cfg) == Requests(run) < cfg.max_nodes + cfg.workers

BudgetKept ==
  /\ Budgeted(recorded, recorder)
  /\ Budgeted(replayed, learner)
  /\ Budgeted(own, learner)

\* The rounds divide what was revealed: each shows something new, no more than
\* the workers can look at, and nothing is counted twice or left out of them
\* (score_result divides by their number).  So every run ends, at the latest
\* by the limit on rounds.
Partitioned(run, cfg) ==
  /\ UNION {run.rounds[k] : k \in 1..Len(run.rounds)} = run.revealed \ {Root}
  /\ Len(run.rounds) <= MaxRounds
  /\ \A k \in 1..Len(run.rounds) :
       /\ run.rounds[k] # {}
       /\ Cardinality(run.rounds[k]) <= cfg.workers
       /\ \A j \in 1..k - 1 : run.rounds[j] \cap run.rounds[k] = {}

RoundsPartition ==
  /\ Partitioned(recorded, recorder)
  /\ Partitioned(replayed, learner)
  /\ Partitioned(own, learner)

\* Nothing is looked at before what it follows from: with a node, its parent
\* is revealed, and branches are opened in the order of the incident.
InOrder(run) ==
  \A n \in run.revealed \ {Root} :
    /\ run.tree[n].parent \in run.revealed
    /\ run.tree[n].parent = Root =>
         {m \in ChildrenOf(run.tree, Root) : m < n} \subseteq run.revealed

LooksInOrder == InOrder(recorded) /\ InOrder(replayed) /\ InOrder(own)

\* The two kinds of nodes that can be refined, on the branch of the fault and
\* off it, at each depth.
Refinable ==
  {[depth |-> d, score |-> NodeScore(1, b, d)] : b \in 1..2, d \in 1..MaxDepth - 1}

\* A condition on a policy: nodes that differ get different values.  (At the
\* first depth ties are harmless: branches are opened in one order.)
TellsApart(cfg) ==
  \A a, b \in Refinable :
    NodeValue(cfg, a) = NodeValue(cfg, b) => a.depth = b.depth /\ (a.depth = 1 \/ a = b)

\* What a round looked at, whatever ids the nodes have in its tree.
Looked(run, k) ==
  {<<run.tree[n].branch, run.tree[n].depth>> : n \in run.rounds[k]}

SameRound(a, b, k) ==
  /\ k \in DOMAIN a.rounds /\ k \in DOMAIN b.rounds
  /\ Looked(a, k) = Looked(b, k)

\* A replay is honest: where it first departs from what the policy would have
\* done online, it shows a part of that round.  It departs by what was not
\* recorded, never by another choice, although ids differ in the two trees and
\* ties go by id.  And if it departs nowhere, the run ends where and why the
\* online one does, unless everything or nothing more was recorded.
ReplayIsHonest ==
  ~Running(own) =>
    /\ \A k \in DOMAIN replayed.rounds :
         (\A j \in 1..k - 1 : SameRound(replayed, own, j)) =>
           k \in DOMAIN own.rounds /\ Looked(replayed, k) \subseteq Looked(own, k)
    /\ (/\ \A k \in DOMAIN replayed.rounds : SameRound(replayed, own, k)
        /\ replayed.reason \notin {"exhausted", "fully_revealed"})
       => Len(own.rounds) = Len(replayed.rounds) /\ own.reason = replayed.reason

\* The policy that recorded a tree sees in the replay what it saw online,
\* round by round, and all of it.
ReplayReproduces ==
  (learner = recorder /\ ~Running(own)) =>
    /\ replayed.rounds = recorded.rounds
    /\ replayed.revealed = recorded.revealed
    /\ replayed.reason \in {recorded.reason, "fully_revealed"}

\* A policy that leaves nothing out: no score and no budget stops it, it opens
\* every branch and no other, and it has the rounds for that.  A round with a
\* worker to spare looks at all there is to look at, so the k-th such round has
\* opened k branches: there are at most Branches + MaxDepth - 1 of them.
Exhaustive(cfg) ==
  /\ cfg.stop_threshold > 100
  /\ cfg.max_nodes >= MaxDepth * Branches
  /\ cfg.max_branches = Branches
  /\ MaxDepth * Branches + (cfg.workers - 1) * (Branches + MaxDepth - 1)
       < cfg.workers * MaxRounds

\* The fixed policy is "deliberately safe" (policy.py:62): a policy like it
\* finds every fault, and every replay on its trees is the online run of the
\* policy replayed, to the last round.
SafeButExpensive ==
  (Exhaustive(recorder) /\ ~Running(own)) =>
    /\ \E n \in recorded.revealed \ {Root} : recorded.tree[n].diagnosed
    /\ \A k \in DOMAIN replayed.rounds \cup DOMAIN own.rounds : SameRound(replayed, own, k)
=============================================================================
