----------------------------- MODULE Exploration -----------------------------
(***************************************************************************)
(* The replay half of DreamNet as operators on values: the discovery tree  *)
(* (models.py), the environment that grows it (environment.py), the policy *)
(* that selects what to look at next (policy.py), and one iteration of the *)
(* two loops around it, online (rollout.py) and on a recorded tree         *)
(* (replay.py).                                                            *)
(*                                                                         *)
(* A node's id is the number of its creation, 0 for the root, so the order *)
(* of ids is that of the strings "n001", "n002", ... that the code sorts.  *)
(* A branch is its position in the incident's branch_order.  Scores and    *)
(* policy parameters are in hundredths.                                    *)
(***************************************************************************)
EXTENDS Integers, Sequences, FiniteSets

CONSTANTS
  Branches,    \* length of branch_order
  MaxRounds    \* max_rounds of both loops

ASSUME SizesAssumption == Branches \in Nat /\ MaxRounds \in Nat

Root == 0
MaxDepth == 3

MaxOf(S) == CHOOSE m \in S : \A s \in S : s <= m
MinOf(S) == CHOOSE m \in S : \A s \in S : m <= s

-----------------------------------------------------------------------------
(* The tree: node n is tree[n]; the root is in no tree.                    *)

ChildrenOf(tree, p) == {n \in DOMAIN tree : tree[n].parent = p}

LeavesAll(tree, revealed) ==      \* mutant: children not visible count, too
  {n \in revealed \ {Root} : ChildrenOf(tree, n) = {}}

Leaves(tree, revealed) ==
  {n \in revealed \ {Root} : ChildrenOf(tree, n) \cap revealed = {}}

ScoreOf(tree, n) == IF n = Root THEN 0 ELSE tree[n].score

BestScore(tree, revealed) == MaxOf({ScoreOf(tree, n) : n \in revealed})

-----------------------------------------------------------------------------
(* The environment: the fault is on branch `target'.                       *)

Unopened(tree) == 1..Branches \ {tree[n].branch : n \in ChildrenOf(tree, Root)}

CanExpand(tree, p) ==
  IF p = Root THEN Unopened(tree) # {} ELSE tree[p].depth < MaxDepth

NodeScore(target, branch, depth) ==
  IF branch = target THEN <<48, 78, 100>>[depth] ELSE <<10, 16, 20>>[depth]

Expanded(target, tree, p) ==
  LET branch == IF p = Root THEN MinOf(Unopened(tree)) ELSE tree[p].branch
      depth  == IF p = Root THEN 1 ELSE tree[p].depth + 1
  IN  [parent |-> p, branch |-> branch, depth |-> depth,
       score |-> NodeScore(target, branch, depth),
       diagnosed |-> branch = target /\ depth = MaxDepth]

-----------------------------------------------------------------------------
(* A run: the code's RunResult with the policy's state.                    *)

StartRun(tree) ==
  [tree |-> tree, revealed |-> {Root}, rounds |-> << >>,
   last_best |-> 0, stalled |-> 0, reason |-> "running"]

Running(run) == run.reason = "running"
Requests(run) == Cardinality(run.revealed \ {Root})

\* Every call of select notes first whether the best score has improved.
Observed(run) ==
  LET best == BestScore(run.tree, run.revealed)
  IN  [run EXCEPT !.last_best = best,
                  !.stalled = IF best > run.last_best THEN 0 ELSE @ + 1]

StopsByScore(cfg, run) ==         \* mutant: no budget
  run.last_best >= cfg.stop_threshold

Stops(cfg, run) ==
  \/ run.last_best >= cfg.stop_threshold
  \/ Requests(run) >= cfg.max_nodes

RootChildren(run) == Cardinality(ChildrenOf(run.tree, Root) \cap run.revealed)

\* 10^4 times the value the code computes.
NodeValue(cfg, node) ==
    cfg.evidence_weight * node.score
  - 100 * cfg.depth_penalty * node.depth
  + (IF node.score >= cfg.refine_threshold THEN 3500 ELSE 0)

Priority(cfg, run, n) ==
  IF n = Root
  THEN   100 * cfg.root_priority
       + (IF RootChildren(run) < cfg.min_branches THEN 10000 ELSE 0)
       + (IF cfg.open_after_stall /\ run.stalled > 0 THEN 2500 ELSE 0)
  ELSE NodeValue(cfg, run.tree[n])

CandidatesShallow(cfg, run) ==    \* mutant: off by one in the depth
  {[id |-> n, value |-> Priority(cfg, run, n)] :
     n \in {m \in Leaves(run.tree, run.revealed) : run.tree[m].depth < MaxDepth - 1}
            \cup (IF RootChildren(run) < cfg.max_branches THEN {Root} ELSE {})}

\* The code's list of pairs (value, node_id), unsorted.
Candidates(cfg, run) ==
  {[id |-> n, value |-> Priority(cfg, run, n)] :
     n \in {m \in Leaves(run.tree, run.revealed) : run.tree[m].depth < MaxDepth}
            \cup (IF RootChildren(run) < cfg.max_branches THEN {Root} ELSE {})}

\* The sort: higher value first; of equal ones the root, then by id.
Ahead(S, c) == {d \in S : d.value > c.value \/ (d.value = c.value /\ d.id < c.id)}

Rank(S, c) == Cardinality(Ahead(S, c))

Selected(cfg, run) ==
  IF Stops(cfg, run) THEN {}
  ELSE LET all == Candidates(cfg, run) IN {c \in all : Rank(all, c) < cfg.workers}

-----------------------------------------------------------------------------
(* One iteration of online_rollout.                                        *)

GrownUnseen(target, run, chosen) ==    \* mutant: new nodes are not revealed
  LET size == Len(run.tree)
      new  == [k \in 1..Cardinality(chosen) |->
                 LET c == CHOOSE c \in chosen : Rank(chosen, c) = k - 1
                 IN  Expanded(target, run.tree, c.id)]
  IN  [run EXCEPT !.tree = @ \o new, !.rounds = Append(@, size + 1 .. size + Len(new))]

\* The new nodes get their ids in the order of selection.
Grown(target, run, chosen) ==
  LET size == Len(run.tree)
      new  == [k \in 1..Cardinality(chosen) |->
                 LET c == CHOOSE c \in chosen : Rank(chosen, c) = k - 1
                 IN  Expanded(target, run.tree, c.id)]
  IN  [run EXCEPT !.tree = @ \o new,
                  !.revealed = @ \cup (size + 1 .. size + Len(new)),
                  !.rounds = Append(@, size + 1 .. size + Len(new))]

RolloutRound(cfg, target, run) ==
  LET seen    == Observed(run)
      chosen  == Selected(cfg, seen)
      able    == {c \in chosen : CanExpand(seen.tree, c.id)}
  IN  IF Len(run.rounds) = MaxRounds THEN [run EXCEPT !.reason = "round_limit"]
      ELSE IF chosen = {} THEN [seen EXCEPT !.reason = "policy_stop"]
      ELSE IF able = {} THEN [seen EXCEPT !.reason = "exhausted"]
      ELSE Grown(target, seen, able)

-----------------------------------------------------------------------------
(* One iteration of replay_tree.                                           *)

Hidden(run, p) == ChildrenOf(run.tree, p) \ run.revealed

RevealingUncounted(run, chosen) ==    \* mutant: the round is not recorded
  [run EXCEPT !.revealed = @ \cup {MinOf(Hidden(run, c.id)) : c \in chosen}]

RevealingLast(run, chosen) ==          \* mutant: the latest child first
  LET new == {MaxOf(Hidden(run, c.id)) : c \in chosen}
  IN  [run EXCEPT !.revealed = @ \cup new, !.rounds = Append(@, new)]

Revealing(run, chosen) ==
  LET new  == {MinOf(Hidden(run, c.id)) : c \in chosen}
      next == [run EXCEPT !.revealed = @ \cup new, !.rounds = Append(@, new)]
  IN  IF next.revealed = {Root} \cup DOMAIN run.tree
      THEN [next EXCEPT !.reason = "fully_revealed"] ELSE next

ReplayRound(cfg, run) ==
  LET seen    == Observed(run)
      chosen  == Selected(cfg, seen)
      able    == {c \in chosen : Hidden(seen, c.id) # {}}
  IN  IF Len(run.rounds) = MaxRounds THEN [run EXCEPT !.reason = "round_limit"]
      ELSE IF chosen = {} THEN [seen EXCEPT !.reason = "policy_stop"]
      ELSE IF able = {} THEN [seen EXCEPT !.reason = "exhausted"]
      ELSE Revealing(seen, able)
=============================================================================
