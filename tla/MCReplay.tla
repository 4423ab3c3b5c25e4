------------------------------ MODULE MCReplay ------------------------------
(***************************************************************************)
(* The policies the program has (policy.py, models.py, the learned one of  *)
(* artifacts/demo) and combinations of what optimizer.py mutates, at both  *)
(* ends of its lists.                                                      *)
(***************************************************************************)
EXTENDS Replay

Policy(workers, min, max, nodes, refine, stop, root, penalty, weight, open) ==
  [workers |-> workers, min_branches |-> min, max_branches |-> max,
   max_nodes |-> nodes, refine_threshold |-> refine, stop_threshold |-> stop,
   root_priority |-> root, depth_penalty |-> penalty,
   evidence_weight |-> weight, open_after_stall |-> open]

FixedParallel == Policy(3, 6, 6, 18, 0, 101, 65, 0, 100, TRUE)
Default == Policy(3, 3, 6, 16, 30, 92, 40, 4, 100, TRUE)
Learned == Policy(1, 1, 6, 18, 55, 99, 45, 0, 125, FALSE)

Mutated ==
  [workers : {1, 2, 4}, min_branches : {1}, max_branches : {3, 6},
   max_nodes : {6, 15}, refine_threshold : {10, 47}, stop_threshold : {76, 101},
   root_priority : {15}, depth_penalty : {8}, evidence_weight : {80},
   open_after_stall : {TRUE}]

MCPolicies == Mutated \cup {FixedParallel, Default, Learned}

\* What decides how a policy ranks nodes: the policies of the program and all
\* that mutation makes of them (optimizer.py:27-31).
Rankings ==
  [evidence_weight : {80, 100, 125, 150}, depth_penalty : {0, 2, 4, 5, 8, 12},
   refine_threshold : {0, 10, 20, 30, 40, 47, 55}]

\* Theorem ReplayStaysHonest is about all of them.
ASSUME RankingsTellApart ==
  \A cfg \in MCPolicies \cup Rankings : TellsApart(cfg)

\* Property SafeButExpensive is about the fixed policy.
ASSUME FixedLeavesNothingOut == Exhaustive(FixedParallel)
=============================================================================
