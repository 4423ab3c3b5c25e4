------------------------------ MODULE MCSearch ------------------------------
(***************************************************************************)
(* The search from the fixed policy (policy.py), over five of the ten      *)
(* parameters, each with the values of optimizer.py at the ends of its     *)
(* list.                                                                   *)
(***************************************************************************)
EXTENDS PolicyEvaluation

MCInitial ==
  [workers |-> 3, min_branches |-> 6, max_branches |-> 6, max_nodes |-> 18,
   refine_threshold |-> 0, stop_threshold |-> 101, root_priority |-> 65,
   depth_penalty |-> 0, evidence_weight |-> 100, open_after_stall |-> TRUE]

MCLists ==
  [workers |-> {1, 4}, min_branches |-> {1}, max_branches |-> {3},
   max_nodes |-> {15}, stop_threshold |-> {76, 99}]

MCKeys == DOMAIN MCLists
=============================================================================
