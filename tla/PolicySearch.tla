---------------------------- MODULE PolicySearch ----------------------------
(***************************************************************************)
(* The evolutionary search of optimizer.py: candidates are mutated from    *)
(* recent elites, judged by an objective, and one that is strictly better  *)
(* than the best so far becomes the best and an elite.  The objective is a *)
(* CONSTANT; PolicyEvaluation gives the one of the program.                *)
(***************************************************************************)
EXTENDS Integers, Sequences, FiniteSets

CONSTANTS
  Initial,             \* the policy that records and that the search starts from
  Keys,                \* the parameters that mutations change here
  Lists,               \* for each parameter the values to draw from
  Window,              \* a parent is one of so many latest elites (12 in the code)
  Limit,               \* number of candidates
  Objective(_),        \* what replays on the recorded trees give a policy
  OnlineObjective(_),  \* what exploring the same incidents itself would give
  Accurate(_)          \* its replays diagnose every fault

\* What a parameter can become.
Reach(key) == {Initial[key]} \cup (IF key \in Keys THEN Lists[key] ELSE {})

\* All that mutations of the initial policy can reach.
Configs ==
  [workers : Reach("workers"), max_branches : Reach("max_branches"),
   min_branches : Reach("min_branches") \cup Reach("max_branches"),
   max_nodes : Reach("max_nodes"), stop_threshold : Reach("stop_threshold"),
   refine_threshold : Reach("refine_threshold"),
   root_priority : Reach("root_priority"), depth_penalty : Reach("depth_penalty"),
   evidence_weight : Reach("evidence_weight"),
   open_after_stall : Reach("open_after_stall")]

\* A policy that asks for no more branches than it allows, and lists of values
\* for some of its parameters.
ASSUME SearchAssumption ==
  /\ Initial \in Configs
  /\ Initial.min_branches <= Initial.max_branches
  /\ Reach("min_branches") \cup Reach("max_branches") \subseteq Int
  /\ Window \in Nat \ {0} /\ Limit \in Nat

ASSUME ObjectiveAssumption == \A cfg \in Configs : Objective(cfg) \in Int

-----------------------------------------------------------------------------
VARIABLES
  best,        \* the best policy so far
  elites,      \* sequence of the policies that were the best
  evaluated,   \* the policies on the leaderboard
  index,       \* candidates tried
  worth        \* of each policy; never changes, since replays are repeatable

vars == <<best, elites, evaluated, index, worth>>

Unclamped(cfg) == cfg           \* mutant: the check of the branch limits is dropped

Clamped(cfg) ==
  [cfg EXCEPT !.min_branches = IF @ > cfg.max_branches THEN cfg.max_branches ELSE @]

Draws == {c \in [Keys -> UNION {Lists[k] : k \in Keys}] : \A k \in Keys : c[k] \in Lists[k]}

\* Two to four parameters are set to drawn values.
Mutations(parent) ==
  {Clamped([k \in DOMAIN parent |-> IF k \in changed THEN drawn[k] ELSE parent[k]]) :
     changed \in {K \in SUBSET Keys : Cardinality(K) \in 2..4}, drawn \in Draws}

Init ==
  /\ best = Initial
  /\ elites = <<Initial>>
  /\ evaluated = {Initial}
  /\ index = 0
  /\ worth = [cfg \in Configs |->
                [replay |-> Objective(cfg), online |-> OnlineObjective(cfg),
                 accurate |-> Accurate(cfg)]]

Recent == {elites[k] : k \in {j \in DOMAIN elites : j > Len(elites) - Window}}

\* Mutant: a candidate has to beat its parent only.
TryOverParent ==
  /\ index < Limit
  /\ index' = index + 1
  /\ UNCHANGED worth
  /\ \E parent \in Recent : \E candidate \in Mutations(parent) :
       /\ evaluated' = evaluated \cup {candidate}
       /\ IF worth[candidate].replay > worth[parent].replay
          THEN best' = candidate /\ elites' = Append(elites, candidate)
          ELSE UNCHANGED <<best, elites>>

\* Mutant: an equal value is enough.
TryNotWorse ==
  /\ index < Limit
  /\ index' = index + 1
  /\ UNCHANGED worth
  /\ \E parent \in Recent : \E candidate \in Mutations(parent) :
       /\ evaluated' = evaluated \cup {candidate}
       /\ IF worth[candidate].replay >= worth[best].replay
          THEN best' = candidate /\ elites' = Append(elites, candidate)
          ELSE UNCHANGED <<best, elites>>

Try ==
  /\ index < Limit
  /\ index' = index + 1
  /\ UNCHANGED worth
  /\ \E parent \in Recent : \E candidate \in Mutations(parent) :
       /\ evaluated' = evaluated \cup {candidate}
       /\ IF worth[candidate].replay > worth[best].replay
          THEN best' = candidate /\ elites' = Append(elites, candidate)
          ELSE UNCHANGED <<best, elites>>

Next == Try

Spec == Init /\ [][Next]_vars

-----------------------------------------------------------------------------
\* A policy of the search never asks for more branches than it allows, though
\* the two limits are drawn independently.
TypeOK ==
  /\ best \in DOMAIN worth /\ index \in 0..Limit
  /\ elites \in Seq(DOMAIN worth) /\ Len(elites) <= index + 1
  /\ evaluated \subseteq DOMAIN worth
  /\ \A cfg \in evaluated : cfg.min_branches <= cfg.max_branches

\* The search never forgets its best: whatever populations it goes through,
\* what it returns tops the leaderboard, and so is never worse than the policy
\* it began with (test_optimizer_never_selects_worse_replay_policy).
BestTopsLeaderboard ==
  best \in evaluated /\ \A cfg \in evaluated : worth[cfg].replay <= worth[best].replay

\* The elites are the history of strict improvements from the initial policy
\* to the best, so no policy is its own ancestor.
ElitesClimb ==
  /\ elites[1] = Initial /\ elites[Len(elites)] = best
  /\ \A j, k \in DOMAIN elites : j < k => worth[elites[j]].replay < worth[elites[k]].replay

\* What the replay says of a policy is what it would have got online on the
\* training incidents, so the search optimises the real thing.
ReplayPredictsOnline ==
  \A cfg \in evaluated : worth[cfg].replay = worth[cfg].online

\* The objective is about diagnosis: a search that has found the best policy
\* there is has found one that names every fault of the training incidents.
OptimumDiagnoses ==
  (\A cfg \in DOMAIN worth : worth[cfg].replay <= worth[best].replay)
    => worth[best].accurate
=============================================================================
