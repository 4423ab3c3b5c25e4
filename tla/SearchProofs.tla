----------------------------- MODULE SearchProofs -----------------------------
(***************************************************************************)
(* The search never loses its best and its elites only improve, for every  *)
(* objective, every initial policy and all lists to draw from.             *)
(***************************************************************************)
EXTENDS PolicySearch, SequenceTheorems, TLAPS

\* Mutation stays within what the lists allow, and within the branch limits.
LEMMA MutationsType ==
  ASSUME NEW parent \in Configs, NEW candidate \in Mutations(parent)
  PROVE  /\ candidate \in Configs
         /\ candidate.min_branches <= candidate.max_branches
<1>1. PICK changed \in {K \in SUBSET Keys : Cardinality(K) \in 2..4}, drawn \in Draws :
        candidate = Clamped([k \in DOMAIN parent |->
                               IF k \in changed THEN drawn[k] ELSE parent[k]])
  BY DEF Mutations
<1> DEFINE raw == [k \in DOMAIN parent |-> IF k \in changed THEN drawn[k] ELSE parent[k]]
<1>2. \A k \in changed : drawn[k] \in Reach(k)
  BY DEF Draws, Reach
<1>3. raw \in Configs
  BY <1>2 DEF Configs
<1> HIDE DEF raw
<1>4. /\ raw.min_branches \in Int /\ raw.max_branches \in Int
  BY <1>3, SearchAssumption DEF Configs
<1>5. candidate = Clamped(raw)
  BY <1>1 DEF raw
<1>6. Clamped(raw) \in Configs
  BY <1>3 DEF Clamped, Configs
<1>7. Clamped(raw).min_branches <= Clamped(raw).max_branches
  BY <1>3, <1>4 DEF Clamped, Configs
<1> QED
  BY <1>5, <1>6, <1>7

\* What holds of every policy that the search knows, and the two properties.
Known ==
  /\ worth = [cfg \in Configs |->
                [replay |-> Objective(cfg), online |-> OnlineObjective(cfg),
                 accurate |-> Accurate(cfg)]]
  /\ best \in Configs /\ evaluated \subseteq Configs
  /\ \A cfg \in evaluated : cfg.min_branches <= cfg.max_branches
  /\ elites \in Seq(Configs)
  /\ index \in 0..Limit
  /\ Len(elites) \in 1..index + 1

SearchInv == Known /\ BestTopsLeaderboard /\ ElitesClimb

LEMMA WorthType ==
  ASSUME Known, NEW cfg \in Configs
  PROVE  worth[cfg].replay \in Int
BY ObjectiveAssumption DEF Known

LEMMA RecentType ==
  ASSUME Known
  PROVE  Recent \subseteq Configs
BY DEF Known, Recent

LEMMA SearchStart ==
  ASSUME Init
  PROVE  SearchInv
<1>1. elites \in Seq(Configs) /\ Len(elites) = 1 /\ elites[1] = Initial
  BY SearchAssumption DEF Init
<1>2. Known
  BY <1>1, SearchAssumption DEF Init, Known
<1>3. BestTopsLeaderboard
  BY <1>2, WorthType, SearchAssumption DEF Init, BestTopsLeaderboard
<1>4. ElitesClimb
  BY <1>1 DEF Init, ElitesClimb
<1> QED
  BY <1>2, <1>3, <1>4 DEF SearchInv

\* A candidate is listed and beats the best, or is listed and does not.
LEMMA SearchStep ==
  ASSUME SearchInv, Try
  PROVE  SearchInv'
<1> USE DEF SearchInv
<1>1. PICK candidate \in Configs :
        /\ candidate.min_branches <= candidate.max_branches
        /\ evaluated' = evaluated \cup {candidate}
        /\ IF worth[candidate].replay > worth[best].replay
           THEN best' = candidate /\ elites' = Append(elites, candidate)
           ELSE UNCHANGED <<best, elites>>
  BY RecentType, MutationsType DEF Try
<1>2. /\ index < Limit /\ index' = index + 1 /\ UNCHANGED worth
      /\ index \in 0..Limit /\ Limit \in Nat
  BY SearchAssumption DEF Try, Known
<1>3. /\ \A cfg \in Configs : worth[cfg].replay \in Int
      /\ best \in Configs /\ evaluated \subseteq Configs
  BY WorthType DEF Known
<1>4. CASE worth[candidate].replay > worth[best].replay
  <2>1. best' = candidate /\ elites' = Append(elites, candidate)
    BY <1>1, <1>4
  <2>2. /\ elites' \in Seq(Configs) /\ Len(elites') = Len(elites) + 1
        /\ elites'[Len(elites) + 1] = candidate
        /\ \A k \in 1..Len(elites) : elites'[k] = elites[k]
        /\ Len(elites) \in 1..index + 1
    BY <2>1 DEF Known
  <2>3. Known'
    BY <1>1, <1>2, <2>1, <2>2 DEF Known
  <2>4. BestTopsLeaderboard'
    BY <1>1, <1>2, <1>3, <1>4, <2>1 DEF BestTopsLeaderboard
  <2>5. ElitesClimb'
    <3>0. DOMAIN elites = 1..Len(elites)
      BY DEF Known
    <3>1. elites'[1] = Initial /\ elites'[Len(elites')] = best'
      BY <2>1, <2>2 DEF ElitesClimb
    <3>2. ASSUME NEW j \in DOMAIN elites', NEW k \in DOMAIN elites', j < k
          PROVE  worth'[elites'[j]].replay < worth'[elites'[k]].replay
      <4>1. j \in 1..Len(elites) /\ Len(elites) \in 1..Len(elites)
            /\ elites'[j] = elites[j] /\ elites[j] \in Configs
        BY <2>2, <3>2 DEF Known
      <4>2. worth[elites[j]].replay <= worth[best].replay
        <5>1. CASE j = Len(elites)
          BY <1>3, <5>1 DEF ElitesClimb
        <5>2. CASE j < Len(elites)
          <6>1. worth[elites[j]].replay < worth[elites[Len(elites)]].replay
            BY <3>0, <4>1, <5>2 DEF ElitesClimb
          <6> QED
            BY <1>3, <4>1, <6>1 DEF ElitesClimb
        <5> QED
          BY <4>1, <5>1, <5>2
      <4>3. CASE k = Len(elites) + 1
        BY <1>2, <1>3, <1>4, <2>2, <4>1, <4>2, <4>3
      <4>4. CASE k \in 1..Len(elites)
        <5>1. worth[elites[j]].replay < worth[elites[k]].replay
          BY <3>0, <3>2, <4>1, <4>4 DEF ElitesClimb
        <5> QED
          BY <1>2, <2>2, <4>1, <4>4, <5>1
      <4> QED
        BY <2>2, <3>2, <4>3, <4>4
    <3> QED
      BY <3>1, <3>2 DEF ElitesClimb
  <2> QED
    BY <2>3, <2>4, <2>5
<1>5. CASE ~(worth[candidate].replay > worth[best].replay)
  <2>1. UNCHANGED <<best, elites, worth>>
    BY <1>1, <1>2, <1>5
  <2>2. Known'
    BY <1>1, <1>2, <2>1 DEF Known
  <2>3. BestTopsLeaderboard'
    BY <1>1, <1>3, <1>5, <2>1 DEF BestTopsLeaderboard
  <2>4. ElitesClimb'
    BY <2>1 DEF ElitesClimb
  <2> QED
    BY <2>2, <2>3, <2>4
<1> QED
  BY <1>4, <1>5

LEMMA Search == Spec => []SearchInv
<1>0. Init => SearchInv
  BY SearchStart
<1>1. SearchInv /\ UNCHANGED vars => SearchInv'
  BY DEF vars, SearchInv, Known, BestTopsLeaderboard, ElitesClimb
<1>2. SearchInv /\ [Next]_vars => SearchInv'
  BY <1>1, SearchStep DEF Next
<1> QED
  BY <1>0, <1>2, PTL DEF Spec

\* Every policy on the leaderboard is one that mutation of the initial one can
\* reach and asks for no more branches than it allows, whatever the lists.
THEOREM SearchTypes == Spec => []TypeOK
<1>1. SearchInv => TypeOK
  <2> SUFFICES ASSUME SearchInv PROVE TypeOK
    OBVIOUS
  <2>1. DOMAIN worth = Configs
    BY DEF SearchInv, Known
  <2> QED
    BY <2>1 DEF SearchInv, Known, TypeOK
<1> QED
  BY <1>1, Search, PTL

\* Whatever is drawn, from whichever elites, and whatever the objective, the
\* policy returned is worth at least as much as any that was tried.
THEOREM BestStaysOnTop == Spec => []BestTopsLeaderboard
BY Search, PTL DEF SearchInv

\* The elites form a chain of strict improvements from the initial policy to
\* the one returned.
THEOREM ElitesOnlyImprove == Spec => []ElitesClimb
BY Search, PTL DEF SearchInv
===============================================================================
