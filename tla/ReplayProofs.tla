---------------------------- MODULE ReplayProofs -----------------------------
(***************************************************************************)
(* Theorems about Replay for any number of branches and rounds, any        *)
(* policies and any incident.                                              *)
(*                                                                         *)
(* The last one, ReplayIsFaithful, says that the policy that recorded a    *)
(* tree sees in the replay what it saw online.  The online run has left a  *)
(* trail, one run for each number of rounds, and the replay walks along it:*)
(* where it stands, the tree of the trail is the beginning of the recorded *)
(* one and all of it is revealed, so that both runs see, and select, the   *)
(* same; and what the online run then grew is what the replay finds as the *)
(* earliest hidden children.                                               *)
(***************************************************************************)
EXTENDS Replay, FiniteSetTheorems, WellFoundedInduction, SequenceTheorems, TLAPS

-----------------------------------------------------------------------------
(* Smallest and largest numbers, the order of the candidates, and how      *)
(* many of them are selected.                                              *)

\* A set of numbers that is not empty has a smallest one.
LEMMA MinIsLeast ==
  ASSUME NEW S \in SUBSET Nat, S # {}
  PROVE  /\ MinOf(S) \in S
         /\ \A s \in S : MinOf(S) <= s
<1> DEFINE R == StrictSubsetOrdering(Nat)
           T == {0..s : s \in S}
<1>1. T \subseteq FiniteSubsetsOf(Nat)
  <2>1. ASSUME NEW s \in S
        PROVE  0..s \in FiniteSubsetsOf(Nat)
    <3>1. IsFiniteSet(0..s)
      BY FS_Interval
    <3> QED BY <3>1 DEF FiniteSubsetsOf
  <2> QED BY <2>1
<1>2. IsWellFoundedOn(R, FiniteSubsetsOf(Nat))
  BY FS_StrictSubsetOrderingWellFounded
<1>3. T # {}
  OBVIOUS
<1>4. PICK X \in T : \A Y \in T : ~ (<<Y, X>> \in R)
  <2> HIDE DEF T, R
  <2> QED BY <1>1, <1>2, <1>3, WFMin
<1>5. PICK x \in S : X = 0..x
  OBVIOUS
<1>6. ASSUME NEW y \in S
      PROVE  x <= y
  <2>1. (0..y) \in T /\ x \in Nat /\ y \in Nat
    OBVIOUS
  <2>2. ~ (<<0..y, 0..x>> \in R)
    BY <1>4, <1>5, <2>1
  <2>3. ASSUME y < x PROVE FALSE
    <3>1. 0..y \subseteq 0..x /\ x \in 0..x /\ x \notin 0..y
      BY <2>1, <2>3
    <3>2. <<0..y, 0..x>> \in R
      BY <2>1, <3>1 DEF StrictSubsetOrdering
    <3> QED BY <2>2, <3>2
  <2> QED BY <2>1, <2>3
<1> QED
  BY <1>6 DEF MinOf

\* A bounded one has a largest one.
LEMMA MaxIsGreatest ==
  ASSUME NEW n \in Nat, NEW S \in SUBSET (0..n), S # {}
  PROVE  /\ MaxOf(S) \in S
         /\ \A s \in S : s <= MaxOf(S)
<1> DEFINE T == {t \in 0..n : n - t \in S}
<1>1. T \in SUBSET Nat
  OBVIOUS
<1>2. \A s \in S : n - s \in T
  OBVIOUS
<1>3. PICK t \in T : \A u \in T : t <= u
  BY <1>1, <1>2, MinIsLeast
<1> DEFINE s == n - t
<1>4. s \in S /\ t \in 0..n
  OBVIOUS
<1>5. \A r \in S : r <= s
  <2> TAKE r \in S
  <2>1. t <= n - r
    BY <1>2, <1>3
  <2> QED
    BY <2>1, <1>4
<1> QED
  BY <1>4, <1>5 DEF MaxOf

\* The image of a finite set has no more elements than the set.
LEMMA ImageBound ==
  ASSUME NEW S, IsFiniteSet(S), NEW f, DOMAIN f = S
  PROVE  LET T == {f[x] : x \in S}
         IN  IsFiniteSet(T) /\ Cardinality(T) <= Cardinality(S)
<1> DEFINE T == {f[x] : x \in S}
           g == [x \in S |-> f[x]]
<1>1. g \in Surjection(S, T)
  BY DEF Surjection
<1> QED
  BY <1>1, FS_Surjection

-----------------------------------------------------------------------------
(* The order of the candidates.                                            *)

Candidate == [id : Nat, value : Int]

Precedes(d, c) == d.value > c.value \/ (d.value = c.value /\ d.id < c.id)

\* No two candidates have the same place in the order, the places are the
\* numbers below their count, and who precedes has the smaller one.
LEMMA RankIsPlace ==
  ASSUME NEW S \in SUBSET Candidate, IsFiniteSet(S)
  PROVE  /\ \A c \in S : Rank(S, c) \in 0..Cardinality(S) - 1
         /\ \A c, d \in S : Rank(S, c) = Rank(S, d) => c = d
         /\ \A c, d \in S : Precedes(c, d) => Rank(S, c) < Rank(S, d)
<1>1. ASSUME NEW c \in S
      PROVE  /\ IsFiniteSet(Ahead(S, c))
             /\ Rank(S, c) \in 0..Cardinality(S) - 1
  <2>1. Ahead(S, c) \in SUBSET (S \ {c})
    BY DEF Ahead, Candidate
  <2>2. IsFiniteSet(S \ {c}) /\ Cardinality(S \ {c}) = Cardinality(S) - 1
    BY FS_RemoveElement
  <2>3. IsFiniteSet(Ahead(S, c)) /\ Cardinality(Ahead(S, c)) <= Cardinality(S) - 1
    BY <2>1, <2>2, FS_Subset
  <2>4. Cardinality(Ahead(S, c)) \in Nat /\ Cardinality(S) \in Nat
    BY <2>3, FS_CardinalityType
  <2> QED
    BY <2>3, <2>4 DEF Rank
<1>2. ASSUME NEW c \in S, NEW d \in S, Precedes(c, d)
      PROVE  Rank(S, c) < Rank(S, d)
  <2>1. Ahead(S, c) \in SUBSET Ahead(S, d)
    BY <1>2 DEF Ahead, Precedes, Candidate
  <2>2. c \in Ahead(S, d) /\ c \notin Ahead(S, c)
    BY <1>2 DEF Ahead, Precedes, Candidate
  <2>3. Cardinality(Ahead(S, c)) <= Cardinality(Ahead(S, d))
        /\ Cardinality(Ahead(S, c)) # Cardinality(Ahead(S, d))
    BY <1>1, <2>1, <2>2, FS_Subset
  <2>4. Cardinality(Ahead(S, c)) \in Nat /\ Cardinality(Ahead(S, d)) \in Nat
    BY <1>1, FS_CardinalityType
  <2> QED
    BY <2>3, <2>4 DEF Rank
<1>3. \A c, d \in S : c # d => Precedes(c, d) \/ Precedes(d, c)
  BY DEF Precedes, Candidate
<1>4. \A c, d \in S : Rank(S, c) = Rank(S, d) => c = d
  BY <1>1, <1>2, <1>3
<1> QED
  BY <1>1, <1>2, <1>4

\* Every place is taken.
LEMMA PlaceIsTaken ==
  ASSUME NEW S \in SUBSET Candidate, IsFiniteSet(S),
         NEW k \in 1..Cardinality(S)
  PROVE  \E c \in S : Rank(S, c) = k - 1
<1> DEFINE n == Cardinality(S)
           f == [c \in S |-> Rank(S, c)]
<1>0. n \in Nat
  BY FS_CardinalityType
<1>1. f \in Injection(S, 0..n - 1)
  BY RankIsPlace DEF Injection, IsInjective
<1>2. IsFiniteSet(0..n - 1) /\ Cardinality(0..n - 1) = n
  <2>1. 0 \in Int /\ n - 1 \in Int
    BY <1>0
  <2>2. IsFiniteSet(0..n - 1)
        /\ Cardinality(0..n - 1) = IF 0 > n - 1 THEN 0 ELSE n - 1 - 0 + 1
    BY <2>1, FS_Interval
  <2> QED BY <1>0, <2>2
<1>3. f \in Surjection(S, 0..n - 1)
  <2> HIDE DEF f
  <2> QED BY <1>1, <1>2, FS_Injection
<1>4. k - 1 \in 0..n - 1
  BY <1>0
<1> QED
  BY <1>3, <1>4 DEF Surjection

\* No more candidates are selected than there are workers.
LEMMA FirstPlaces ==
  ASSUME NEW S \in SUBSET Candidate, IsFiniteSet(S), NEW w \in Nat
  PROVE  LET first == {c \in S : Rank(S, c) < w}
         IN  IsFiniteSet(first) /\ Cardinality(first) <= w
<1> DEFINE first == {c \in S : Rank(S, c) < w}
           f == [c \in first |-> Rank(S, c)]
<1>1. f \in Injection(first, 0..w - 1)
  BY RankIsPlace DEF Injection, IsInjective
<1>2. IsFiniteSet(0..w - 1) /\ Cardinality(0..w - 1) = w
  BY FS_Interval
<1> HIDE DEF f
<1> QED
  BY <1>1, <1>2, FS_Injection

-----------------------------------------------------------------------------
(* Runs.                                                                   *)

Words == Reasons \cup {"waiting", "fully_revealed"}

RunType ==
  [tree : Seq(Node), revealed : SUBSET Nat, rounds : Seq(SUBSET Nat),
   last_best : 0..100, stalled : Nat, reason : Words]

\* A run over a well-formed tree.
WellFormed(run) ==
  /\ run \in RunType
  /\ \A n \in 1..Len(run.tree) : run.tree[n].parent \in 0..n - 1
  /\ Root \in run.revealed
  /\ run.revealed \subseteq 0..Len(run.tree)

-----------------------------------------------------------------------------
(* One round.                                                              *)

\* Sizes in a well-formed run are those of finite sets.
LEMMA RevealedFinite ==
  ASSUME NEW run, WellFormed(run)
  PROVE  /\ Len(run.tree) \in Nat /\ DOMAIN run.tree = 1..Len(run.tree)
         /\ Len(run.rounds) \in Nat /\ DOMAIN run.rounds = 1..Len(run.rounds)
         /\ \A n \in 1..Len(run.tree) : run.tree[n] \in Node
         /\ IsFiniteSet(run.revealed) /\ IsFiniteSet(run.revealed \ {Root})
         /\ Requests(run) \in Nat
<1>1. /\ run.tree \in Seq(Node) /\ run.rounds \in Seq(SUBSET Nat)
  BY DEF WellFormed, RunType
<1>2. Len(run.tree) \in Nat /\ DOMAIN run.tree = 1..Len(run.tree)
  BY <1>1, LenProperties
<1>3. Len(run.rounds) \in Nat /\ DOMAIN run.rounds = 1..Len(run.rounds)
  BY <1>1, LenProperties
<1>4. \A n \in 1..Len(run.tree) : run.tree[n] \in Node
  BY <1>1, ElementOfSeq
<1>5. IsFiniteSet(0..Len(run.tree))
  BY <1>2, FS_Interval
<1>6. IsFiniteSet(run.revealed)
  BY <1>5, FS_Subset DEF WellFormed
<1>7. IsFiniteSet(run.revealed \ {Root})
  BY <1>6, FS_RemoveElement
<1>8. Requests(run) \in Nat
  BY <1>7, FS_CardinalityType DEF Requests
<1> QED
  BY <1>1, <1>2, <1>3, <1>4, <1>6, <1>7, <1>8

\* Looking at the best score changes nothing else.
LEMMA ObservedKeeps ==
  ASSUME NEW run, WellFormed(run)
  PROVE  LET seen == Observed(run)
         IN  /\ WellFormed(seen)
             /\ seen.tree = run.tree /\ seen.revealed = run.revealed
             /\ seen.rounds = run.rounds /\ seen.reason = run.reason
<1> DEFINE S == {ScoreOf(run.tree, n) : n \in run.revealed}
<1>1. \A n \in run.revealed : ScoreOf(run.tree, n) \in 0..100
  <2>1. /\ \A n \in 1..Len(run.tree) : run.tree[n] \in Node
        /\ Len(run.tree) \in Nat
    BY RevealedFinite
  <2>2. \A n \in 1..Len(run.tree) : run.tree[n].score \in 0..100
    BY <2>1 DEF Node
  <2>3. run.revealed \subseteq 0..Len(run.tree)
    BY DEF WellFormed
  <2> TAKE n \in run.revealed
  <2>4. CASE n = Root
    BY <2>4 DEF ScoreOf
  <2>5. CASE n # Root
    <3>1. n \in 1..Len(run.tree)
      BY <2>1, <2>3, <2>5 DEF Root
    <3> QED BY <2>2, <2>5, <3>1 DEF ScoreOf
  <2> QED BY <2>4, <2>5
<1>2. S \in SUBSET (0..100) /\ S # {}
  BY <1>1 DEF WellFormed
<1>3. BestScore(run.tree, run.revealed) \in 0..100
  <2>1. MaxOf(S) \in S
    <3> HIDE DEF S
    <3> QED BY <1>2, MaxIsGreatest
  <2> QED BY <1>2, <2>1 DEF BestScore
<1> DEFINE best == BestScore(run.tree, run.revealed)
           stall == IF best > run.last_best THEN 0 ELSE run.stalled + 1
           after == [tree |-> run.tree, revealed |-> run.revealed, rounds |-> run.rounds,
                     last_best |-> best, stalled |-> stall, reason |-> run.reason]
<1>4. run \in RunType
  BY DEF WellFormed
<1>5. Observed(run) = after
  <2>1. run = [tree |-> run.tree, revealed |-> run.revealed, rounds |-> run.rounds,
               last_best |-> run.last_best, stalled |-> run.stalled, reason |-> run.reason]
    BY <1>4 DEF RunType
  <2>2. Observed(run) = [run EXCEPT !.last_best = best, !.stalled = stall]
    BY DEF Observed
  <2> HIDE DEF best, stall
  <2> QED BY <2>1, <2>2
<1>6. stall \in Nat
  BY <1>4 DEF RunType
<1>7. after \in RunType
  <2> HIDE DEF best, stall
  <2> QED BY <1>3, <1>4, <1>6 DEF RunType, best
<1> QED
  BY <1>5, <1>7 DEF WellFormed

\* What the code sorts.
LEMMA CandidatesType ==
  ASSUME NEW run, WellFormed(run), NEW cfg \in Policies
  PROVE  /\ Candidates(cfg, run) \in SUBSET Candidate
         /\ IsFiniteSet(Candidates(cfg, run))
         /\ \A c \in Candidates(cfg, run) :
              /\ c.id \in run.revealed
              /\ c.id # Root => run.tree[c.id].depth < MaxDepth
<1> DEFINE ids == {m \in Leaves(run.tree, run.revealed) : run.tree[m].depth < MaxDepth}
                    \cup (IF RootChildren(run) < cfg.max_branches THEN {Root} ELSE {})
           f == [n \in ids |-> [id |-> n, value |-> Priority(cfg, run, n)]]
<1>1. ids \in SUBSET run.revealed
  BY DEF Leaves, WellFormed
<1>2. IsFiniteSet(ids)
  BY <1>1, RevealedFinite, FS_Subset
<1>3. \A n \in ids : Priority(cfg, run, n) \in Int
  <2> TAKE n \in ids
  <2>1. CASE n = Root
    BY <2>1, PoliciesAssumption DEF Priority
  <2>2. CASE n # Root
    <3>1. run.tree[n].score \in Int /\ run.tree[n].depth \in Int
      <4>1. n \in 1..Len(run.tree)
        BY <1>1, <2>2, RevealedFinite DEF WellFormed, Root
      <4>2. run.tree[n] \in Node
        BY <4>1, RevealedFinite
      <4> QED BY <4>2 DEF Node, MaxDepth
    <3>2. cfg.evidence_weight * run.tree[n].score \in Int
      BY <3>1, PoliciesAssumption
    <3>3. 100 * cfg.depth_penalty * run.tree[n].depth \in Int
      BY <3>1, PoliciesAssumption
    <3>4. (IF run.tree[n].score >= cfg.refine_threshold THEN 3500 ELSE 0) \in Int
      OBVIOUS
    <3> QED BY <2>2, <3>2, <3>3, <3>4 DEF Priority, NodeValue
  <2> QED BY <2>1, <2>2
<1>4. Candidates(cfg, run) = {f[n] : n \in ids}
  BY DEF Candidates
<1>5. IsFiniteSet(Candidates(cfg, run))
  <2>1. DOMAIN f = ids
    OBVIOUS
  <2> HIDE DEF f, ids
  <2> QED BY <1>2, <1>4, <2>1, ImageBound
<1>6. Candidates(cfg, run) \in SUBSET Candidate
  BY <1>1, <1>3 DEF Candidates, Candidate, WellFormed, RunType
<1>7. \A n \in ids : n # Root => run.tree[n].depth < MaxDepth
  OBVIOUS
<1> QED
  <2>1. \A c \in Candidates(cfg, run) : c.id \in ids
    BY DEF Candidates
  <2> HIDE DEF ids, f
  <2> QED BY <1>1, <1>5, <1>6, <1>7, <2>1

\* What is selected: no more than the workers can look at, within the budget,
\* and only from what has been revealed.
LEMMA SelectedBound ==
  ASSUME NEW run, WellFormed(run), NEW cfg \in Policies,
         NEW able \in SUBSET Selected(cfg, run)
  PROVE  /\ able \in SUBSET Candidate /\ IsFiniteSet(able)
         /\ Cardinality(able) \in Nat /\ Cardinality(able) <= cfg.workers
         /\ able # {} => Requests(run) < cfg.max_nodes /\ Cardinality(able) > 0
         /\ \A c \in able :
              /\ c.id \in run.revealed
              /\ c.id # Root => run.tree[c.id].depth < MaxDepth
<1> DEFINE all == Candidates(cfg, run)
           chosen == Selected(cfg, run)
<1>1. cfg.workers \in Nat /\ cfg.max_nodes \in Nat
  BY PoliciesAssumption
<1>2. /\ {c \in all : Rank(all, c) < cfg.workers} \in SUBSET all
      /\ IsFiniteSet({c \in all : Rank(all, c) < cfg.workers})
      /\ Cardinality({c \in all : Rank(all, c) < cfg.workers}) <= cfg.workers
  BY <1>1, CandidatesType, FirstPlaces
<1>3. /\ chosen \in SUBSET all /\ IsFiniteSet(chosen)
      /\ Cardinality(chosen) <= cfg.workers
  <2>1. CASE Stops(cfg, run)
    BY <1>1, <2>1, FS_EmptySet DEF Selected
  <2>2. CASE ~Stops(cfg, run)
    BY <1>2, <2>2 DEF Selected
  <2> QED BY <2>1, <2>2
<1>4. /\ able \in SUBSET all /\ IsFiniteSet(able)
      /\ Cardinality(able) <= Cardinality(chosen)
  BY <1>3, FS_Subset
<1>5. Cardinality(able) \in Nat /\ Cardinality(chosen) \in Nat
  BY <1>3, <1>4, FS_CardinalityType
<1>6. able # {} => Requests(run) < cfg.max_nodes
  <2>1. able # {} => ~Stops(cfg, run)
    BY DEF Selected
  <2>2. Requests(run) \in Nat
    BY RevealedFinite
  <2> QED BY <1>1, <2>1, <2>2 DEF Stops
<1>7. able # {} => Cardinality(able) > 0
  BY <1>4, <1>5, FS_EmptySet
<1> QED
  BY <1>1, <1>3, <1>4, <1>5, <1>6, <1>7, CandidatesType

\* A round that reveals new nodes, one for each selected one at most.
LEMMA RoundKeeps ==
  ASSUME NEW cfg \in Policies, NEW run, WellFormed(run),
         Budgeted(run, cfg), Partitioned(run, cfg),
         Requests(run) < cfg.max_nodes, Len(run.rounds) < MaxRounds,
         NEW new \in SUBSET (Nat \ {Root}), IsFiniteSet(new), new # {},
         new \cap run.revealed = {}, Cardinality(new) <= cfg.workers,
         NEW next, WellFormed(next),
         next.revealed = run.revealed \cup new,
         next.rounds = Append(run.rounds, new)
  PROVE  Budgeted(next, cfg) /\ Partitioned(next, cfg)
<1>1. cfg.workers \in Nat /\ cfg.max_nodes \in Nat /\ MaxRounds \in Nat
  BY PoliciesAssumption, SizesAssumption
<1>2. Budgeted(next, cfg)
  <2>1. next.revealed \ {Root} = (run.revealed \ {Root}) \cup new
    OBVIOUS
  <2>2. (run.revealed \ {Root}) \cap new = {}
    OBVIOUS
  <2>3. Requests(next) = Requests(run) + Cardinality(new) - Cardinality({})
    <3>1. IsFiniteSet(run.revealed \ {Root})
      BY RevealedFinite
    <3>2. Cardinality((run.revealed \ {Root}) \cup new)
            = Cardinality(run.revealed \ {Root}) + Cardinality(new)
              - Cardinality((run.revealed \ {Root}) \cap new)
      BY <3>1, FS_Union
    <3> QED BY <2>1, <2>2, <3>2 DEF Requests
  <2>4. Cardinality({}) = 0 /\ Cardinality(new) \in Nat
    BY FS_EmptySet, FS_CardinalityType
  <2> QED
    <3>1. Requests(run) \in Nat
      BY RevealedFinite
    <3> QED BY <1>1, <2>3, <2>4, <3>1 DEF Budgeted
<1>3. Partitioned(next, cfg)
  <2> DEFINE m == Len(run.rounds)
  <2>1. run.rounds \in Seq(SUBSET Nat) /\ m \in Nat
    BY RevealedFinite DEF WellFormed, RunType
  <2>2. /\ Len(next.rounds) = m + 1
        /\ \A k \in 1..m : next.rounds[k] = run.rounds[k]
        /\ next.rounds[m + 1] = new
    BY <2>1, AppendProperties
  <2>3. UNION {next.rounds[k] : k \in 1..Len(next.rounds)}
          = (UNION {run.rounds[k] : k \in 1..m}) \cup new
    <3>1. 1..Len(next.rounds) = 1..m \cup {m + 1}
      BY <2>1, <2>2
    <3>2. {next.rounds[k] : k \in 1..Len(next.rounds)}
            = {run.rounds[k] : k \in 1..m} \cup {new}
      BY <3>1, <2>2
    <3> DEFINE A == {run.rounds[k] : k \in 1..m}
               B == {next.rounds[k] : k \in 1..Len(next.rounds)}
    <3>3. B = A \cup {new}
      BY <3>2
    <3>4. UNION B = (UNION A) \cup new
      <4> HIDE DEF A, B
      <4> QED BY <3>3
    <3> QED BY <3>4
  <2>4. UNION {next.rounds[k] : k \in 1..Len(next.rounds)} = next.revealed \ {Root}
    <3>1. UNION {run.rounds[k] : k \in 1..m} = run.revealed \ {Root}
      BY DEF Partitioned
    <3> DEFINE A == UNION {run.rounds[k] : k \in 1..m}
               B == UNION {next.rounds[k] : k \in 1..Len(next.rounds)}
    <3>2. B = A \cup new /\ A = run.revealed \ {Root}
      BY <2>3, <3>1
    <3> HIDE DEF A, B
    <3>3. B = next.revealed \ {Root}
      BY <3>2
    <3> QED BY <3>3 DEF B
  <2>5. \A k \in 1..m : run.rounds[k] \subseteq run.revealed
    BY DEF Partitioned
  <2>6. ASSUME NEW k \in 1..Len(next.rounds)
        PROVE  /\ next.rounds[k] # {}
               /\ Cardinality(next.rounds[k]) <= cfg.workers
               /\ \A j \in 1..k - 1 : next.rounds[j] \cap next.rounds[k] = {}
    <3>1. CASE k \in 1..m
      BY <2>1, <2>2, <3>1 DEF Partitioned
    <3>2. CASE k = m + 1
      BY <2>1, <2>2, <2>5, <3>2
    <3> QED BY <2>1, <2>2, <3>1, <3>2
  <2>7. Len(next.rounds) <= MaxRounds
    BY <1>1, <2>1, <2>2
  <2> QED
    BY <2>4, <2>6, <2>7 DEF Partitioned
<1> QED
  BY <1>2, <1>3

-----------------------------------------------------------------------------
(* Online.                                                                 *)

\* What is expanded is a node of the incident.
LEMMA ExpandedType ==
  ASSUME NEW run, WellFormed(run), NEW t \in 1..Branches,
         NEW p \in 0..Len(run.tree), CanExpand(run.tree, p)
  PROVE  Expanded(t, run.tree, p) \in Node /\ Expanded(t, run.tree, p).parent = p
<1> DEFINE branch == IF p = Root THEN MinOf(Unopened(run.tree)) ELSE run.tree[p].branch
           depth  == IF p = Root THEN 1 ELSE run.tree[p].depth + 1
<1>1. branch \in 1..Branches /\ depth \in 1..MaxDepth
  <2>1. CASE p = Root
    <3>1. Unopened(run.tree) \in SUBSET (1..Branches) /\ Unopened(run.tree) # {}
      BY <2>1 DEF CanExpand, Unopened
    <3>2. MinOf(Unopened(run.tree)) \in Unopened(run.tree)
      <4>1. Unopened(run.tree) \in SUBSET Nat
        BY <3>1, SizesAssumption
      <4> QED BY <3>1, <4>1, MinIsLeast
    <3> QED BY <2>1, <3>1, <3>2 DEF MaxDepth
  <2>2. CASE p # Root
    <3>1. p \in 1..Len(run.tree)
      BY <2>2, RevealedFinite DEF Root
    <3>2. run.tree[p] \in Node /\ run.tree[p].depth < MaxDepth
      BY <2>2, <3>1, RevealedFinite DEF CanExpand
    <3> QED BY <2>2, <3>2 DEF Node, MaxDepth
  <2> QED BY <2>1, <2>2
<1>2. NodeScore(t, branch, depth) \in 0..100
  <2> HIDE DEF branch, depth
  <2>1. depth \in {1, 2, 3}
    BY <1>1 DEF MaxDepth
  <2> QED BY <2>1 DEF NodeScore
<1>3. Expanded(t, run.tree, p) =
        [parent |-> p, branch |-> branch, depth |-> depth,
         score |-> NodeScore(t, branch, depth),
         diagnosed |-> branch = t /\ depth = MaxDepth]
  BY DEF Expanded
<1>4. p \in Nat
  BY RevealedFinite
<1> HIDE DEF branch, depth
<1> QED
  BY <1>1, <1>2, <1>3, <1>4 DEF Node

\* An online round adds one node for each selected one and shows them all.
LEMMA GrownKeeps ==
  ASSUME NEW run, WellFormed(run), run.revealed = 0..Len(run.tree),
         NEW t \in 1..Branches,
         NEW able \in SUBSET Candidate, IsFiniteSet(able), Cardinality(able) \in Nat \ {0},
         \A c \in able : c.id \in run.revealed /\ CanExpand(run.tree, c.id)
  PROVE  LET next == Grown(t, run, able)
             new  == Len(run.tree) + 1 .. Len(run.tree) + Cardinality(able)
         IN  /\ WellFormed(next)
             /\ next.revealed = 0..Len(next.tree)
             /\ next.revealed = run.revealed \cup new
             /\ next.rounds = Append(run.rounds, new)
             /\ next.reason = run.reason
<1> DEFINE size == Len(run.tree)
           n    == Cardinality(able)
           At(k) == CHOOSE c \in able : Rank(able, c) = k - 1
           nodes == [k \in 1..n |-> Expanded(t, run.tree, At(k).id)]
           new  == size + 1 .. size + n
           next == [tree |-> run.tree \o nodes, revealed |-> run.revealed \cup new,
                    rounds |-> Append(run.rounds, new), last_best |-> run.last_best,
                    stalled |-> run.stalled, reason |-> run.reason]
<1>1. size \in Nat /\ n \in Nat /\ n > 0
  BY RevealedFinite
<1>2. \A k \in 1..n : Expanded(t, run.tree, At(k).id) \in Node
                       /\ Expanded(t, run.tree, At(k).id).parent \in 0..size
  <2> TAKE k \in 1..n
  <2>1. At(k) \in able
    BY PlaceIsTaken
  <2>2. At(k).id \in 0..size /\ CanExpand(run.tree, At(k).id)
    BY <2>1
  <2> HIDE DEF At
  <2> QED BY <2>2, ExpandedType
<1>3. nodes \in Seq(Node) /\ Len(nodes) = n
  <2> HIDE DEF At
  <2> QED BY <1>1, <1>2
<1>4. /\ run.tree \in Seq(Node) /\ run.rounds \in Seq(SUBSET Nat)
      /\ run.last_best \in 0..100 /\ run.stalled \in Nat /\ run.reason \in Words
      /\ run.revealed \in SUBSET Nat
  BY DEF WellFormed, RunType
<1>5. /\ run.tree \o nodes \in Seq(Node)
      /\ Len(run.tree \o nodes) = size + n
      /\ \A i \in 1..size + n :
           (run.tree \o nodes)[i] = IF i <= size THEN run.tree[i] ELSE nodes[i - size]
  <2> HIDE DEF nodes, n
  <2>1. /\ run.tree \o nodes \in Seq(Node)
        /\ Len(run.tree \o nodes) = Len(run.tree) + Len(nodes)
        /\ \A i \in 1..Len(run.tree) + Len(nodes) :
             (run.tree \o nodes)[i] =
               IF i <= Len(run.tree) THEN run.tree[i] ELSE nodes[i - Len(run.tree)]
    <3>1. run.tree \in Seq(Node) /\ nodes \in Seq(Node)
      BY <1>3, <1>4
    <3> QED BY ONLY <3>1, ConcatProperties
  <2> QED BY <1>3, <2>1
<1>6. Grown(t, run, able) = next
  <2>1. run = [tree |-> run.tree, revealed |-> run.revealed, rounds |-> run.rounds,
               last_best |-> run.last_best, stalled |-> run.stalled, reason |-> run.reason]
    BY DEF WellFormed, RunType
  <2>2. Grown(t, run, able)
          = [run EXCEPT !.tree = run.tree \o nodes,
                        !.revealed = run.revealed \cup (size + 1 .. size + Len(nodes)),
                        !.rounds = Append(run.rounds, size + 1 .. size + Len(nodes))]
    BY DEF Grown
  <2> HIDE DEF nodes, size
  <2> QED BY <1>3, <2>1, <2>2
<1>7. new \in SUBSET Nat /\ run.revealed \cup new = 0..size + n
  BY <1>1
<1>8. Append(run.rounds, new) \in Seq(SUBSET Nat)
  <2> HIDE DEF new
  <2> QED BY <1>4, <1>7, AppendProperties
<1>9. next \in RunType
  <2> HIDE DEF nodes, new
  <2> QED BY <1>4, <1>5, <1>7, <1>8 DEF RunType
<1>10. \A i \in 1..size + n : (run.tree \o nodes)[i].parent \in 0..i - 1
  <2> TAKE i \in 1..size + n
  <2>1. CASE i <= size
    <3>1. i \in 1..Len(run.tree)
      BY <1>1, <2>1
    <3>2. run.tree[i].parent \in 0..i - 1
      BY <3>1 DEF WellFormed
    <3>3. (run.tree \o nodes)[i] = run.tree[i]
      <4> HIDE DEF nodes, size, n
      <4> QED BY <1>5, <2>1
    <3> QED BY <3>2, <3>3
  <2>2. CASE i > size
    <3>1. i - size \in 1..n
      BY <1>1, <2>2
    <3>2. nodes[i - size].parent \in 0..size
      BY <1>2, <3>1
    <3>3. (run.tree \o nodes)[i] = nodes[i - size]
      <4>1. ~(i <= size)
        BY <1>1, <2>2
      <4> HIDE DEF nodes, size, n
      <4> QED BY <1>5, <4>1
    <3>4. 0..size \subseteq 0..i - 1
      BY <1>1, <2>2
    <3> HIDE DEF nodes, size
    <3> QED BY <3>2, <3>3, <3>4
  <2>3. i <= size \/ i > size
    BY <1>1
  <2> QED BY <2>1, <2>2, <2>3
<1>11. WellFormed(next)
  <2>1. /\ next.tree = run.tree \o nodes /\ next.revealed = 0..size + n
        /\ Len(next.tree) = size + n
    BY <1>5, <1>7
  <2>2. \A i \in 1..Len(next.tree) : next.tree[i].parent \in 0..i - 1
    <3> HIDE DEF next, nodes, size, n
    <3> QED BY <1>10, <2>1
  <2>3. Root \in next.revealed /\ next.revealed \subseteq 0..Len(next.tree)
    <3> HIDE DEF next, nodes, size, n
    <3> QED BY <1>1, <2>1 DEF Root
  <2> HIDE DEF next, nodes, size, n
  <2> QED BY <1>9, <2>2, <2>3 DEF WellFormed
<1> HIDE DEF nodes
<1> QED
  BY <1>5, <1>6, <1>7, <1>11

-----------------------------------------------------------------------------
(* On a recorded tree.                                                     *)

\* A round of a replay shows the earliest hidden child of each selected node.
LEMMA RevealingKeeps ==
  ASSUME NEW run, WellFormed(run), InOrder(run),
         NEW able, IsFiniteSet(able), able # {},
         \A c \in able : c.id \in run.revealed /\ Hidden(run, c.id) # {}
  PROVE  LET next == Revealing(run, able)
             new  == {MinOf(Hidden(run, c.id)) : c \in able}
         IN  /\ new \in SUBSET (Nat \ {Root}) /\ new # {} /\ new \cap run.revealed = {}
             /\ IsFiniteSet(new) /\ Cardinality(new) <= Cardinality(able)
             /\ WellFormed(next) /\ InOrder(next)
             /\ next.tree = run.tree
             /\ next.revealed = run.revealed \cup new
             /\ next.rounds = Append(run.rounds, new)
             /\ next.reason \in {run.reason, "fully_revealed"}
<1> DEFINE new  == {MinOf(Hidden(run, c.id)) : c \in able}
           all  == run.revealed \cup new
           more == Append(run.rounds, new)
           shown == [run EXCEPT !.revealed = all, !.rounds = more]
           next == Revealing(run, able)
<1>1. /\ run.tree \in Seq(Node) /\ run.rounds \in Seq(SUBSET Nat)
      /\ run.last_best \in 0..100 /\ run.stalled \in Nat /\ run.reason \in Words
      /\ run.revealed \in SUBSET Nat
  BY DEF WellFormed, RunType
<1>2. Len(run.tree) \in Nat /\ DOMAIN run.tree = 1..Len(run.tree)
  BY RevealedFinite
<1>3. ASSUME NEW c \in able
      PROVE  LET m == MinOf(Hidden(run, c.id))
             IN  /\ m \in 1..Len(run.tree) /\ m \notin run.revealed
                 /\ run.tree[m].parent = c.id
                 /\ \A h \in Hidden(run, c.id) : m <= h
  <2>1. Hidden(run, c.id) \in SUBSET Nat /\ Hidden(run, c.id) # {}
    BY <1>2 DEF Hidden, ChildrenOf
  <2>2. /\ MinOf(Hidden(run, c.id)) \in Hidden(run, c.id)
        /\ \A h \in Hidden(run, c.id) : MinOf(Hidden(run, c.id)) <= h
    BY <2>1, MinIsLeast
  <2> QED BY <1>2, <2>2 DEF Hidden, ChildrenOf
<1>4. /\ new \in SUBSET (Nat \ {Root}) /\ new # {} /\ new \cap run.revealed = {}
      /\ new \subseteq 1..Len(run.tree)
  <2>1. \A m \in new : m \in 1..Len(run.tree) /\ m \notin run.revealed
    BY <1>3
  <2>2. new # {}
    OBVIOUS
  <2> HIDE DEF new
  <2> QED BY <1>2, <2>1, <2>2 DEF Root
<1>5. IsFiniteSet(new) /\ Cardinality(new) <= Cardinality(able)
  <2> DEFINE f == [c \in able |-> MinOf(Hidden(run, c.id))]
  <2>1. new = {f[c] : c \in able} /\ DOMAIN f = able
    OBVIOUS
  <2> HIDE DEF f, new
  <2> QED BY <2>1, ImageBound
<1>6. Append(run.rounds, new) \in Seq(SUBSET Nat)
  <2> HIDE DEF new
  <2>1. new \in SUBSET Nat
    BY <1>4
  <2> QED BY <1>1, <2>1, AppendProperties
<1>7. /\ shown \in RunType
      /\ shown.tree = run.tree /\ shown.revealed = all
      /\ shown.rounds = more /\ shown.reason = run.reason
  <2>1. run \in RunType /\ all \in SUBSET Nat /\ more \in Seq(SUBSET Nat)
    BY <1>1, <1>4, <1>6 DEF WellFormed
  <2> HIDE DEF all, more
  <2> QED BY <2>1 DEF RunType
<1>8. next = shown \/ next = [shown EXCEPT !.reason = "fully_revealed"]
  BY DEF Revealing
<1>9. /\ next \in RunType
      /\ next.tree = run.tree /\ next.revealed = run.revealed \cup new
      /\ next.rounds = Append(run.rounds, new)
      /\ next.reason \in {run.reason, "fully_revealed"}
  <2> HIDE DEF next, shown, all, more
  <2>1. CASE next = shown
    BY <1>7, <2>1 DEF all, more
  <2>0. "fully_revealed" \in Words
    BY DEF Words
  <2>2. CASE next = [shown EXCEPT !.reason = "fully_revealed"]
    <3>0. shown \in RunType
      BY <1>7
    <3>1. /\ next \in RunType /\ next.reason = "fully_revealed"
          /\ next.tree = shown.tree /\ next.revealed = shown.revealed
          /\ next.rounds = shown.rounds
      <4> HIDE DEF Words
      <4> QED BY ONLY <3>0, <2>0, <2>2 DEF RunType
    <3> QED BY <1>7, <3>1 DEF all, more
  <2> QED BY <1>8, <2>1, <2>2
<1>10. WellFormed(next)
  <2> HIDE DEF next, new
  <2>1. run.revealed \cup new \subseteq 0..Len(run.tree)
    BY <1>2, <1>4 DEF WellFormed
  <2> QED BY <1>9, <2>1 DEF WellFormed
<1>11. InOrder(next)
  <2> SUFFICES ASSUME NEW n \in (run.revealed \cup new) \ {Root}
               PROVE  /\ run.tree[n].parent \in run.revealed \cup new
                      /\ run.tree[n].parent = Root =>
                           {m \in ChildrenOf(run.tree, Root) : m < n}
                             \subseteq run.revealed \cup new
    <3> HIDE DEF next, new
    <3> QED BY <1>9 DEF InOrder
  <2>1. CASE n \in run.revealed
    BY <2>1 DEF InOrder
  <2>2. CASE n \in new
    <3>1. PICK c \in able : n = MinOf(Hidden(run, c.id))
      BY <2>2
    <3>2. /\ run.tree[n].parent = c.id /\ c.id \in run.revealed
          /\ n \in Nat
          /\ \A h \in Hidden(run, c.id) : n <= h
      BY <1>2, <1>3, <3>1
    <3>3. ASSUME c.id = Root, NEW m \in ChildrenOf(run.tree, Root), m < n,
                 m \notin run.revealed
          PROVE  FALSE
      <4>1. m \in Hidden(run, c.id) /\ m \in Nat
        BY <1>2, <3>3 DEF Hidden, ChildrenOf
      <4> QED BY <3>2, <3>3, <4>1
    <3> HIDE DEF new
    <3> QED BY <3>2, <3>3
  <2> QED BY <2>1, <2>2
<1> HIDE DEF next, new
<1> QED
  BY <1>4, <1>5, <1>9, <1>10, <1>11 DEF next, new

-----------------------------------------------------------------------------
(* One iteration of either loop.                                           *)

\* What holds of every run, online or replayed.
Sound(run, cfg) ==
  WellFormed(run) /\ Budgeted(run, cfg) /\ Partitioned(run, cfg) /\ InOrder(run)

\* An online run has seen its whole tree.
Full(run) == run.revealed = 0..Len(run.tree)

\* The properties do not depend on why a run ended or what its best score was.
LEMMA SameSoundness ==
  ASSUME NEW run, NEW cfg \in Policies, Sound(run, cfg), NEW next, WellFormed(next),
         next.tree = run.tree, next.revealed = run.revealed, next.rounds = run.rounds
  PROVE  Sound(next, cfg)
<1>1. Budgeted(next, cfg)
  BY DEF Sound, Budgeted, Requests
<1>2. Partitioned(next, cfg)
  BY DEF Sound, Partitioned
<1>3. InOrder(next)
  BY DEF Sound, InOrder
<1> QED
  BY <1>1, <1>2, <1>3 DEF Sound

Ended(run, why) == [run EXCEPT !.reason = why]

\* Ending a run changes nothing but its reason.
LEMMA EndKeeps ==
  ASSUME NEW run, NEW cfg \in Policies, Sound(run, cfg), NEW why \in Words
  PROVE  /\ Sound(Ended(run, why), cfg) /\ Ended(run, why).reason = why
         /\ Ended(run, why).tree = run.tree /\ Ended(run, why).revealed = run.revealed
<1> DEFINE next == Ended(run, why)
<1>1. /\ next \in RunType /\ next.reason = why /\ next.tree = run.tree
      /\ next.revealed = run.revealed /\ next.rounds = run.rounds
  BY DEF Sound, WellFormed, RunType, Ended
<1>2. WellFormed(next)
  <2> HIDE DEF next
  <2> QED BY <1>1 DEF Sound, WellFormed
<1> HIDE DEF next
<1> QED
  BY <1>1, <1>2, SameSoundness DEF next

\* Online every revealed node has its parent and its elders revealed.
LEMMA FullInOrder ==
  ASSUME NEW run, WellFormed(run), Full(run)
  PROVE  InOrder(run)
<1>1. Len(run.tree) \in Nat /\ DOMAIN run.tree = 1..Len(run.tree)
  BY RevealedFinite
<1>2. ASSUME NEW n \in run.revealed \ {Root}
      PROVE  run.tree[n].parent \in run.revealed
  <2>1. n \in 1..Len(run.tree)
    BY <1>1 DEF Full, Root
  <2>2. run.tree[n].parent \in 0..n - 1
    BY <2>1 DEF WellFormed
  <2> QED BY <1>1, <2>1, <2>2 DEF Full
<1> QED
  BY <1>1, <1>2 DEF InOrder, ChildrenOf, Full

\* An iteration of online_rollout.
LEMMA RolloutKeeps ==
  ASSUME NEW cfg \in Policies, NEW t \in 1..Branches, NEW run,
         Sound(run, cfg), Full(run), run.reason \in Reasons
  PROVE  LET next == RolloutRound(cfg, t, run)
         IN  Sound(next, cfg) /\ Full(next) /\ next.reason \in Reasons
<1> DEFINE seen   == Observed(run)
           chosen == Selected(cfg, seen)
           able   == {c \in chosen : CanExpand(seen.tree, c.id)}
           next   == RolloutRound(cfg, t, run)
<1>1. /\ WellFormed(seen) /\ seen.tree = run.tree /\ seen.revealed = run.revealed
      /\ seen.rounds = run.rounds /\ seen.reason = run.reason
  BY ObservedKeeps DEF Sound
<1>2. Sound(seen, cfg) /\ Full(seen)
  <2> HIDE DEF seen
  <2> QED BY <1>1, SameSoundness DEF Full
<1>3. CASE Len(run.rounds) = MaxRounds
  <2>1. next = Ended(run, "round_limit")
    BY <1>3 DEF RolloutRound, Ended
  <2>2. /\ Sound(Ended(run, "round_limit"), cfg)
        /\ Ended(run, "round_limit").reason = "round_limit"
        /\ Ended(run, "round_limit").tree = run.tree
        /\ Ended(run, "round_limit").revealed = run.revealed
    BY EndKeeps DEF Words, Reasons
  <2> HIDE DEF next
  <2> QED BY <2>1, <2>2 DEF Full, Reasons, next
<1>4. CASE Len(run.rounds) # MaxRounds /\ chosen = {}
  <2>1. next = Ended(seen, "policy_stop")
    BY <1>4 DEF RolloutRound, Ended
  <2> HIDE DEF seen, next
  <2>2. /\ Sound(Ended(seen, "policy_stop"), cfg)
        /\ Ended(seen, "policy_stop").reason = "policy_stop"
        /\ Ended(seen, "policy_stop").tree = seen.tree
        /\ Ended(seen, "policy_stop").revealed = seen.revealed
    BY <1>2, EndKeeps DEF Words, Reasons
  <2> QED BY <1>2, <2>1, <2>2 DEF Full, Reasons, next
<1>5. CASE Len(run.rounds) # MaxRounds /\ chosen # {} /\ able = {}
  <2>1. next = Ended(seen, "exhausted")
    BY <1>5 DEF RolloutRound, Ended
  <2> HIDE DEF seen, next
  <2>2. /\ Sound(Ended(seen, "exhausted"), cfg)
        /\ Ended(seen, "exhausted").reason = "exhausted"
        /\ Ended(seen, "exhausted").tree = seen.tree
        /\ Ended(seen, "exhausted").revealed = seen.revealed
    BY <1>2, EndKeeps DEF Words, Reasons
  <2> QED BY <1>2, <2>1, <2>2 DEF Full, Reasons, next
<1>6. CASE Len(run.rounds) # MaxRounds /\ chosen # {} /\ able # {}
  <2>1. next = Grown(t, seen, able)
    BY <1>6 DEF RolloutRound
  <2>2. able \in SUBSET Selected(cfg, seen)
    OBVIOUS
  <2> DEFINE size == Len(seen.tree)
             new  == size + 1 .. size + Cardinality(able)
  <2>3. /\ able \in SUBSET Candidate /\ IsFiniteSet(able)
        /\ Cardinality(able) \in Nat \ {0} /\ Cardinality(able) <= cfg.workers
        /\ Requests(seen) < cfg.max_nodes
        /\ \A c \in able : c.id \in seen.revealed
    <3> HIDE DEF seen, able
    <3>1. able # {} /\ WellFormed(seen)
      BY <1>1, <1>6
    <3> QED BY <2>2, <3>1, SelectedBound
  <2>4. \A c \in able : CanExpand(seen.tree, c.id)
    OBVIOUS
  <2>5. /\ WellFormed(next) /\ Full(next)
        /\ next.revealed = seen.revealed \cup new
        /\ next.rounds = Append(seen.rounds, new)
        /\ next.reason = seen.reason
    <3> HIDE DEF seen, able, next
    <3>1. seen.revealed = 0..Len(seen.tree)
      BY <1>2 DEF Full
    <3>2. /\ WellFormed(Grown(t, seen, able))
          /\ Grown(t, seen, able).revealed = 0..Len(Grown(t, seen, able).tree)
          /\ Grown(t, seen, able).revealed = seen.revealed \cup new
          /\ Grown(t, seen, able).rounds = Append(seen.rounds, new)
          /\ Grown(t, seen, able).reason = seen.reason
      BY <1>1, <2>3, <2>4, <3>1, GrownKeeps
    <3> QED BY <2>1, <3>2 DEF Full
  <2>6. /\ new \in SUBSET (Nat \ {Root}) /\ IsFiniteSet(new) /\ new # {}
        /\ Cardinality(new) = Cardinality(able) /\ new \cap seen.revealed = {}
    <3> HIDE DEF seen, able
    <3>1. size \in Nat
      BY <1>1, RevealedFinite
    <3>2. IsFiniteSet(new) /\ Cardinality(new) = Cardinality(able)
      <4> DEFINE a == size + 1
                 b == size + Cardinality(able)
      <4>1. a \in Int /\ b \in Int /\ b >= a /\ b - a + 1 = Cardinality(able)
        <5> DEFINE n == Cardinality(able)
        <5>1. n \in Int /\ n > 0 /\ size \in Int
          BY <2>3, <3>1
        <5> HIDE DEF n, size
        <5> QED BY <5>1 DEF n
      <4> HIDE DEF a, b
      <4>2. IsFiniteSet(a..b) /\ Cardinality(a..b) = IF a > b THEN 0 ELSE b - a + 1
        BY <4>1, FS_Interval
      <4>3. IsFiniteSet(a..b) /\ Cardinality(a..b) = Cardinality(able)
        BY <4>1, <4>2
      <4> QED BY <4>3 DEF a, b
    <3>3. new # {}
      <4>1. size + 1 \in new
        BY <2>3, <3>1
      <4> QED BY <4>1
    <3> QED BY <1>2, <2>3, <3>1, <3>2, <3>3 DEF Full, Root
  <2>7. Len(seen.rounds) < MaxRounds
    <3>1. Len(seen.rounds) \in Nat /\ Len(seen.rounds) <= MaxRounds
      BY <1>1, <1>2, RevealedFinite DEF Sound, Partitioned
    <3> QED BY <1>1, <1>6, <3>1, SizesAssumption
  <2>8. Budgeted(next, cfg) /\ Partitioned(next, cfg)
    <3> HIDE DEF seen, able, next, new
    <3> QED BY <1>2, <2>3, <2>5, <2>6, <2>7, RoundKeeps DEF Sound
  <2>9. InOrder(next)
    <3> HIDE DEF next
    <3> QED BY <2>5, FullInOrder
  <2> HIDE DEF next, seen
  <2> QED BY <1>1, <2>5, <2>8, <2>9 DEF Sound, next
<1> QED
  BY <1>3, <1>4, <1>5, <1>6

\* An iteration of replay_tree.
LEMMA ReplayKeeps ==
  ASSUME NEW cfg \in Policies, NEW run, Sound(run, cfg),
         run.reason \in Reasons \cup {"fully_revealed"}
  PROVE  LET next == ReplayRound(cfg, run)
         IN  Sound(next, cfg) /\ next.reason \in Reasons \cup {"fully_revealed"}
<1> DEFINE seen   == Observed(run)
           chosen == Selected(cfg, seen)
           able   == {c \in chosen : Hidden(seen, c.id) # {}}
           next   == ReplayRound(cfg, run)
<1>1. /\ WellFormed(seen) /\ seen.tree = run.tree /\ seen.revealed = run.revealed
      /\ seen.rounds = run.rounds /\ seen.reason = run.reason
  BY ObservedKeeps DEF Sound
<1>2. Sound(seen, cfg)
  <2> HIDE DEF seen
  <2> QED BY <1>1, SameSoundness
<1>3. CASE Len(run.rounds) = MaxRounds
  <2>1. next = Ended(run, "round_limit")
    BY <1>3 DEF ReplayRound, Ended
  <2>2. /\ Sound(Ended(run, "round_limit"), cfg)
        /\ Ended(run, "round_limit").reason = "round_limit"
    BY EndKeeps DEF Words, Reasons
  <2> HIDE DEF next
  <2> QED BY <2>1, <2>2 DEF Reasons, next
<1>4. CASE Len(run.rounds) # MaxRounds /\ chosen = {}
  <2>1. next = Ended(seen, "policy_stop")
    BY <1>4 DEF ReplayRound, Ended
  <2> HIDE DEF seen, next
  <2>2. /\ Sound(Ended(seen, "policy_stop"), cfg)
        /\ Ended(seen, "policy_stop").reason = "policy_stop"
    BY <1>2, EndKeeps DEF Words, Reasons
  <2> QED BY <1>2, <2>1, <2>2 DEF Reasons, next
<1>5. CASE Len(run.rounds) # MaxRounds /\ chosen # {} /\ able = {}
  <2>1. next = Ended(seen, "exhausted")
    BY <1>5 DEF ReplayRound, Ended
  <2> HIDE DEF seen, next
  <2>2. /\ Sound(Ended(seen, "exhausted"), cfg)
        /\ Ended(seen, "exhausted").reason = "exhausted"
    BY <1>2, EndKeeps DEF Words, Reasons
  <2> QED BY <1>2, <2>1, <2>2 DEF Reasons, next
<1>6. CASE Len(run.rounds) # MaxRounds /\ chosen # {} /\ able # {}
  <2>1. next = Revealing(seen, able)
    BY <1>6 DEF ReplayRound
  <2>2. able \in SUBSET Selected(cfg, seen)
    OBVIOUS
  <2> DEFINE new == {MinOf(Hidden(seen, c.id)) : c \in able}
  <2>3. /\ IsFiniteSet(able) /\ Cardinality(able) \in Nat
        /\ Cardinality(able) <= cfg.workers /\ Requests(seen) < cfg.max_nodes
        /\ \A c \in able : c.id \in seen.revealed
    <3> HIDE DEF seen, able
    <3>1. able # {} /\ WellFormed(seen)
      BY <1>1, <1>6
    <3> QED BY <2>2, <3>1, SelectedBound
  <2>4. \A c \in able : Hidden(seen, c.id) # {}
    OBVIOUS
  <2>5. /\ new \in SUBSET (Nat \ {Root}) /\ new # {} /\ new \cap seen.revealed = {}
        /\ IsFiniteSet(new) /\ Cardinality(new) <= Cardinality(able)
        /\ WellFormed(next) /\ InOrder(next)
        /\ next.revealed = seen.revealed \cup new
        /\ next.rounds = Append(seen.rounds, new)
        /\ next.reason \in {seen.reason, "fully_revealed"}
    <3> HIDE DEF seen, able, next
    <3> QED BY <1>2, <1>6, <2>1, <2>3, <2>4, RevealingKeeps DEF Sound
  <2>6. Len(seen.rounds) < MaxRounds
    <3>1. Len(seen.rounds) \in Nat /\ Len(seen.rounds) <= MaxRounds
      BY <1>1, <1>2, RevealedFinite DEF Sound, Partitioned
    <3> QED BY <1>1, <1>6, <3>1, SizesAssumption
  <2>7. Cardinality(new) <= cfg.workers
    <3> HIDE DEF new, able
    <3>1. Cardinality(new) \in Nat /\ cfg.workers \in Nat
      BY <2>5, FS_CardinalityType, PoliciesAssumption
    <3> QED BY <2>3, <2>5, <3>1
  <2>8. Budgeted(next, cfg) /\ Partitioned(next, cfg)
    <3> HIDE DEF seen, able, next, new
    <3> QED BY <1>2, <2>3, <2>5, <2>6, <2>7, RoundKeeps DEF Sound
  <2> HIDE DEF next, seen, new
  <2> QED BY <1>1, <2>5, <2>8 DEF Sound, next
<1> QED
  BY <1>3, <1>4, <1>5, <1>6

-----------------------------------------------------------------------------
(* The specification.                                                      *)

\* A run starts at the root of a tree that an online run has left.
LEMMA StartSound ==
  ASSUME NEW tree \in Seq(Node), NEW cfg \in Policies,
         \A n \in 1..Len(tree) : tree[n].parent \in 0..n - 1
  PROVE  /\ Sound(StartRun(tree), cfg)
         /\ StartRun(tree).tree = tree /\ StartRun(tree).revealed = {Root}
         /\ StartRun(tree).reason = "running"
<1> DEFINE run == StartRun(tree)
<1>1. /\ run.tree = tree /\ run.revealed = {Root} /\ run.rounds = << >>
      /\ run.reason = "running"
  BY DEF StartRun
<1>2. << >> \in Seq(SUBSET Nat) /\ Len(<< >>) = 0 /\ Len(tree) \in Nat
  BY EmptySeq, LenProperties
<1>3. run \in RunType
  BY <1>2 DEF RunType, StartRun, Words, Reasons, Root
<1>4. WellFormed(run)
  <2> HIDE DEF run
  <2> QED BY <1>1, <1>2, <1>3 DEF WellFormed, Root
<1>5. Requests(run) = 0
  <2>1. run.revealed \ {Root} = {}
    BY <1>1
  <2> QED BY <2>1, FS_EmptySet DEF Requests
<1>6. Budgeted(run, cfg)
  BY <1>5, PoliciesAssumption DEF Budgeted
<1>7. Partitioned(run, cfg)
  <2> HIDE DEF run
  <2>1. {run.rounds[k] : k \in 1..Len(run.rounds)} = {}
    BY <1>1, <1>2
  <2>2. UNION {run.rounds[k] : k \in 1..Len(run.rounds)} = run.revealed \ {Root}
    BY <1>1, <2>1
  <2> QED BY <1>1, <1>2, <2>2, SizesAssumption DEF Partitioned
<1>8. InOrder(run)
  <2> HIDE DEF run
  <2> QED BY <1>1 DEF InOrder
<1> QED
  BY <1>1, <1>4, <1>6, <1>7, <1>8 DEF Sound

\* Every run is sound for the policy it is run with.
RunsAreSound ==
  /\ target \in 1..Branches /\ recorder \in Policies /\ learner \in Policies
  /\ Sound(recorded, recorder) /\ Full(recorded) /\ recorded.reason \in Reasons
  /\ Sound(replayed, learner) /\ replayed.reason \in Words
  /\ Sound(own, learner) /\ Full(own) /\ own.reason \in Reasons

\* Soundness of the three runs is inductive.
LEMMA SoundnessHolds == Spec => []RunsAreSound
<1>1. Init => RunsAreSound
  <2> SUFFICES ASSUME Init PROVE RunsAreSound
    OBVIOUS
  <2>1. << >> \in Seq(Node) /\ Len(<< >>) = 0
    BY EmptySeq
  <2>2. \A n \in 1..Len(<< >>) : << >>[n].parent \in 0..n - 1
    BY <2>1
  <2>3. \A cfg \in Policies :
          /\ Sound(StartRun(<< >>), cfg)
          /\ StartRun(<< >>).tree = << >> /\ StartRun(<< >>).revealed = {Root}
          /\ StartRun(<< >>).reason = "running"
    BY <2>1, <2>2, StartSound
  <2>4. recorder \in Policies /\ learner \in Policies /\ target \in 1..Branches
    BY DEF Init
  <2>5. Full(StartRun(<< >>))
    <3>1. {Root} = 0..Len(<< >>)
      BY <2>1 DEF Root
    <3> QED BY <2>3, <2>4, <3>1 DEF Full
  <2>6. "waiting" \in Words /\ "running" \in Reasons
    BY DEF Words, Reasons
  <2>7. Sound(Ended(StartRun(<< >>), "waiting"), learner)
        /\ Ended(StartRun(<< >>), "waiting").reason = "waiting"
    BY <2>3, <2>4, <2>6, EndKeeps
  <2>8. /\ recorded = StartRun(<< >>) /\ own = StartRun(<< >>)
        /\ replayed = Ended(StartRun(<< >>), "waiting")
    BY DEF Init, Ended
  <2> QED BY <2>3, <2>4, <2>5, <2>6, <2>7, <2>8 DEF RunsAreSound
<1>2. RunsAreSound /\ [Next]_vars => RunsAreSound'
  <2> SUFFICES ASSUME RunsAreSound, [Next]_vars PROVE RunsAreSound'
    OBVIOUS
  <2>1. CASE Record
    <3>1. Sound(recorded', recorder) /\ Full(recorded') /\ recorded'.reason \in Reasons
      BY <2>1, RolloutKeeps DEF Record, RunsAreSound
    <3> QED BY <2>1, <3>1 DEF Record, RunsAreSound
  <2>2. CASE BeginReplay
    <3>1. /\ recorded.tree \in Seq(Node)
          /\ \A n \in 1..Len(recorded.tree) : recorded.tree[n].parent \in 0..n - 1
      BY DEF RunsAreSound, Sound, WellFormed, RunType
    <3>2. Sound(StartRun(recorded.tree), learner)
          /\ StartRun(recorded.tree).reason = "running"
      BY <3>1, StartSound DEF RunsAreSound
    <3> QED BY <2>2, <3>2 DEF BeginReplay, RunsAreSound, Words, Reasons
  <2>3. CASE ReplayOnce
    <3>1. replayed.reason \in Reasons \cup {"fully_revealed"}
      BY <2>3 DEF ReplayOnce, Running, Reasons
    <3>2. Sound(replayed', learner)
          /\ replayed'.reason \in Reasons \cup {"fully_revealed"}
      BY <2>3, <3>1, ReplayKeeps DEF ReplayOnce, RunsAreSound
    <3> QED BY <2>3, <3>2 DEF ReplayOnce, RunsAreSound, Words
  <2>4. CASE Explore
    <3>1. Sound(own', learner) /\ Full(own') /\ own'.reason \in Reasons
      BY <2>4, RolloutKeeps DEF Explore, RunsAreSound
    <3> QED BY <2>4, <3>1 DEF Explore, RunsAreSound
  <2>5. CASE UNCHANGED vars
    BY <2>5 DEF vars, RunsAreSound
  <2> QED BY <2>1, <2>2, <2>3, <2>4, <2>5 DEF Next
<1> QED BY <1>1, <1>2, PTL DEF Spec

\* Runs are over nodes of their trees, and online over all of them.
THEOREM ReplayTypes == Spec => []TypeOK
<1>1. RunsAreSound => TypeOK
  <2> SUFFICES ASSUME RunsAreSound PROVE TypeOK
    OBVIOUS
  <2>1. ASSUME NEW run, NEW cfg \in Policies, Sound(run, cfg)
        PROVE  RunOK(run) /\ DOMAIN run.tree = 1..Len(run.tree)
    <3>1. WellFormed(run)
      BY <2>1 DEF Sound
    <3>2. /\ Len(run.tree) \in Nat /\ DOMAIN run.tree = 1..Len(run.tree)
      BY <3>1, RevealedFinite
    <3>3. run.revealed \subseteq {Root} \cup DOMAIN run.tree
      BY <3>1, <3>2 DEF WellFormed, Root
    <3>4. \A k \in 1..Len(run.rounds) : run.rounds[k] \subseteq DOMAIN run.tree
      <4> TAKE k \in 1..Len(run.rounds)
      <4>1. run.rounds[k] \subseteq run.revealed \ {Root}
        BY <2>1 DEF Sound, Partitioned
      <4> QED BY <3>3, <4>1
    <3> QED BY <3>1, <3>2, <3>3, <3>4 DEF RunOK, WellFormed, RunType
  <2>2. RunOK(recorded) /\ RunOK(replayed) /\ RunOK(own)
    BY <2>1 DEF RunsAreSound
  <2>3. replayed.reason \in Reasons \cup {"waiting", "fully_revealed"}
    BY DEF RunsAreSound, Words
  <2> QED BY <2>2, <2>3 DEF TypeOK, RunsAreSound, Full
<1> QED BY <1>1, SoundnessHolds, PTL

\* No run, online or replayed, exceeds its budget by a whole round, whatever
\* the policies, the incident and the tree.
THEOREM BudgetHolds == Spec => []BudgetKept
<1>1. RunsAreSound => BudgetKept
  BY DEF RunsAreSound, Sound, BudgetKept
<1> QED BY <1>1, SoundnessHolds, PTL

\* Every round shows something new, the rounds divide what was revealed, and
\* there are no more of them than the limit.
THEOREM RoundsDivide == Spec => []RoundsPartition
<1>1. RunsAreSound => RoundsPartition
  BY DEF RunsAreSound, Sound, RoundsPartition
<1> QED BY <1>1, SoundnessHolds, PTL

\* A replay never shows a node before its parent or before an elder branch.
THEOREM OrderHolds == Spec => []LooksInOrder
<1>1. RunsAreSound => LooksInOrder
  BY DEF RunsAreSound, Sound, LooksInOrder
<1> QED BY <1>1, SoundnessHolds, PTL

-----------------------------------------------------------------------------
(* A replay by the policy that recorded the tree.                          *)

Begins(s, t) == Len(s) <= Len(t) /\ \A i \in 1..Len(s) : t[i] = s[i]

\* A branch is opened once.
OneBranchEach(tree) ==
  \A m, n \in ChildrenOf(tree, Root) : tree[m].branch = tree[n].branch => m = n

\* The replay r has revealed what the online run o has grown.
Alike(r, o) ==
  /\ WellFormed(r) /\ WellFormed(o) /\ Full(o)
  /\ Begins(o.tree, r.tree)
  /\ r.revealed = o.revealed /\ r.rounds = o.rounds
  /\ r.last_best = o.last_best /\ r.stalled = o.stalled

-----------------------------------------------------------------------------
(* What both see.                                                          *)

\* Where the trees agree.
LEMMA SameNodes ==
  ASSUME NEW r, NEW o, Alike(r, o)
  PROVE  /\ \A n \in o.revealed : n = Root \/ (n \in DOMAIN o.tree /\ n \in DOMAIN r.tree)
         /\ \A n \in o.revealed : n # Root => r.tree[n] = o.tree[n]
         /\ \A p : ChildrenOf(r.tree, p) \cap r.revealed = ChildrenOf(o.tree, p) \cap o.revealed
<1>1. /\ Len(o.tree) \in Nat /\ DOMAIN o.tree = 1..Len(o.tree)
      /\ Len(r.tree) \in Nat /\ DOMAIN r.tree = 1..Len(r.tree)
  BY RevealedFinite DEF Alike
<1>2. /\ o.revealed = 0..Len(o.tree) /\ r.revealed = o.revealed
      /\ Len(o.tree) <= Len(r.tree)
      /\ \A i \in 1..Len(o.tree) : r.tree[i] = o.tree[i]
  BY DEF Alike, Full, Begins
<1> QED
  BY <1>1, <1>2 DEF ChildrenOf, Root

\* They find the same best score,
LEMMA ObservedAlike ==
  ASSUME NEW r, NEW o, Alike(r, o)
  PROVE  Alike(Observed(r), Observed(o))
<1>1. \A n \in o.revealed : ScoreOf(r.tree, n) = ScoreOf(o.tree, n)
  BY SameNodes DEF ScoreOf
<1>2. BestScore(r.tree, r.revealed) = BestScore(o.tree, o.revealed)
  <2>1. {ScoreOf(r.tree, n) : n \in r.revealed} = {ScoreOf(o.tree, n) : n \in o.revealed}
    BY <1>1 DEF Alike
  <2> QED
    BY <2>1 DEF BestScore
<1>3. /\ Observed(r).last_best = Observed(o).last_best
      /\ Observed(r).stalled = Observed(o).stalled
  <2>1. r \in RunType /\ o \in RunType
    BY DEF Alike, WellFormed
  <2>2. \A run \in RunType :
          /\ Observed(run).last_best = BestScore(run.tree, run.revealed)
          /\ Observed(run).stalled = IF BestScore(run.tree, run.revealed) > run.last_best
                                     THEN 0 ELSE run.stalled + 1
    BY DEF Observed, RunType
  <2> QED
    BY <1>2, <2>1, <2>2 DEF Alike
<1>4. /\ WellFormed(Observed(r)) /\ WellFormed(Observed(o))
      /\ Observed(r).tree = r.tree /\ Observed(o).tree = o.tree
      /\ Observed(r).revealed = r.revealed /\ Observed(o).revealed = o.revealed
      /\ Observed(r).rounds = r.rounds /\ Observed(o).rounds = o.rounds
  BY ObservedKeeps DEF Alike
<1> QED
  BY <1>3, <1>4 DEF Alike, Full

\* and select the same.
LEMMA SelectedAlike ==
  ASSUME NEW r, NEW o, Alike(r, o), NEW cfg \in Policies
  PROVE  Selected(cfg, r) = Selected(cfg, o)
<1>1. RootChildren(r) = RootChildren(o)
  BY SameNodes DEF RootChildren
<1>2. Leaves(r.tree, r.revealed) = Leaves(o.tree, o.revealed)
  BY SameNodes DEF Leaves, Alike
<1>3. \A n \in o.revealed : Priority(cfg, r, n) = Priority(cfg, o, n)
  <2> TAKE n \in o.revealed
  <2>1. CASE n = Root
    BY <1>1, <2>1 DEF Priority, Alike
  <2>2. CASE n # Root
    BY <2>2, SameNodes DEF Priority
  <2> QED
    BY <2>1, <2>2
<1>4. Candidates(cfg, r) = Candidates(cfg, o)
  <2> DEFINE ids(run) == {m \in Leaves(run.tree, run.revealed) : run.tree[m].depth < MaxDepth}
                          \cup (IF RootChildren(run) < cfg.max_branches THEN {Root} ELSE {})
  <2>1. ids(r) = ids(o)
    BY <1>1, <1>2, SameNodes DEF Leaves
  <2>2. ids(o) \subseteq o.revealed
    BY DEF Leaves, Alike, WellFormed
  <2>3. \A run : Candidates(cfg, run) = {[id |-> n, value |-> Priority(cfg, run, n)] : n \in ids(run)}
    BY DEF Candidates
  <2> HIDE DEF ids
  <2> QED
    BY <1>3, <2>1, <2>2, <2>3
<1>5. Stops(cfg, r) <=> Stops(cfg, o)
  BY DEF Stops, Requests, Alike
<1> QED
  BY <1>4, <1>5 DEF Selected

\* A node is a candidate once.
LEMMA IdsDiffer ==
  ASSUME NEW cfg, NEW run, NEW c \in Selected(cfg, run), NEW d \in Selected(cfg, run),
         c.id = d.id
  PROVE  c = d
<1>1. c \in Candidates(cfg, run) /\ d \in Candidates(cfg, run)
  BY DEF Selected
<1> QED
  BY <1>1 DEF Candidates

-----------------------------------------------------------------------------
(* What the online run grows.                                              *)

\* The new nodes are in the order of the candidates.
LEMMA GrownTree ==
  ASSUME NEW run, WellFormed(run), run.revealed = 0..Len(run.tree),
         NEW t \in 1..Branches,
         NEW able \in SUBSET Candidate, IsFiniteSet(able), Cardinality(able) \in Nat \ {0},
         \A c \in able : c.id \in run.revealed /\ CanExpand(run.tree, c.id)
  PROVE  LET next == Grown(t, run, able)
             size == Len(run.tree)
         IN  /\ Len(next.tree) = size + Cardinality(able)
             /\ Begins(run.tree, next.tree)
             /\ \A k \in 1..Cardinality(able) : \E c \in able :
                  Rank(able, c) = k - 1 /\ next.tree[size + k] = Expanded(t, run.tree, c.id)
             /\ next.last_best = run.last_best /\ next.stalled = run.stalled
<1> DEFINE size == Len(run.tree)
           n    == Cardinality(able)
           At(k) == CHOOSE c \in able : Rank(able, c) = k - 1
           nodes == [k \in 1..n |-> Expanded(t, run.tree, At(k).id)]
           next == Grown(t, run, able)
<1>1. size \in Nat /\ n \in Nat /\ n > 0
  BY RevealedFinite
<1>2. \A k \in 1..n : At(k) \in able /\ Rank(able, At(k)) = k - 1
  <2> TAKE k \in 1..n
  <2> QED BY PlaceIsTaken
<1>3. nodes \in Seq(Node) /\ Len(nodes) = n
  <2>1. \A k \in 1..n : Expanded(t, run.tree, At(k).id) \in Node
    <3> TAKE k \in 1..n
    <3>1. At(k).id \in 0..size /\ CanExpand(run.tree, At(k).id)
      BY <1>2
    <3> HIDE DEF At
    <3> QED BY <3>1, ExpandedType
  <2> HIDE DEF At
  <2> QED BY <1>1, <2>1
<1>4. /\ next.tree = run.tree \o nodes
      /\ next.last_best = run.last_best /\ next.stalled = run.stalled
  <2>1. run \in RunType
    BY DEF WellFormed
  <2>2. next = [run EXCEPT !.tree = run.tree \o nodes,
                           !.revealed = run.revealed \cup (size + 1 .. size + Len(nodes)),
                           !.rounds = Append(run.rounds, size + 1 .. size + Len(nodes))]
    BY DEF Grown
  <2> HIDE DEF nodes, next, size
  <2> QED BY <2>1, <2>2 DEF RunType
<1>5. /\ Len(next.tree) = size + n
      /\ \A i \in 1..size : next.tree[i] = run.tree[i]
      /\ \A k \in 1..n : next.tree[size + k] = nodes[k]
  <2>1. run.tree \in Seq(Node)
    BY DEF WellFormed, RunType
  <2> HIDE DEF nodes, n, next
  <2>2. /\ Len(run.tree \o nodes) = Len(run.tree) + Len(nodes)
        /\ \A i \in 1..Len(run.tree) + Len(nodes) :
             (run.tree \o nodes)[i] =
               IF i <= Len(run.tree) THEN run.tree[i] ELSE nodes[i - Len(run.tree)]
    BY ONLY <1>3, <2>1, ConcatProperties
  <2>3. /\ \A i \in 1..size : i \in 1..size + n /\ i <= size
        /\ \A k \in 1..n : /\ size + k \in 1..size + n
                           /\ ~(size + k <= size) /\ (size + k) - size = k
    BY <1>1
  <2> QED
    BY <1>3, <1>4, <2>2, <2>3
<1>6. \A k \in 1..n : nodes[k] = Expanded(t, run.tree, At(k).id)
  OBVIOUS
<1>7. Begins(run.tree, next.tree)
  <2> HIDE DEF next, n
  <2>1. size <= size + n
    BY <1>1
  <2> QED BY <1>5, <2>1 DEF Begins
<1>8. \A k \in 1..n : \E c \in able :
        Rank(able, c) = k - 1 /\ next.tree[size + k] = Expanded(t, run.tree, c.id)
  <2> HIDE DEF next, nodes, At, n
  <2> QED BY <1>2, <1>5, <1>6
<1> HIDE DEF next
<1> QED
  BY <1>4, <1>5, <1>7, <1>8 DEF next

\* No round opens a branch again.
LEMMA BranchesStayApart ==
  ASSUME NEW run, WellFormed(run), run.revealed = 0..Len(run.tree),
         OneBranchEach(run.tree), NEW t \in 1..Branches,
         NEW able \in SUBSET Candidate, IsFiniteSet(able), Cardinality(able) \in Nat \ {0},
         \A c \in able : c.id \in run.revealed /\ CanExpand(run.tree, c.id),
         \A c, d \in able : c.id = d.id => c = d
  PROVE  OneBranchEach(Grown(t, run, able).tree)
<1> DEFINE next == Grown(t, run, able)
           size == Len(run.tree)
           n    == Cardinality(able)
           new  == size + 1 .. size + n
<1>1. size \in Nat /\ n \in Nat /\ n > 0 /\ DOMAIN run.tree = 1..size
  BY RevealedFinite
<1>2. /\ Len(next.tree) = size + n
      /\ Begins(run.tree, next.tree)
      /\ \A k \in 1..n : \E c \in able :
           Rank(able, c) = k - 1 /\ next.tree[size + k] = Expanded(t, run.tree, c.id)
  BY GrownTree
<1>3. DOMAIN next.tree = 1..size + n
  <2>1. WellFormed(next)
    BY GrownKeeps
  <2> HIDE DEF next
  <2> QED BY <1>2, <2>1, RevealedFinite
<1> HIDE DEF next, n
<1>4. \A m \in ChildrenOf(next.tree, Root) :
        \/ m \in ChildrenOf(run.tree, Root) /\ next.tree[m] = run.tree[m]
        \/ \E c \in able : /\ c.id = Root /\ m = size + 1 + Rank(able, c)
                           /\ next.tree[m] = Expanded(t, run.tree, Root)
  <2> TAKE m \in ChildrenOf(next.tree, Root)
  <2>1. m \in 1..size + n /\ next.tree[m].parent = Root
    BY <1>3 DEF ChildrenOf
  <2>2. CASE m <= size
    <3>1. m \in 1..size
      BY <1>1, <2>1, <2>2
    <3>2. next.tree[m] = run.tree[m]
      BY <1>2, <3>1 DEF Begins
    <3> QED
      BY <1>1, <2>1, <3>1, <3>2 DEF ChildrenOf
  <2>3. CASE m > size
    <3>1. m - size \in 1..n /\ size + (m - size) = m
      BY <1>1, <2>1, <2>3
    <3>2. PICK c \in able : /\ Rank(able, c) = (m - size) - 1
                            /\ next.tree[m] = Expanded(t, run.tree, c.id)
      BY <1>2, <3>1
    <3>3. Expanded(t, run.tree, c.id).parent = c.id
      BY DEF Expanded
    <3>4. m = size + 1 + Rank(able, c)
      BY <1>1, <2>1, <3>2
    <3> QED
      BY <2>1, <3>2, <3>3, <3>4
  <2> QED
    BY <1>1, <2>1, <2>2, <2>3
<1>5. \A c \in able : c.id = Root =>
        \A m \in ChildrenOf(run.tree, Root) : run.tree[m].branch # Expanded(t, run.tree, Root).branch
  <2> SUFFICES ASSUME NEW c \in able, c.id = Root
               PROVE  \A m \in ChildrenOf(run.tree, Root) :
                        run.tree[m].branch # Expanded(t, run.tree, Root).branch
    OBVIOUS
  <2>1. Unopened(run.tree) # {} /\ Unopened(run.tree) \in SUBSET Nat
    BY SizesAssumption DEF CanExpand, Unopened
  <2>2. MinOf(Unopened(run.tree)) \in Unopened(run.tree)
    BY <2>1, MinIsLeast
  <2>3. Expanded(t, run.tree, Root).branch = MinOf(Unopened(run.tree))
    BY DEF Expanded
  <2>4. Expanded(t, run.tree, Root).branch \in Unopened(run.tree)
    BY <2>2, <2>3
  <2> QED
    BY <2>4 DEF Unopened
<1>6. ASSUME NEW m \in ChildrenOf(next.tree, Root), NEW o \in ChildrenOf(next.tree, Root),
             next.tree[m].branch = next.tree[o].branch
      PROVE  m = o
  <2>1. \A c, d \in able : c.id = Root /\ d.id = Root => c = d
    OBVIOUS
  <2> QED
    BY <1>4, <1>5, <1>6, <2>1 DEF OneBranchEach
<1> QED
  BY <1>6 DEF OneBranchEach, next

-----------------------------------------------------------------------------
(* What the replay finds.                                                  *)

\* The earliest hidden child of a node that was expanded is the one that was
\* created in this round, and a node that could not be expanded has none.
LEMMA FindsWhatGrew ==
  ASSUME NEW r, NEW o, Alike(r, o), OneBranchEach(r.tree),
         NEW t \in 1..Branches, NEW cfg \in Policies,
         NEW able \in SUBSET Selected(cfg, o), able # {},
         \A c \in Selected(cfg, o) : c \in able <=> CanExpand(o.tree, c.id),
         Begins(Grown(t, o, able).tree, r.tree)
  PROVE  /\ {c \in Selected(cfg, r) : Hidden(r, c.id) # {}} = able
         /\ {MinOf(Hidden(r, c.id)) : c \in able}
              = Len(o.tree) + 1 .. Len(o.tree) + Cardinality(able)
<1> DEFINE next == Grown(t, o, able)
           size == Len(o.tree)
           n    == Cardinality(able)
<1>1. /\ size \in Nat /\ DOMAIN o.tree = 1..size
      /\ Len(r.tree) \in Nat /\ DOMAIN r.tree = 1..Len(r.tree)
      /\ \A i \in 1..Len(r.tree) : r.tree[i] \in Node
      /\ \A i \in 1..size : o.tree[i] \in Node
  BY RevealedFinite DEF Alike
<1>2. /\ able \in SUBSET Candidate /\ IsFiniteSet(able) /\ n \in Nat /\ n > 0
      /\ \A c \in Selected(cfg, o) :
           c.id \in o.revealed /\ (c.id # Root => o.tree[c.id].depth < MaxDepth)
  <2>1. WellFormed(o)
    BY DEF Alike
  <2> DEFINE S == Selected(cfg, o)
  <2>2. S \in SUBSET Selected(cfg, o)
    OBVIOUS
  <2>3. \A c \in S :
          c.id \in o.revealed /\ (c.id # Root => o.tree[c.id].depth < MaxDepth)
    <3> HIDE DEF S
    <3> QED BY <2>1, <2>2, SelectedBound
  <2>4. able \in SUBSET Selected(cfg, o)
    OBVIOUS
  <2>5. /\ able \in SUBSET Candidate /\ IsFiniteSet(able)
        /\ Cardinality(able) \in Nat /\ Cardinality(able) > 0
    BY <2>1, <2>4, SelectedBound
  <2> QED BY <2>3, <2>5
<1>3. \A c \in able : c.id \in o.revealed /\ CanExpand(o.tree, c.id)
  BY <1>2
<1>4. o.revealed = 0..size /\ r.revealed = 0..size
  BY DEF Alike, Full
<1>5. /\ Len(next.tree) = size + n
      /\ \A k \in 1..n : \E c \in able :
           Rank(able, c) = k - 1 /\ next.tree[size + k] = Expanded(t, o.tree, c.id)
  <2>1. Cardinality(able) \in Nat \ {0} /\ WellFormed(o) /\ o.revealed = 0..Len(o.tree)
    BY <1>2 DEF Alike, Full
  <2> QED BY ONLY <1>2, <1>3, <2>1, t \in 1..Branches, GrownTree
<1>6. /\ size + n <= Len(r.tree)
      /\ \A i \in 1..size + n : r.tree[i] = next.tree[i]
  BY <1>5 DEF Begins
<1> HIDE DEF next, n, size
<1>7. Selected(cfg, r) = Selected(cfg, o)
  BY SelectedAlike
<1>8. ASSUME NEW c \in able
      PROVE  Rank(able, c) \in Nat /\ Rank(able, c) < n
  <2>1. Rank(able, c) \in 0..Cardinality(able) - 1
    BY <1>2, RankIsPlace
  <2> QED
    BY <1>2, <2>1 DEF n
\* A new node is a child of the candidate at its place,
<1>9. ASSUME NEW k \in 1..n, NEW c \in able
      PROVE  r.tree[size + k].parent = c.id <=> k = Rank(able, c) + 1
  <2>1. PICK d \in able :
          Rank(able, d) = k - 1 /\ next.tree[size + k] = Expanded(t, o.tree, d.id)
    BY <1>5
  <2>2. Expanded(t, o.tree, d.id).parent = d.id
    BY DEF Expanded
  <2>3. size + k \in 1..size + n
    BY <1>1, <1>2
  <2>4. r.tree[size + k].parent = d.id
    BY <1>6, <2>1, <2>2, <2>3
  <2>5. d.id = c.id <=> d = c
    BY IdsDiffer
  <2>6. k = Rank(able, c) + 1 <=> Rank(able, c) = Rank(able, d)
    BY <1>8, <2>1
  <2>7. Rank(able, c) = Rank(able, d) => c = d
    BY <1>2, RankIsPlace
  <2> QED
    BY <2>4, <2>5, <2>6, <2>7
\* and the earliest one that is hidden.
<1>10. ASSUME NEW c \in able
       PROVE  /\ Hidden(r, c.id) # {}
              /\ MinOf(Hidden(r, c.id)) = size + 1 + Rank(able, c)
  <2> DEFINE m == size + 1 + Rank(able, c)
  <2>1. m \in size + 1 .. size + n /\ m \in 1..Len(r.tree) /\ m \notin r.revealed
    BY <1>1, <1>2, <1>4, <1>6, <1>8
  <2>2. r.tree[m].parent = c.id
    <3>1. Rank(able, c) + 1 \in 1..n
      BY <1>2, <1>8
    <3>2. m = size + (Rank(able, c) + 1)
      BY <1>1, <1>8
    <3> QED
      BY <1>9, <3>1, <3>2
  <2>3. m \in Hidden(r, c.id)
    BY <1>1, <2>1, <2>2 DEF Hidden, ChildrenOf
  <2>4. \A h \in Hidden(r, c.id) : m <= h
    <3> SUFFICES ASSUME NEW h \in Hidden(r, c.id), h < m
                 PROVE  FALSE
      BY <1>1, <2>1 DEF Hidden, ChildrenOf
    <3>1. h \in 1..Len(r.tree) /\ h \notin 0..size /\ r.tree[h].parent = c.id
      BY <1>1, <1>4 DEF Hidden, ChildrenOf
    <3>2. h - size \in 1..n /\ size + (h - size) = h
      BY <1>1, <1>2, <2>1, <3>1
    <3>3. h - size = Rank(able, c) + 1
      BY <1>9, <3>1, <3>2
    <3> QED
      BY <1>1, <1>8, <3>1, <3>3
  <2>5. Hidden(r, c.id) \in SUBSET Nat
    BY <1>1 DEF Hidden, ChildrenOf
  <2>6. /\ MinOf(Hidden(r, c.id)) \in Hidden(r, c.id)
        /\ \A h \in Hidden(r, c.id) : MinOf(Hidden(r, c.id)) <= h
    BY <2>3, <2>5, MinIsLeast
  <2>7. MinOf(Hidden(r, c.id)) = m
    <3> HIDE DEF m
    <3> QED BY <2>1, <2>3, <2>4, <2>5, <2>6
  <2> QED
    BY <2>3, <2>7
\* A candidate that cannot be expanded is the root, with all branches open.
<1>11. ASSUME NEW c \in Selected(cfg, o), ~CanExpand(o.tree, c.id)
       PROVE  Hidden(r, c.id) = {}
  <2>1. c.id = Root
    BY <1>2, <1>11 DEF CanExpand
  <2>2. Unopened(o.tree) = {}
    BY <1>11, <2>1 DEF CanExpand
  <2> SUFFICES ASSUME NEW h \in Hidden(r, Root)
               PROVE  FALSE
    BY <2>1
  <2>3. h \in 1..Len(r.tree) /\ h > size /\ h \in ChildrenOf(r.tree, Root)
    BY <1>1, <1>4 DEF Hidden, ChildrenOf
  <2>4. r.tree[h].branch \in 1..Branches
    BY <1>1, <2>3 DEF Node
  <2>5. PICK i \in ChildrenOf(o.tree, Root) : o.tree[i].branch = r.tree[h].branch
    BY <2>2, <2>4 DEF Unopened
  <2>6. i \in 1..size
    BY <1>1 DEF ChildrenOf
  <2>7. r.tree[i] = o.tree[i] /\ i \in 1..Len(r.tree)
    BY <1>1, <2>6 DEF Alike, Begins
  <2>8. i \in ChildrenOf(r.tree, Root)
    BY <1>1, <2>7 DEF ChildrenOf
  <2>9. i = h
    BY <2>3, <2>5, <2>7, <2>8 DEF OneBranchEach
  <2> QED
    BY <1>1, <2>3, <2>6, <2>9
<1>12. {c \in Selected(cfg, r) : Hidden(r, c.id) # {}} = able
  BY <1>7, <1>10, <1>11
<1>13. {MinOf(Hidden(r, c.id)) : c \in able} = size + 1 .. size + n
  <2>1. \A c \in able : MinOf(Hidden(r, c.id)) \in size + 1 .. size + n
    BY <1>1, <1>2, <1>8, <1>10
  <2>2. \A m \in size + 1 .. size + n : \E c \in able : MinOf(Hidden(r, c.id)) = m
    <3> TAKE m \in size + 1 .. size + n
    <3>1. m - size \in 1..n
      BY <1>1, <1>2
    <3>2. PICK c \in able : Rank(able, c) = (m - size) - 1
      BY <1>2, <3>1, PlaceIsTaken DEF n
    <3> QED
      BY <1>1, <1>10, <3>2
  <2> QED
    BY <2>1, <2>2
<1> QED
  BY <1>12, <1>13 DEF n, size

-----------------------------------------------------------------------------
(* The trail.                                                              *)

\* The candidates that an online round expands.
Able(cfg, seen) == {c \in Selected(cfg, seen) : CanExpand(seen.tree, c.id)}

\* A round of an online run grows its tree or is its last one.
LEMMA GrowsOrEnds ==
  ASSUME NEW cfg \in Policies, NEW t \in 1..Branches, NEW run,
         Sound(run, cfg), Full(run), Running(run), OneBranchEach(run.tree)
  PROVE  LET seen == Observed(run)
             next == RolloutRound(cfg, t, run)
             new  == Len(run.tree) + 1 .. Len(run.tree) + Cardinality(Able(cfg, seen))
         IN  \/ /\ Running(next)
                /\ Len(run.rounds) # MaxRounds /\ Able(cfg, seen) # {}
                /\ next = Grown(t, seen, Able(cfg, seen))
                /\ Begins(run.tree, next.tree) /\ OneBranchEach(next.tree)
                /\ next.rounds = Append(run.rounds, new)
                /\ next.revealed = run.revealed \cup new
                /\ next.last_best = seen.last_best /\ next.stalled = seen.stalled
             \/ /\ ~Running(next)
                /\ Len(run.rounds) = MaxRounds \/ Able(cfg, seen) = {}
                /\ next.tree = run.tree /\ next.revealed = run.revealed
                /\ next.rounds = run.rounds
<1> DEFINE seen   == Observed(run)
           chosen == Selected(cfg, seen)
           able   == {c \in chosen : CanExpand(seen.tree, c.id)}
           next   == RolloutRound(cfg, t, run)
<1>1. /\ WellFormed(seen) /\ seen.tree = run.tree /\ seen.revealed = run.revealed
      /\ seen.rounds = run.rounds /\ seen.reason = "running"
  BY ObservedKeeps DEF Sound, Running
<1>2. run \in RunType /\ seen \in RunType
  BY <1>1 DEF Sound, WellFormed
<1>3. ASSUME NEW why \in {"round_limit", "policy_stop", "exhausted"}
      PROVE  \A a \in RunType :
               /\ ~Running([a EXCEPT !.reason = why])
               /\ [a EXCEPT !.reason = why].tree = a.tree
               /\ [a EXCEPT !.reason = why].revealed = a.revealed
               /\ [a EXCEPT !.reason = why].rounds = a.rounds
  BY DEF RunType, Running
<1>4. CASE Len(run.rounds) = MaxRounds
  <2>1. next = [run EXCEPT !.reason = "round_limit"]
    BY <1>4 DEF RolloutRound
  <2> HIDE DEF next, able, seen, Able
  <2> QED BY <1>2, <1>3, <1>4, <2>1 DEF next, able, seen, Able
<1>5. CASE Len(run.rounds) # MaxRounds /\ able = {}
  <2>1. next = [seen EXCEPT !.reason = "policy_stop"] \/ next = [seen EXCEPT !.reason = "exhausted"]
    BY <1>5 DEF RolloutRound
  <2> HIDE DEF next, able, seen, Able
  <2>2. ~Running(next) /\ next.tree = run.tree /\ next.revealed = run.revealed
        /\ next.rounds = run.rounds
    <3>1. CASE next = [seen EXCEPT !.reason = "policy_stop"]
      BY <1>1, <1>2, <1>3, <3>1
    <3>2. CASE next = [seen EXCEPT !.reason = "exhausted"]
      BY <1>1, <1>2, <1>3, <3>2
    <3> QED BY <2>1, <3>1, <3>2
  <2> QED BY <1>5, <2>2 DEF next, able, seen, Able
<1>6. CASE Len(run.rounds) # MaxRounds /\ able # {}
  <2>1. next = Grown(t, seen, able)
    BY <1>6 DEF RolloutRound
  <2>2. able \in SUBSET chosen /\ \A c \in able : CanExpand(seen.tree, c.id)
    OBVIOUS
  <2>3. seen.revealed = 0..Len(seen.tree) /\ OneBranchEach(seen.tree)
    BY <1>1 DEF Full
  <2> HIDE DEF next, able, seen, Able
  <2>4. /\ able \in SUBSET Candidate /\ IsFiniteSet(able) /\ Cardinality(able) \in Nat \ {0}
        /\ \A c \in able : c.id \in seen.revealed
    BY <1>1, <1>6, <2>2, SelectedBound
  <2>5. \A c, d \in able : c.id = d.id => c = d
    BY <2>2, IdsDiffer
  <2>6. /\ WellFormed(Grown(t, seen, able))
        /\ Grown(t, seen, able).revealed = 0..Len(Grown(t, seen, able).tree)
        /\ Grown(t, seen, able).rounds
             = Append(seen.rounds, Len(seen.tree) + 1 .. Len(seen.tree) + Cardinality(able))
        /\ Grown(t, seen, able).revealed
             = seen.revealed \cup (Len(seen.tree) + 1 .. Len(seen.tree) + Cardinality(able))
        /\ Grown(t, seen, able).reason = seen.reason
    <3>1. WellFormed(seen) /\ seen.revealed = 0..Len(seen.tree)
      BY <1>1, <2>3
    <3>2. \A c \in able : c.id \in seen.revealed /\ CanExpand(seen.tree, c.id)
      BY <2>2, <2>4
    <3> DEFINE grown == Grown(t, seen, able)
    <3>3. /\ WellFormed(grown)
          /\ grown.revealed = 0..Len(grown.tree)
          /\ grown.revealed = seen.revealed \cup (Len(seen.tree) + 1 .. Len(seen.tree) + Cardinality(able))
          /\ grown.rounds = Append(seen.rounds, Len(seen.tree) + 1 .. Len(seen.tree) + Cardinality(able))
          /\ grown.reason = seen.reason
      BY ONLY <2>4, <3>1, <3>2, t \in 1..Branches, GrownKeeps
    <3> QED BY <3>3
  <2>7. /\ Begins(seen.tree, Grown(t, seen, able).tree)
        /\ Grown(t, seen, able).last_best = seen.last_best
        /\ Grown(t, seen, able).stalled = seen.stalled
    BY <1>1, <2>2, <2>3, <2>4, GrownTree
  <2>8. OneBranchEach(Grown(t, seen, able).tree)
    BY <1>1, <2>2, <2>3, <2>4, <2>5, BranchesStayApart
  <2>9. /\ Running(next)
        /\ next.rounds = Append(run.rounds, Len(run.tree) + 1 .. Len(run.tree) + Cardinality(able))
        /\ next.revealed = run.revealed \cup (Len(run.tree) + 1 .. Len(run.tree) + Cardinality(able))
        /\ Begins(run.tree, next.tree) /\ OneBranchEach(next.tree)
        /\ next.last_best = seen.last_best /\ next.stalled = seen.stalled
    BY <1>1, <2>1, <2>6, <2>7, <2>8 DEF Running
  <2> QED BY <1>6, <2>1, <2>9 DEF next, able, seen, Able
<1> QED
  BY <1>4, <1>5, <1>6

\* g[k] is the online run `run' as it was after k rounds.
Trail(cfg, t, run, g) ==
  /\ g[0] = StartRun(<< >>)
  /\ \A k \in 0..Len(run.rounds) :
       /\ Sound(g[k], cfg) /\ Full(g[k]) /\ Running(g[k])
       /\ Len(g[k].rounds) = k
       /\ Begins(g[k].tree, run.tree) /\ Begins(g[k].rounds, run.rounds)
  /\ \A k \in 0..Len(run.rounds) - 1 : g[k + 1] = RolloutRound(cfg, t, g[k])
  /\ Running(run) => run = g[Len(run.rounds)]
  /\ ~Running(run) => run = RolloutRound(cfg, t, g[Len(run.rounds)])
  /\ OneBranchEach(run.tree)

\* Every step of an online run leaves its trail.
LEMMA TrailGoesOn ==
  ASSUME NEW cfg \in Policies, NEW t \in 1..Branches, NEW run,
         Sound(run, cfg), Full(run), run.reason \in Reasons, Running(run),
         NEW g, Trail(cfg, t, run, g)
  PROVE  \E h : Trail(cfg, t, RolloutRound(cfg, t, run), h)
<1> DEFINE next == RolloutRound(cfg, t, run)
           n    == Len(run.rounds)
<1>1. /\ Sound(next, cfg) /\ Full(next)
  BY RolloutKeeps
<1>2. /\ n \in Nat /\ run.rounds \in Seq(SUBSET Nat)
      /\ Len(run.tree) \in Nat /\ Len(next.tree) \in Nat /\ Len(next.rounds) \in Nat
  BY <1>1, RevealedFinite DEF Sound, WellFormed, RunType
<1>3. run = g[n] /\ OneBranchEach(run.tree)
  BY DEF Trail
<1>4. \A k \in 0..n : /\ Len(g[k].tree) \in Nat
                      /\ Len(g[k].rounds) \in Nat
  BY RevealedFinite DEF Trail, Sound
<1>5. \/ /\ Running(next)
         /\ Begins(run.tree, next.tree) /\ OneBranchEach(next.tree)
         /\ \E new : next.rounds = Append(run.rounds, new) /\ new \in SUBSET Nat
      \/ /\ ~Running(next)
         /\ next.tree = run.tree /\ next.revealed = run.revealed
         /\ next.rounds = run.rounds
  <2> DEFINE new == Len(run.tree) + 1 .. Len(run.tree) + Cardinality(Able(cfg, Observed(run)))
  <2>1. new \in SUBSET Nat
    BY <1>2
  <2>2. \/ /\ Running(next)
           /\ Begins(run.tree, next.tree) /\ OneBranchEach(next.tree)
           /\ next.rounds = Append(run.rounds, new)
        \/ /\ ~Running(next)
           /\ next.tree = run.tree /\ next.revealed = run.revealed
           /\ next.rounds = run.rounds
    BY <1>3, GrowsOrEnds
  <2> HIDE DEF next, new
  <2> QED
    BY <2>1, <2>2
<1> HIDE DEF next
<1>6. CASE ~Running(next) /\ next.tree = run.tree /\ next.rounds = run.rounds
  <2>1. next = RolloutRound(cfg, t, g[n])
    BY <1>3 DEF next
  <2>2. Trail(cfg, t, next, g)
    BY <1>6, <2>1 DEF Trail
  <2> QED
    BY <2>2 DEF next
<1>7. CASE /\ Running(next)
           /\ Begins(run.tree, next.tree) /\ OneBranchEach(next.tree)
           /\ \E new : next.rounds = Append(run.rounds, new) /\ new \in SUBSET Nat
  <2> DEFINE h == [k \in 0..n + 1 |-> IF k = n + 1 THEN next ELSE g[k]]
  <2>1. /\ Len(next.rounds) = n + 1 /\ Begins(run.rounds, next.rounds)
    <3>1. PICK new \in SUBSET Nat : next.rounds = Append(run.rounds, new)
      BY <1>7
    <3>2. /\ Len(next.rounds) = n + 1
          /\ \A i \in 1..n : next.rounds[i] = run.rounds[i]
      BY <1>2, <3>1, AppendProperties
    <3> QED
      BY <1>2, <3>2 DEF Begins
  <2>2. /\ h[n + 1] = next
        /\ \A k \in 0..n : h[k] = g[k]
    BY <1>2
  <2> HIDE DEF h
  <2>3. ASSUME NEW k \in 0..n
        PROVE  Begins(g[k].tree, next.tree) /\ Begins(g[k].rounds, next.rounds)
    <3>1. Begins(g[k].tree, run.tree) /\ Begins(g[k].rounds, run.rounds)
      BY DEF Trail
    <3>2. ASSUME NEW a, NEW b, NEW c, Len(a) \in Nat, Len(b) \in Nat, Len(c) \in Nat,
                 Begins(a, b), Begins(b, c)
          PROVE  Begins(a, c)
      BY <3>2 DEF Begins
    <3> QED
      BY <1>2, <1>4, <1>7, <2>1, <3>1, <3>2
  <2>4. Begins(next.tree, next.tree) /\ Begins(next.rounds, next.rounds)
    BY <1>2 DEF Begins
  <2>5. \A k \in 0..n + 1 :
          /\ Sound(h[k], cfg) /\ Full(h[k]) /\ Running(h[k])
          /\ Len(h[k].rounds) = k
          /\ Begins(h[k].tree, next.tree) /\ Begins(h[k].rounds, next.rounds)
    <3> TAKE k \in 0..n + 1
    <3>1. CASE k = n + 1
      BY <1>1, <1>7, <2>1, <2>2, <2>4, <3>1
    <3>2. CASE k \in 0..n
      BY <2>2, <2>3, <3>2 DEF Trail
    <3> QED
      BY <1>2, <3>1, <3>2
  <2>6. \A k \in 0..n : h[k + 1] = RolloutRound(cfg, t, h[k])
    <3> TAKE k \in 0..n
    <3>1. CASE k = n
      BY <1>2, <1>3, <2>2, <3>1 DEF next
    <3>2. CASE k \in 0..n - 1
      <4>1. k \in 0..n /\ k + 1 \in 0..n
        BY <1>2, <3>2
      <4> QED
        BY <2>2, <3>2, <4>1 DEF Trail
    <3> QED
      BY <1>2, <3>1, <3>2
  <2>7. h[0] = StartRun(<< >>)
    BY <1>2, <2>2 DEF Trail
  <2>8. n + 1 - 1 = n
    BY <1>2
  <2>9. Trail(cfg, t, next, h)
    BY <1>7, <2>1, <2>2, <2>5, <2>6, <2>7, <2>8 DEF Trail
  <2> QED
    BY <2>9 DEF next
<1> QED
  BY <1>5, <1>6, <1>7

\* When the whole tree was seen, the run had no rounds to come.
LEMMA WholeTreeIsLast ==
  ASSUME NEW cfg \in Policies, NEW t, NEW run, Sound(run, cfg), Full(run),
         NEW g, Trail(cfg, t, run, g), NEW k \in 0..Len(run.rounds),
         Len(g[k].tree) = Len(run.tree)
  PROVE  k = Len(run.rounds)
<1> DEFINE n == Len(run.rounds)
<1>1. /\ n \in Nat /\ Sound(g[k], cfg) /\ Full(g[k]) /\ Len(g[k].rounds) = k
      /\ \A j \in 1..k : run.rounds[j] = g[k].rounds[j]
  BY RevealedFinite DEF Sound, Trail, Begins
<1>2. g[k].revealed = run.revealed
  BY <1>1 DEF Full
<1> SUFFICES ASSUME k < n
             PROVE  FALSE
  BY <1>1
<1>3. k + 1 \in 1..n /\ k = k + 1 - 1
  BY <1>1
<1>4. /\ run.rounds[k + 1] # {}
      /\ \A j \in 1..k : run.rounds[j] \cap run.rounds[k + 1] = {}
  BY <1>3 DEF Sound, Partitioned
<1>5. run.rounds[k + 1] \subseteq run.revealed \ {Root}
  BY <1>3 DEF Sound, Partitioned
<1>6. PICK m : m \in run.rounds[k + 1]
  BY <1>4
<1>7. m \in UNION {g[k].rounds[j] : j \in 1..k}
  BY <1>1, <1>2, <1>5, <1>6 DEF Sound, Partitioned
<1>8. PICK j \in 1..k : m \in g[k].rounds[j]
  BY <1>7
<1> QED
  BY <1>1, <1>4, <1>6, <1>8

-----------------------------------------------------------------------------
(* The replay.                                                             *)

\* The replay r of the tree of `run' is on the trail.
Follows(r, run, g) ==
  /\ r.tree = run.tree
  /\ Len(r.rounds) \in 0..Len(run.rounds)
  /\ Alike(r, g[Len(r.rounds)])

Reproduces(r, run) ==
  /\ r.rounds = run.rounds /\ r.revealed = run.revealed
  /\ r.reason \in {run.reason, "fully_revealed"}

\* The replay ends where the online run did, for the same reason.
LEMMA EndsAlike ==
  ASSUME NEW cfg \in Policies, NEW t \in 1..Branches,
         NEW r, NEW o, Alike(r, o), Running(r), Running(o), Sound(o, cfg),
         OneBranchEach(o.tree),
         NEW run, run = RolloutRound(cfg, t, o), ~Running(run), r.tree = run.tree
  PROVE  ~Running(ReplayRound(cfg, r)) /\ Reproduces(ReplayRound(cfg, r), run)
<1> DEFINE mine   == Observed(r)
           seen   == Observed(o)
           chosen == Selected(cfg, seen)
           able   == {c \in chosen : Hidden(mine, c.id) # {}}
           next   == ReplayRound(cfg, r)
<1>1. /\ Alike(mine, seen) /\ Selected(cfg, mine) = chosen
      /\ mine.tree = r.tree /\ mine.revealed = r.revealed /\ mine.rounds = r.rounds
      /\ seen.tree = o.tree /\ seen.revealed = o.revealed /\ seen.rounds = o.rounds
      /\ mine.reason = "running" /\ seen.reason = "running"
  <2>1. Alike(mine, seen)
    BY ObservedAlike
  <2>2. Selected(cfg, mine) = chosen
    <3> HIDE DEF mine, seen
    <3> QED BY <2>1, SelectedAlike DEF chosen
  <2> QED BY <2>1, <2>2, ObservedKeeps DEF Alike, Running
<1>2. r \in RunType /\ o \in RunType /\ mine \in RunType /\ seen \in RunType
  BY <1>1 DEF Alike, WellFormed
<1>3. r.rounds = o.rounds /\ r.revealed = o.revealed
  BY DEF Alike
<1>4. run.tree = o.tree /\ (Len(o.rounds) = MaxRounds \/ Able(cfg, seen) = {})
  BY GrowsOrEnds DEF Alike
<1> DEFINE Ends(a, why) == [a EXCEPT !.reason = why]
<1>5. ASSUME NEW a \in RunType, NEW b \in RunType, NEW why,
             a.rounds = b.rounds, a.revealed = b.revealed, why # "running"
      PROVE  ~Running(Ends(a, why)) /\ Reproduces(Ends(a, why), Ends(b, why))
  <2>1. \A d \in RunType : /\ Ends(d, why).rounds = d.rounds
                           /\ Ends(d, why).revealed = d.revealed
                           /\ Ends(d, why).reason = why
    BY DEF RunType
  <2> HIDE DEF Ends
  <2> QED BY <1>5, <2>1 DEF Running, Reproduces
<1>6. CASE Len(o.rounds) = MaxRounds
  <2>1. next = Ends(r, "round_limit") /\ run = Ends(o, "round_limit")
    BY <1>3, <1>6 DEF ReplayRound, RolloutRound
  <2> HIDE DEF next, Ends
  <2> QED BY <1>2, <1>3, <1>5, <2>1 DEF next
<1>7. CASE Len(o.rounds) # MaxRounds /\ chosen = {}
  <2>1. next = Ends(mine, "policy_stop") /\ run = Ends(seen, "policy_stop")
    <3> HIDE DEF mine
    <3> QED BY <1>1, <1>3, <1>7 DEF ReplayRound, RolloutRound, mine
  <2> HIDE DEF next, Ends, mine, seen
  <2> QED BY <1>1, <1>2, <1>3, <1>5, <2>1 DEF next
<1>8. CASE Len(o.rounds) # MaxRounds /\ chosen # {} /\ Able(cfg, seen) = {}
  <2>1. able = {}
    <3>1. DOMAIN mine.tree = 1..Len(o.tree) /\ mine.revealed = 0..Len(o.tree)
      <4> HIDE DEF mine, seen
      <4>1. WellFormed(mine) /\ Full(seen)
        BY <1>1 DEF Alike
      <4> QED BY <1>1, <1>3, <1>4, <4>1, RevealedFinite DEF Full
    <3>2. Len(o.tree) \in Nat
      BY RevealedFinite DEF Alike
    <3> HIDE DEF mine, seen
    <3>3. \A p : Hidden(mine, p) = {}
      BY <3>1, <3>2 DEF Hidden, ChildrenOf
    <3> QED BY <3>3
  <2>2. next = Ends(mine, "exhausted")
    <3> HIDE DEF mine
    <3> QED BY <1>1, <1>3, <1>8, <2>1 DEF ReplayRound, mine
  <2>3. run = Ends(seen, "exhausted")
    BY <1>8 DEF RolloutRound, Able
  <2> HIDE DEF next, Ends, mine, seen
  <2> QED BY <1>1, <1>2, <1>3, <1>5, <2>2, <2>3 DEF next
<1> QED
  BY <1>4, <1>6, <1>7, <1>8

\* The replay reveals what the online run grew.
LEMMA GrowsAlike ==
  ASSUME NEW cfg \in Policies, NEW t \in 1..Branches,
         NEW r, NEW o, Alike(r, o), Running(r), Running(o), Sound(r, cfg), Sound(o, cfg),
         OneBranchEach(r.tree), OneBranchEach(o.tree),
         NEW o2, o2 = RolloutRound(cfg, t, o), Running(o2), Sound(o2, cfg), Full(o2),
         Begins(o2.tree, r.tree)
  PROVE  LET next == ReplayRound(cfg, r)
         IN  /\ Alike(next, o2) /\ next.tree = r.tree
             /\ \/ Running(next)
                \/ /\ next.reason = "fully_revealed"
                   /\ next.revealed = {Root} \cup DOMAIN r.tree
<1> DEFINE mine == Observed(r)
           seen == Observed(o)
           able == Able(cfg, seen)
           next == ReplayRound(cfg, r)
           size == Len(o.tree)
           new  == size + 1 .. size + Cardinality(able)
<1>1. /\ Alike(mine, seen) /\ WellFormed(mine) /\ WellFormed(seen)
      /\ mine.tree = r.tree /\ mine.revealed = r.revealed /\ mine.rounds = r.rounds
      /\ seen.tree = o.tree /\ seen.revealed = o.revealed /\ seen.rounds = o.rounds
      /\ mine.reason = "running" /\ InOrder(mine)
      /\ mine.last_best = seen.last_best /\ mine.stalled = seen.stalled
  <2>1. Alike(mine, seen)
    BY ObservedAlike
  <2>2. Sound(mine, cfg)
    <3> HIDE DEF mine
    <3> QED BY ObservedKeeps, SameSoundness DEF Sound, mine
  <2> QED BY <2>1, <2>2, ObservedKeeps DEF Alike, Running, Sound
<1>2. /\ Len(o.rounds) # MaxRounds /\ able # {}
      /\ o2 = Grown(t, seen, able)
      /\ o2.rounds = Append(o.rounds, new)
      /\ o2.revealed = o.revealed \cup new
      /\ o2.last_best = seen.last_best /\ o2.stalled = seen.stalled
  BY GrowsOrEnds DEF Alike
<1>3. able \in SUBSET Selected(cfg, seen)
      /\ \A c \in Selected(cfg, seen) : c \in able <=> CanExpand(seen.tree, c.id)
  BY DEF Able
<1> HIDE DEF mine, seen, able, next
<1>4. /\ {c \in Selected(cfg, mine) : Hidden(mine, c.id) # {}} = able
      /\ {MinOf(Hidden(mine, c.id)) : c \in able} = new
  <2>1. OneBranchEach(mine.tree) /\ Begins(Grown(t, seen, able).tree, mine.tree)
    BY <1>1, <1>2
  <2>2. /\ {c \in Selected(cfg, mine) : Hidden(mine, c.id) # {}} = able
        /\ {MinOf(Hidden(mine, c.id)) : c \in able}
             = Len(seen.tree) + 1 .. Len(seen.tree) + Cardinality(able)
    <3>1. Alike(mine, seen) /\ able # {}
      BY <1>1, <1>2
    <3> QED BY ONLY <1>3, <2>1, <3>1, cfg \in Policies, t \in 1..Branches, FindsWhatGrew
  <2> QED BY <1>1, <2>2
<1>5. IsFiniteSet(able) /\ \A c \in able : c.id \in mine.revealed /\ Hidden(mine, c.id) # {}
  <2>1. IsFiniteSet(able) /\ \A c \in able : c.id \in seen.revealed
    BY <1>1, <1>3, SelectedBound
  <2> QED BY <1>1, <1>4, <2>1 DEF Alike
<1>6. next = Revealing(mine, able)
  <2>1. Selected(cfg, mine) # {} /\ Len(r.rounds) # MaxRounds
    BY <1>2, <1>4 DEF Alike
  <2> QED BY <1>2, <1>4, <2>1 DEF ReplayRound, mine, next
<1> DEFINE more == Append(r.rounds, new)
           all  == r.revealed \cup new
           shown == [mine EXCEPT !.revealed = all, !.rounds = more]
<1>7. next = IF all = {Root} \cup DOMAIN r.tree
             THEN [shown EXCEPT !.reason = "fully_revealed"] ELSE shown
  <2>1. mine \in RunType
    BY <1>1 DEF WellFormed
  <2>2. shown.revealed = all /\ shown.tree = r.tree
    BY <1>1, <2>1 DEF RunType
  <2>3. shown = [mine EXCEPT !.revealed = @ \cup {MinOf(Hidden(mine, c.id)) : c \in able},
                             !.rounds = Append(@, {MinOf(Hidden(mine, c.id)) : c \in able})]
    BY <1>1, <1>4
  <2> HIDE DEF shown, all
  <2> QED BY <1>1, <1>6, <2>2, <2>3 DEF Revealing
<1>8. /\ WellFormed(next)
      /\ next.tree = r.tree /\ next.revealed = all /\ next.rounds = more
  <2>1. /\ WellFormed(Revealing(mine, able))
        /\ Revealing(mine, able).tree = mine.tree
        /\ Revealing(mine, able).revealed
             = mine.revealed \cup {MinOf(Hidden(mine, c.id)) : c \in able}
        /\ Revealing(mine, able).rounds
             = Append(mine.rounds, {MinOf(Hidden(mine, c.id)) : c \in able})
    BY <1>1, <1>2, <1>5, RevealingKeeps
  <2> QED BY <1>1, <1>4, <1>6, <2>1
<1>9. /\ next.last_best = mine.last_best /\ next.stalled = mine.stalled
      /\ next.reason = IF all = {Root} \cup DOMAIN r.tree THEN "fully_revealed" ELSE mine.reason
  <2>1. mine \in RunType
    BY <1>1 DEF WellFormed
  <2> HIDE DEF all, more
  <2>2. \A a \in RunType :
          LET b == [a EXCEPT !.revealed = all, !.rounds = more]
          IN  /\ b.last_best = a.last_best /\ b.stalled = a.stalled /\ b.reason = a.reason
              /\ [b EXCEPT !.reason = "fully_revealed"].last_best = a.last_best
              /\ [b EXCEPT !.reason = "fully_revealed"].stalled = a.stalled
              /\ [b EXCEPT !.reason = "fully_revealed"].reason = "fully_revealed"
    BY DEF RunType
  <2> QED BY <1>7, <2>1, <2>2
<1>10. Alike(next, o2)
  <2>1. r.revealed = o.revealed /\ r.rounds = o.rounds
    BY DEF Alike
  <2> HIDE DEF new
  <2> QED BY <1>1, <1>2, <1>8, <1>9, <2>1 DEF Alike, Sound
<1> QED
  BY <1>1, <1>8, <1>9, <1>10 DEF next, Running

\* The replay stays on the trail until it ends, and ends where the trail does.
LEMMA ReplayStaysOnTrail ==
  ASSUME NEW cfg \in Policies, NEW t \in 1..Branches,
         NEW run, Sound(run, cfg), Full(run), ~Running(run),
         NEW g, Trail(cfg, t, run, g),
         NEW r, Sound(r, cfg), Running(r), Follows(r, run, g)
  PROVE  LET next == ReplayRound(cfg, r)
         IN  IF Running(next) THEN Follows(next, run, g) ELSE Reproduces(next, run)
<1> DEFINE n    == Len(run.rounds)
           k    == Len(r.rounds)
           o    == g[k]
           next == ReplayRound(cfg, r)
<1>1. /\ n \in Nat /\ k \in 0..n /\ r.tree = run.tree /\ Alike(r, o)
      /\ Sound(o, cfg) /\ Full(o) /\ Running(o)
      /\ Len(o.rounds) = k /\ Begins(o.tree, run.tree)
      /\ OneBranchEach(run.tree)
  BY RevealedFinite DEF Follows, Trail, Sound
<1>2. /\ Len(o.tree) \in Nat /\ DOMAIN o.tree = 1..Len(o.tree)
      /\ Len(run.tree) \in Nat /\ DOMAIN run.tree = 1..Len(run.tree)
      /\ run.revealed = 0..Len(run.tree)
  BY <1>1, RevealedFinite DEF Sound, Full
<1>3. OneBranchEach(o.tree)
  <2>1. ChildrenOf(o.tree, Root) \subseteq ChildrenOf(run.tree, Root)
        /\ \A m \in ChildrenOf(o.tree, Root) : run.tree[m] = o.tree[m]
    <3> HIDE DEF o
    <3>1. \A i \in 1..Len(o.tree) : i \in 1..Len(run.tree) /\ run.tree[i] = o.tree[i]
      BY <1>1, <1>2 DEF Begins
    <3> QED BY <1>2, <3>1 DEF ChildrenOf
  <2> HIDE DEF o
  <2> QED BY <1>1, <2>1 DEF OneBranchEach
<1> HIDE DEF o, next
<1>4. CASE k = n
  <2>1. run = RolloutRound(cfg, t, o)
    BY <1>4 DEF Trail, o
  <2>2. ~Running(next) /\ Reproduces(next, run)
    BY <1>1, <1>3, <2>1, EndsAlike DEF next
  <2> QED
    BY <2>2 DEF next
<1>5. CASE k \in 0..n - 1
  <2> DEFINE o2 == g[k + 1]
  <2>1. k + 1 \in 0..n
    BY <1>1, <1>5
  <2>2. /\ o2 = RolloutRound(cfg, t, o)
        /\ Sound(o2, cfg) /\ Full(o2) /\ Running(o2)
        /\ Len(o2.rounds) = k + 1
        /\ Begins(o2.tree, run.tree) /\ Begins(o2.rounds, run.rounds)
    BY <1>5, <2>1 DEF Trail, o
  <2> HIDE DEF o2
  <2>3. /\ Alike(next, o2) /\ next.tree = run.tree
        /\ \/ Running(next)
           \/ /\ next.reason = "fully_revealed"
              /\ next.revealed = {Root} \cup DOMAIN run.tree
    BY <1>1, <1>3, <2>2, GrowsAlike DEF next
  <2>4. next.rounds = o2.rounds /\ next.revealed = o2.revealed
    BY <2>3 DEF Alike
  <2>5. CASE Running(next)
    <3>1. Len(next.rounds) = k + 1
      BY <2>2, <2>4
    <3>2. Follows(next, run, g)
      BY <2>1, <2>3, <3>1 DEF Follows, o2
    <3> QED
      BY <2>5, <3>2 DEF next
  <2>6. CASE ~Running(next)
    <3>1. /\ next.reason = "fully_revealed"
          /\ o2.revealed = {Root} \cup DOMAIN run.tree
      BY <2>3, <2>4, <2>6
    <3>2. o2.revealed = run.revealed
      BY <1>2, <3>1 DEF Root
    <3>3. Len(o2.tree) = Len(run.tree)
      <4>1. Len(o2.tree) \in Nat
        BY <2>2, RevealedFinite DEF Sound
      <4>2. 0..Len(o2.tree) = 0..Len(run.tree)
        BY <1>2, <2>2, <3>2 DEF Full
      <4>3. /\ Len(o2.tree) \in 0..Len(run.tree)
            /\ Len(run.tree) \in 0..Len(o2.tree)
        BY <1>2, <4>1, <4>2
      <4> QED
        BY <1>2, <4>1, <4>3
    <3>4. k + 1 = n
      BY <2>1, <3>3, WholeTreeIsLast DEF o2
    <3>5. o2.rounds = run.rounds
      <4>1. /\ o2.rounds \in Seq(SUBSET Nat) /\ run.rounds \in Seq(SUBSET Nat)
            /\ Len(o2.rounds) = Len(run.rounds)
            /\ \A i \in 1..Len(o2.rounds) : o2.rounds[i] = run.rounds[i]
        BY <2>2, <3>4 DEF Sound, WellFormed, RunType, Begins
      <4> QED
        BY <4>1, SeqEqual
    <3>6. Reproduces(next, run)
      BY <2>4, <3>1, <3>2, <3>5 DEF Reproduces
    <3> QED
      BY <2>6, <3>6 DEF next
  <2> QED
    BY <2>5, <2>6
<1> QED
  BY <1>1, <1>4, <1>5

-----------------------------------------------------------------------------
(* The specification.                                                      *)

\* With the policy that recorded the tree, the replay walks along the trail of
\* the recording, from its start to its end.
WalkInv ==
  /\ replayed.reason # "waiting" => ~Running(recorded)
  /\ replayed.reason \in {"waiting", "running"} => Running(own)
  /\ \E g :
       /\ Trail(recorder, target, recorded, g)
       /\ learner = recorder =>
            /\ Running(replayed) => Follows(replayed, recorded, g)
            /\ replayed.reason \notin {"waiting", "running"} => Reproduces(replayed, recorded)

LEMMA StartOfTrail ==
  ASSUME NEW cfg \in Policies, NEW t
  PROVE  \E g : Trail(cfg, t, StartRun(<< >>), g)
<1> DEFINE run == StartRun(<< >>)
           g   == [k \in {0} |-> run]
<1>1. << >> \in Seq(Node) /\ Len(<< >>) = 0 /\ DOMAIN << >> = {}
  BY EmptySeq
<1>2. /\ Sound(run, cfg) /\ run.tree = << >> /\ run.revealed = {Root}
      /\ run.reason = "running"
  <2>1. \A n \in 1..Len(<< >>) : << >>[n].parent \in 0..n - 1
    BY <1>1
  <2> QED BY <1>1, <2>1, StartSound
<1>3. run.rounds = << >> /\ Len(run.rounds) = 0
  BY <1>1 DEF StartRun
<1>4. Full(run) /\ Running(run)
  <2>1. {Root} = 0..Len(<< >>)
    BY <1>1 DEF Root
  <2> HIDE DEF run
  <2> QED BY <1>2, <2>1 DEF Full, Running
<1>5. OneBranchEach(run.tree) /\ Begins(run.tree, run.tree) /\ Begins(run.rounds, run.rounds)
  <2> HIDE DEF run
  <2>1. ChildrenOf(run.tree, Root) = {}
    BY <1>1, <1>2 DEF ChildrenOf
  <2> QED BY <1>1, <1>2, <1>3, <2>1 DEF OneBranchEach, Begins
<1>6. g[0] = run /\ \A k \in 0..0 : k = 0
  OBVIOUS
<1>7. Trail(cfg, t, run, g)
  <2>1. 0..Len(run.rounds) = {0} /\ 0..Len(run.rounds) - 1 = {}
    BY <1>3
  <2> HIDE DEF g
  <2>2. /\ g[0] = StartRun(<< >>) /\ g[Len(run.rounds)] = run
    BY <1>3, <1>6
  <2> HIDE DEF run
  <2> QED BY <1>2, <1>3, <1>4, <1>5, <1>6, <2>1, <2>2 DEF Trail
<1> QED
  BY <1>7

\* What the recorder's policy sees in the replay of its tree is what it saw
\* online, round by round, and all of it: whatever the policy, the incident and
\* the limit on rounds.
THEOREM ReplayIsFaithful == Spec => []ReplayReproduces
<1>1. Init /\ RunsAreSound => WalkInv
  <2> SUFFICES ASSUME Init, RunsAreSound PROVE WalkInv
    OBVIOUS
  <2>1. recorded = StartRun(<< >>) /\ own = StartRun(<< >>) /\ replayed.reason = "waiting"
    <3>1. StartRun(<< >>) \in [tree : {<< >>}, revealed : {{Root}}, rounds : {<< >>},
                               last_best : {0}, stalled : {0}, reason : {"running"}]
      BY DEF StartRun
    <3> QED BY <3>1 DEF Init
  <2>2. Running(own)
    BY <2>1 DEF StartRun, Running
  <2>3. \E g : Trail(recorder, target, recorded, g)
    BY <2>1, StartOfTrail DEF RunsAreSound
  <2> QED BY <2>1, <2>2, <2>3 DEF WalkInv, Running
<1>2. RunsAreSound /\ WalkInv /\ [Next]_vars => WalkInv'
  <2> SUFFICES ASSUME RunsAreSound, WalkInv, [Next]_vars PROVE WalkInv'
    OBVIOUS
  <2>1. PICK g :
          /\ Trail(recorder, target, recorded, g)
          /\ learner = recorder =>
               /\ Running(replayed) => Follows(replayed, recorded, g)
               /\ replayed.reason \notin {"waiting", "running"} => Reproduces(replayed, recorded)
    BY DEF WalkInv
  <2>2. CASE Record
    <3>1. \E h : Trail(recorder, target, recorded', h)
      BY <2>1, <2>2, TrailGoesOn DEF Record, RunsAreSound
    <3>2. replayed.reason = "waiting"
      BY <2>2 DEF Record, WalkInv
    <3> QED BY <2>2, <3>1, <3>2 DEF Record, WalkInv, Running
  <2>3. CASE BeginReplay
    <3>1. /\ recorded.tree \in Seq(Node)
          /\ \A n \in 1..Len(recorded.tree) : recorded.tree[n].parent \in 0..n - 1
          /\ Len(recorded.rounds) \in Nat
      BY RevealedFinite DEF RunsAreSound, Sound, WellFormed, RunType
    <3>2. /\ WellFormed(replayed') /\ replayed'.tree = recorded.tree
          /\ replayed'.revealed = {Root} /\ replayed'.reason = "running"
      BY <2>3, <3>1, StartSound DEF BeginReplay, RunsAreSound, Sound
    <3>3. /\ replayed'.rounds = << >> /\ replayed'.last_best = 0 /\ replayed'.stalled = 0
      BY <2>3 DEF BeginReplay, StartRun
    <3>4. g[0] = StartRun(<< >>) /\ WellFormed(g[0]) /\ Full(g[0]) /\ Begins(g[0].tree, recorded.tree)
      BY <2>1, <3>1 DEF Trail, Sound
    <3>5. /\ g[0].revealed = {Root} /\ g[0].rounds = << >>
          /\ g[0].last_best = 0 /\ g[0].stalled = 0
      BY <3>4 DEF StartRun
    <3>6. Len(<< >>) = 0
      BY EmptySeq
    <3>7. Follows(replayed', recorded, g)
      BY <3>1, <3>2, <3>3, <3>4, <3>5, <3>6 DEF Follows, Alike
    <3> QED BY <2>1, <2>3, <3>2, <3>7 DEF BeginReplay, WalkInv, Running
  <2>4. CASE ReplayOnce
    <3>1. /\ replayed' = ReplayRound(learner, replayed) /\ Running(replayed)
          /\ UNCHANGED <<target, recorder, learner, recorded, own>>
          /\ replayed.reason = "running"
      BY <2>4 DEF ReplayOnce, Running
    <3>2. ~Running(recorded) /\ Running(own)
      BY <3>1 DEF WalkInv
    <3>3. replayed'.reason # "waiting"
      BY <3>1, ReplayKeeps DEF RunsAreSound, Reasons
    <3>4. learner = recorder =>
            IF Running(replayed') THEN Follows(replayed', recorded, g)
            ELSE Reproduces(replayed', recorded)
      <4> SUFFICES ASSUME learner = recorder
                   PROVE  IF Running(ReplayRound(recorder, replayed))
                          THEN Follows(ReplayRound(recorder, replayed), recorded, g)
                          ELSE Reproduces(ReplayRound(recorder, replayed), recorded)
        BY <3>1
      <4> QED BY <2>1, <3>1, <3>2, ReplayStaysOnTrail DEF RunsAreSound
    <3> QED BY <2>1, <3>1, <3>2, <3>3, <3>4 DEF WalkInv, Running
  <2>5. CASE Explore
    BY <2>1, <2>5 DEF Explore, WalkInv, Running
  <2>6. CASE UNCHANGED vars
    BY <2>1, <2>6 DEF vars, WalkInv
  <2> QED BY <2>2, <2>3, <2>4, <2>5, <2>6 DEF Next
<1>3. WalkInv => ReplayReproduces
  BY DEF WalkInv, ReplayReproduces, Reproduces
<1> QED BY <1>1, <1>2, <1>3, SoundnessHolds, PTL DEF Spec
=============================================================================
