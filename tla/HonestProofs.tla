---------------------------- MODULE HonestProofs -----------------------------
(***************************************************************************)
(* Replays of other policies than the recorder, for any policies, incident *)
(* and number of branches and rounds.                                      *)
(*                                                                         *)
(* A replay and the policy's own online run look at the same branches and  *)
(* depths under different ids.  The proof follows them in step as long as  *)
(* they show the same.  Trees of an incident are grown in few ways         *)
(* (WellGrown), so that a node of one run has a twin in the other (Kin).   *)
(* Where the policy tells nodes that differ apart, the two lists of        *)
(* candidates have the same order (KinOrder), the same is selected, and the*)
(* replay can only lack what was not recorded.                             *)
(*                                                                         *)
(* A tree that leaves nothing out lacks nothing (Complete), and an         *)
(* exhaustive policy records such trees: with u of its rounds that had a   *)
(* worker to spare, it has looked at depth d of branch b if b + d - 1 <= u,*)
(* and all workers were busy in the other rounds (Paced).                  *)
(***************************************************************************)
EXTENDS ReplayProofs

-----------------------------------------------------------------------------
(* Trees of an incident.                                                   *)

Place(tree, n) == <<tree[n].branch, tree[n].depth>>

Child(tree, m, n) ==
  tree[n].parent = m /\ tree[n].branch = tree[m].branch /\ tree[n].depth = tree[m].depth + 1

\* An online run of an incident, whatever the policy: its branches are opened
\* in order, each is followed node by node, and branches without the fault look
\* the same, so they are followed in order, too.
WellGrown(tree, t) ==
  /\ \A n \in DOMAIN tree :
       /\ tree[n].score = NodeScore(t, tree[n].branch, tree[n].depth)
       /\ tree[n].depth = 1 => tree[n].parent = Root
       /\ tree[n].depth # 1 => tree[n].parent \in DOMAIN tree /\ Child(tree, tree[n].parent, n)
  /\ \A m, n \in DOMAIN tree : Place(tree, m) = Place(tree, n) => m = n
  /\ \A n \in DOMAIN tree : \A b \in 1..tree[n].branch - 1 :
       tree[n].depth = 1 \/ (tree[n].branch # t /\ b # t) =>
         \E m \in DOMAIN tree : m < n /\ Place(tree, m) = <<b, tree[n].depth>>

\* A node is created in the order of the candidates.
LEMMA NewNode ==
  ASSUME NEW run, WellFormed(run), Full(run), NEW t \in 1..Branches,
         NEW cfg \in Policies, Able(cfg, run) # {}
  PROVE  LET able == Able(cfg, run)
             next == Grown(t, run, able)
             At(c) == Len(run.tree) + 1 + Rank(able, c)
         IN  /\ WellFormed(next) /\ Full(next)
             /\ DOMAIN next.tree = 1..Len(run.tree) + Cardinality(able)
             /\ Begins(run.tree, next.tree)
             /\ Cardinality(able) \in Nat
             /\ \A c \in able : /\ Rank(able, c) \in Nat
                                /\ At(c) \in DOMAIN next.tree /\ At(c) > Len(run.tree)
                                /\ next.tree[At(c)] = Expanded(t, run.tree, c.id)
             /\ \A n \in DOMAIN next.tree : n > Len(run.tree) => \E c \in able : n = At(c)
<1> DEFINE able == Able(cfg, run)
           next == Grown(t, run, able)
           At(c) == Len(run.tree) + 1 + Rank(able, c)
           n == Cardinality(able)
           size == Len(run.tree)
<1>1. able \in SUBSET Selected(cfg, run) /\ \A c \in able : CanExpand(run.tree, c.id)
  BY DEF Able
<1> HIDE DEF able
<1>2. /\ able \in SUBSET Candidate /\ IsFiniteSet(able) /\ n \in Nat \ {0}
      /\ \A c \in able : c.id \in run.revealed /\ CanExpand(run.tree, c.id)
      /\ run.revealed = 0..Len(run.tree) /\ size \in Nat
  <2>1. able # {}
    BY DEF able
  <2> QED BY <1>1, <2>1, SelectedBound, RevealedFinite DEF Full
<1>3. /\ WellFormed(next) /\ Full(next)
  <2>1. WellFormed(next) /\ next.revealed = 0..Len(next.tree)
    BY ONLY <1>2, WellFormed(run), t \in 1..Branches, GrownKeeps
  <2> QED BY <2>1 DEF Full
<1>4. /\ Len(next.tree) = size + n
      /\ Begins(run.tree, next.tree)
      /\ \A k \in 1..n : \E c \in able :
           Rank(able, c) = k - 1 /\ next.tree[size + k] = Expanded(t, run.tree, c.id)
  BY ONLY <1>2, WellFormed(run), t \in 1..Branches, GrownTree
<1> HIDE DEF next
<1>5. DOMAIN next.tree = 1..size + n
  BY <1>3, <1>4, RevealedFinite
<1>6. ASSUME NEW c \in able
      PROVE  /\ Rank(able, c) \in 0..n - 1
             /\ \A d \in able : Rank(able, c) = Rank(able, d) => c = d
  BY <1>2, RankIsPlace
<1> HIDE DEF n, size
<1>7. ASSUME NEW c \in able
      PROVE  /\ Rank(able, c) \in Nat
             /\ size + 1 + Rank(able, c) \in 1..size + n
             /\ size + 1 + Rank(able, c) > size
             /\ next.tree[size + 1 + Rank(able, c)] = Expanded(t, run.tree, c.id)
  <2>1. Rank(able, c) \in Nat /\ Rank(able, c) < n
    BY <1>2, <1>6
  <2> DEFINE k == Rank(able, c) + 1
  <2>2. k \in 1..n /\ k - 1 = Rank(able, c) /\ size + 1 + Rank(able, c) = size + k
    BY <1>2, <2>1
  <2> HIDE DEF k
  <2>3. PICK d \in able : Rank(able, d) = k - 1 /\ next.tree[size + k] = Expanded(t, run.tree, d.id)
    BY <1>4, <2>2
  <2>4. d = c
    BY <1>6, <2>2, <2>3
  <2> QED
    BY <1>2, <2>1, <2>2, <2>3, <2>4
<1>8. ASSUME NEW m \in 1..size + n, m > size
      PROVE  \E c \in able : m = size + 1 + Rank(able, c)
  <2>1. m - size \in 1..n
    BY <1>2, <1>8
  <2>2. PICK c \in able : Rank(able, c) = (m - size) - 1
    BY <1>4, <2>1
  <2> QED
    BY <1>2, <2>2
<1> QED
  BY <1>2, <1>3, <1>4, <1>5, <1>7, <1>8 DEF next, able, n, size

\* Where an expansion leads.
LEMMA ExpandedPlace ==
  ASSUME NEW tree, NEW t, NEW p
  PROVE  LET node == Expanded(t, tree, p)
         IN  /\ node.parent = p
             /\ node.score = NodeScore(t, node.branch, node.depth)
             /\ p = Root => node.branch = MinOf(Unopened(tree)) /\ node.depth = 1
             /\ p # Root => node.branch = tree[p].branch /\ node.depth = tree[p].depth + 1
BY DEF Expanded

\* The children of a node are one step further on its branch.
LEMMA ChildIsNext ==
  ASSUME NEW tree, NEW t, WellGrown(tree, t), DOMAIN tree \in SUBSET (Nat \ {Root}),
         NEW n \in DOMAIN tree
  PROVE  /\ tree[n].parent = Root <=> tree[n].depth = 1
         /\ tree[n].parent # Root => tree[n].parent \in DOMAIN tree /\ Child(tree, tree[n].parent, n)
BY DEF WellGrown

\* Whoever precedes a selected candidate is selected.
LEMMA SelectedFirst ==
  ASSUME NEW run, WellFormed(run), NEW cfg \in Policies,
         NEW c \in Selected(cfg, run), NEW d \in Candidates(cfg, run), Precedes(d, c)
  PROVE  d \in Selected(cfg, run)
<1> DEFINE all == Candidates(cfg, run)
<1>1. /\ Selected(cfg, run) = {e \in all : Rank(all, e) < cfg.workers}
      /\ c \in all /\ Rank(all, c) < cfg.workers
  BY DEF Selected
<1>2. all \in SUBSET Candidate /\ IsFiniteSet(all)
  BY CandidatesType
<1>3. Rank(all, d) < Rank(all, c) /\ Rank(all, d) \in Int /\ Rank(all, c) \in Int
  <2> HIDE DEF all
  <2>1. Cardinality(all) \in Nat
    BY <1>2, FS_CardinalityType
  <2>2. Rank(all, d) \in 0..Cardinality(all) - 1 /\ Rank(all, c) \in 0..Cardinality(all) - 1
    BY <1>1, <1>2, RankIsPlace DEF all
  <2>3. Rank(all, d) < Rank(all, c)
    BY <1>1, <1>2, RankIsPlace DEF all
  <2> QED BY <2>1, <2>2, <2>3
<1>4. cfg.workers \in Int
  BY PoliciesAssumption
<1> HIDE DEF all
<1> QED BY <1>1, <1>3, <1>4 DEF all

\* A branch without the fault is followed when those before it are.
LEMMA FollowedInOrder ==
  ASSUME NEW run, WellFormed(run), Full(run), NEW t \in 1..Branches,
         WellGrown(run.tree, t), NEW cfg \in Policies,
         NEW c \in Able(cfg, run), c.id # Root,
         NEW b \in 1..run.tree[c.id].branch - 1, run.tree[c.id].branch # t, b # t
  PROVE  \/ \E m \in DOMAIN run.tree :
              Place(run.tree, m) = <<b, run.tree[c.id].depth + 1>>
         \/ \E d \in Able(cfg, run) :
              /\ d.id # Root /\ Rank(Able(cfg, run), d) < Rank(Able(cfg, run), c)
              /\ Place(run.tree, d.id) = <<b, run.tree[c.id].depth>>
<1> DEFINE tree == run.tree
           able == Able(cfg, run)
<1>1. /\ DOMAIN tree = 1..Len(tree) /\ Len(tree) \in Nat /\ run.revealed = 0..Len(tree)
      /\ \A n \in 1..Len(tree) : tree[n] \in Node
  BY RevealedFinite DEF Full
<1>2. /\ able \in SUBSET Selected(cfg, run) /\ able \in SUBSET Candidate /\ IsFiniteSet(able)
      /\ c.id \in DOMAIN tree /\ tree[c.id].depth < MaxDepth
  <2>1. able \in SUBSET Selected(cfg, run)
    BY DEF Able
  <2> HIDE DEF able
  <2>2. c \in able
    BY DEF able
  <2>3. /\ able \in SUBSET Candidate /\ IsFiniteSet(able)
        /\ c.id \in run.revealed /\ tree[c.id].depth < MaxDepth
    BY <2>1, <2>2, SelectedBound
  <2> QED BY <1>1, <2>1, <2>3 DEF Root
<1>3. PICK m \in DOMAIN tree : m < c.id /\ Place(tree, m) = <<b, tree[c.id].depth>>
  BY <1>2 DEF WellGrown
<1>4. tree[m].branch = b /\ tree[m].depth = tree[c.id].depth
  BY <1>3 DEF Place
<1>5. CASE \E h \in DOMAIN tree : tree[h].parent = m
  <2>1. PICK h \in DOMAIN tree : tree[h].parent = m
    BY <1>5
  <2>2. m # Root
    BY <1>1 DEF Root
  <2>3. Child(tree, m, h)
    BY <2>1, <2>2 DEF WellGrown
  <2> QED
    BY <1>4, <2>3 DEF Child, Place
<1>6. CASE ~\E h \in DOMAIN tree : tree[h].parent = m
  <2> DEFINE d == [id |-> m, value |-> Priority(cfg, run, m)]
  <2>1. m \in Leaves(tree, run.revealed) /\ m # Root
    BY <1>1, <1>3, <1>6 DEF Leaves, ChildrenOf, Root
  <2>2. d \in Candidates(cfg, run)
    BY <1>2, <1>4, <2>1 DEF Candidates
  <2>3. tree[m].score = tree[c.id].score
    <3>1. NodeScore(t, b, tree[m].depth) = NodeScore(t, tree[c.id].branch, tree[m].depth)
      BY DEF NodeScore
    <3> QED BY <1>2, <1>4, <3>1 DEF WellGrown
  <2>4. Priority(cfg, run, m) = Priority(cfg, run, c.id)
    BY <1>4, <2>1, <2>3 DEF Priority, NodeValue
  <2>5. c.value = Priority(cfg, run, c.id) /\ c \in Candidates(cfg, run)
    <3>1. c \in Candidates(cfg, run)
      BY <1>2 DEF Selected
    <3> QED BY <3>1 DEF Candidates
  <2>6. Precedes(d, c)
    BY <1>3, <2>4, <2>5 DEF Precedes
  <2>7. d \in Selected(cfg, run)
    <3> HIDE DEF d
    <3> QED BY <1>2, <2>2, <2>6, SelectedFirst
  <2>8. d \in able
    BY <1>2, <1>4, <2>1, <2>7 DEF Able, CanExpand
  <2>9. Rank(able, d) < Rank(able, c)
    <3> HIDE DEF d, able
    <3>1. c \in able
      BY DEF able
    <3> QED BY <1>2, <2>6, <2>8, <3>1, RankIsPlace
  <2>10. d.id = m
    OBVIOUS
  <2> HIDE DEF d
  <2> QED
    BY <1>3, <2>1, <2>8, <2>9, <2>10
<1> QED
  BY <1>5, <1>6

\* Online, every policy grows trees of the incident.
LEMMA GrowsWell ==
  ASSUME NEW run, WellFormed(run), Full(run), NEW t \in 1..Branches,
         WellGrown(run.tree, t), NEW cfg \in Policies, Able(cfg, run) # {}
  PROVE  WellGrown(Grown(t, run, Able(cfg, run)).tree, t)
<1> DEFINE tree == run.tree
           able == Able(cfg, run)
           size == Len(tree)
           next == Grown(t, run, able)
           more == next.tree
           At(c) == size + 1 + Rank(able, c)
<1>1. /\ DOMAIN tree = 1..size /\ size \in Nat /\ run.revealed = 0..size
      /\ \A n \in 1..size : tree[n] \in Node
  BY RevealedFinite DEF Full
<1>2. /\ DOMAIN more = 1..size + Cardinality(able) /\ Cardinality(able) \in Nat
      /\ \A n \in 1..size : n \in DOMAIN more /\ more[n] = tree[n]
      /\ \A c \in able : /\ Rank(able, c) \in Nat
                         /\ At(c) \in DOMAIN more /\ At(c) > size
                         /\ more[At(c)] = Expanded(t, tree, c.id)
      /\ \A n \in DOMAIN more : n > size => \E c \in able : n = At(c)
  <2>1. /\ DOMAIN more = 1..size + Cardinality(able) /\ Cardinality(able) \in Nat
        /\ Begins(tree, more)
        /\ \A c \in able : /\ Rank(able, c) \in Nat
                           /\ At(c) \in DOMAIN more /\ At(c) > size
                           /\ more[At(c)] = Expanded(t, tree, c.id)
        /\ \A n \in DOMAIN more : n > size => \E c \in able : n = At(c)
    BY NewNode
  <2> HIDE DEF more, able, At
  <2>2. \A n \in 1..size : n \in 1..size + Cardinality(able)
    BY <1>1, <2>1
  <2> QED BY <1>1, <2>1, <2>2 DEF Begins
<1>3. \A c \in able : /\ c \in Selected(cfg, run) /\ CanExpand(tree, c.id)
                      /\ c.id = Root \/ (c.id \in 1..size /\ tree[c.id].depth < MaxDepth)
  <2>1. able \in SUBSET Selected(cfg, run) /\ \A c \in able : CanExpand(tree, c.id)
    BY DEF Able
  <2> HIDE DEF able
  <2>2. \A c \in able : c.id \in run.revealed /\ (c.id # Root => tree[c.id].depth < MaxDepth)
    BY <2>1, SelectedBound
  <2> QED BY <1>1, <2>1, <2>2 DEF Root
<1>4. \A c, d \in able : c.id = d.id => c = d
  BY <1>3, IdsDiffer
<1> HIDE DEF able, more, next
\* Where the new nodes are.
<1>5. ASSUME NEW c \in able
      PROVE  LET n == At(c)
             IN  /\ more[n].parent = c.id
                 /\ more[n].score = NodeScore(t, more[n].branch, more[n].depth)
                 /\ c.id = Root =>
                      /\ more[n].depth = 1
                      /\ more[n].branch \in Unopened(tree)
                      /\ \A b \in Unopened(tree) : more[n].branch <= b
                 /\ c.id # Root => /\ more[n].branch = tree[c.id].branch
                                   /\ more[n].depth = tree[c.id].depth + 1
                                   /\ more[n].depth # 1
  <2> DEFINE node == Expanded(t, tree, c.id)
  <2>1. /\ node.parent = c.id
        /\ node.score = NodeScore(t, node.branch, node.depth)
        /\ c.id = Root => node.branch = MinOf(Unopened(tree)) /\ node.depth = 1
        /\ c.id # Root => node.branch = tree[c.id].branch /\ node.depth = tree[c.id].depth + 1
    BY ExpandedPlace
  <2>2. more[At(c)] = node
    BY <1>2
  <2> HIDE DEF node, At
  <2>3. c.id = Root => /\ MinOf(Unopened(tree)) \in Unopened(tree)
                       /\ \A b \in Unopened(tree) : MinOf(Unopened(tree)) <= b
    <3> SUFFICES ASSUME c.id = Root
                 PROVE  /\ MinOf(Unopened(tree)) \in Unopened(tree)
                        /\ \A b \in Unopened(tree) : MinOf(Unopened(tree)) <= b
      OBVIOUS
    <3>1. Unopened(tree) # {}
      BY <1>3 DEF CanExpand
    <3>2. Unopened(tree) \in SUBSET Nat
      BY SizesAssumption DEF Unopened
    <3> QED BY <3>1, <3>2, MinIsLeast
  <2>4. c.id # Root => tree[c.id].depth + 1 # 1
    <3> SUFFICES ASSUME c.id # Root PROVE tree[c.id].depth + 1 # 1
      OBVIOUS
    <3>1. tree[c.id] \in Node
      BY <1>1, <1>3
    <3> HIDE DEF tree
    <3>2. tree[c.id].depth \in 1..3
      BY <3>1 DEF Node, MaxDepth
    <3> QED BY <3>2
  <2> QED BY <2>1, <2>2, <2>3, <2>4
<1>6. \A n \in DOMAIN more : n \in 1..size \/ \E c \in able : n = At(c)
  BY <1>1, <1>2
<1> HIDE DEF At
\* The new nodes continue their branches,
<1>7. ASSUME NEW n \in DOMAIN more
      PROVE  /\ more[n].score = NodeScore(t, more[n].branch, more[n].depth)
             /\ more[n].depth = 1 => more[n].parent = Root
             /\ more[n].depth # 1 => more[n].parent \in DOMAIN more /\ Child(more, more[n].parent, n)
  <2>1. CASE n \in 1..size
    <3>1. /\ tree[n].score = NodeScore(t, tree[n].branch, tree[n].depth)
          /\ tree[n].depth = 1 => tree[n].parent = Root
          /\ tree[n].depth # 1 => tree[n].parent \in 1..size /\ Child(tree, tree[n].parent, n)
      BY <1>1, <2>1 DEF WellGrown
    <3> QED BY <1>2, <2>1, <3>1 DEF Child
  <2>2. CASE \E c \in able : n = At(c)
    <3>1. PICK c \in able : n = At(c)
      BY <2>2
    <3>2. CASE c.id = Root
      BY <1>5, <3>1, <3>2
    <3>3. CASE c.id # Root
      <4>1. c.id \in 1..size /\ more[c.id] = tree[c.id] /\ c.id \in DOMAIN more
        BY <1>2, <1>3, <3>3
      <4> QED BY <1>5, <3>1, <3>3, <4>1 DEF Child
    <3> QED BY <3>2, <3>3
  <2> QED BY <1>6, <2>1, <2>2
\* are where no node was,
<1>8. ASSUME NEW c \in able, NEW m \in 1..size
      PROVE  Place(more, m) # Place(more, At(c))
  <2> SUFFICES ASSUME tree[m].branch = more[At(c)].branch, tree[m].depth = more[At(c)].depth
               PROVE  FALSE
    BY <1>2 DEF Place
  <2>1. DOMAIN tree \in SUBSET (Nat \ {Root})
    BY <1>1 DEF Root
  <2>2. CASE c.id = Root
    <3>1. m \in ChildrenOf(tree, Root)
      <4>1. tree[m].depth = 1 /\ m \in DOMAIN tree
        BY <1>1, <1>5, <2>2
      <4>2. tree[m].parent = Root
        BY <4>1 DEF WellGrown
      <4> QED BY <4>1, <4>2 DEF ChildrenOf
    <3> QED BY <1>5, <2>2, <3>1 DEF Unopened
  <2>3. CASE c.id # Root
    <3>1. tree[m].depth # 1
      BY <1>5, <2>3
    <3>2. tree[m].parent \in 1..size /\ Child(tree, tree[m].parent, m)
      BY <1>1, <3>1 DEF WellGrown
    <3>3. c.id \in 1..size
      BY <1>3, <2>3
    <3> DEFINE p == tree[m].parent
    <3>4. tree[p].depth = tree[c.id].depth /\ tree[p].branch = tree[c.id].branch
      <4>1. \A x \in Node : x.depth \in Int
        BY DEF Node, MaxDepth
      <4>2. tree[p] \in Node /\ tree[c.id] \in Node
        BY <1>1, <3>2, <3>3
      <4>3. /\ tree[m].branch = tree[p].branch
            /\ tree[m].depth = tree[p].depth + 1
        BY <3>2 DEF Child
      <4>4. /\ tree[m].branch = tree[c.id].branch
            /\ tree[m].depth = tree[c.id].depth + 1
        BY <1>5, <2>3
      <4> HIDE DEF p, tree
      <4>5. tree[p].depth \in Int /\ tree[c.id].depth \in Int
        BY <4>1, <4>2
      <4> QED BY <4>3, <4>4, <4>5
    <3>5. tree[m].parent = c.id
      <4>1. \A k, n \in 1..size : Place(tree, k) = Place(tree, n) => k = n
        BY <1>1 DEF WellGrown
      <4>2. Place(tree, p) = Place(tree, c.id)
        BY <3>4 DEF Place
      <4> HIDE DEF tree
      <4> QED BY ONLY <3>2, <3>3, <4>1, <4>2
    <3>6. c.id \in Leaves(tree, run.revealed)
      <4>1. c \in Candidates(cfg, run)
        BY <1>3 DEF Selected
      <4> QED BY <2>3, <4>1 DEF Candidates
    <3>7. m \in ChildrenOf(tree, c.id) \cap run.revealed
      BY <1>1, <3>5 DEF ChildrenOf
    <3> QED BY <3>6, <3>7 DEF Leaves
  <2> QED BY <2>2, <2>3
<1>9. ASSUME NEW c \in able, NEW d \in able, Place(more, At(c)) = Place(more, At(d))
      PROVE  c = d
  <2>1. /\ more[At(c)].branch = more[At(d)].branch
        /\ more[At(c)].depth = more[At(d)].depth
    BY <1>9 DEF Place
  <2>2. CASE c.id = Root \/ d.id = Root
    BY <1>4, <1>5, <2>1, <2>2
  <2>3. CASE c.id # Root /\ d.id # Root
    <3>1. c.id \in 1..size /\ d.id \in 1..size
      BY <1>3, <2>3
    <3>2. tree[c.id].depth \in Int /\ tree[d.id].depth \in Int
      BY <1>1, <3>1 DEF Node
    <3>3. Place(tree, c.id) = Place(tree, d.id)
      <4>1. tree[c.id].branch = tree[d.id].branch
        BY <1>5, <2>1, <2>3
      <4>2. tree[c.id].depth = tree[d.id].depth
        <5>1. tree[c.id].depth + 1 = tree[d.id].depth + 1
          BY <1>5, <2>1, <2>3
        <5> QED BY <3>2, <5>1
      <4> QED BY <4>1, <4>2 DEF Place
    <3> QED BY <1>1, <1>4, <3>1, <3>3 DEF WellGrown
  <2> QED BY <2>2, <2>3
<1>10. \A m, n \in DOMAIN more : Place(more, m) = Place(more, n) => m = n
  <2>1. \A m, n \in 1..size : Place(more, m) = Place(more, n) => m = n
    <3> TAKE m, n \in 1..size
    <3>1. Place(more, m) = Place(tree, m) /\ Place(more, n) = Place(tree, n)
      BY <1>2 DEF Place
    <3> QED BY <1>1, <3>1 DEF WellGrown
  <2> QED BY <1>6, <1>8, <1>9, <2>1
\* and follow those of the branches before.
<1>11. ASSUME NEW n \in DOMAIN more, NEW b \in 1..more[n].branch - 1,
              more[n].depth = 1 \/ (more[n].branch # t /\ b # t)
       PROVE  \E m \in DOMAIN more : m < n /\ Place(more, m) = <<b, more[n].depth>>
  <2>1. CASE n \in 1..size
    <3>1. more[n] = tree[n]
      BY <1>2, <2>1
    <3>2. PICK m \in 1..size : m < n /\ Place(tree, m) = <<b, tree[n].depth>>
      BY <1>1, <1>11, <2>1, <3>1 DEF WellGrown
    <3>3. m \in DOMAIN more /\ Place(more, m) = Place(tree, m)
      BY <1>2 DEF Place
    <3> QED BY <3>1, <3>2, <3>3
  <2>2. CASE \E c \in able : n = At(c)
    <3>1. PICK c \in able : n = At(c)
      BY <2>2
    <3>2. \A m \in 1..size : m < n /\ m \in DOMAIN more /\ more[m] = tree[m]
      BY <1>1, <1>2, <3>1 DEF At
    <3>3. CASE c.id = Root
      <4>1. /\ more[n].branch \in Unopened(tree) /\ more[n].depth = 1
            /\ \A a \in Unopened(tree) : more[n].branch <= a
        BY <1>5, <3>1, <3>3
      <4>2. more[n].branch \in 1..Branches
        BY <4>1 DEF Unopened
      <4>3. b \in 1..Branches /\ b < more[n].branch
        BY <4>2, SizesAssumption
      <4>4. b \notin Unopened(tree)
        BY <4>1, <4>2, <4>3
      <4>5. PICK m \in ChildrenOf(tree, Root) : tree[m].branch = b
        BY <4>3, <4>4 DEF Unopened
      <4>6. m \in 1..size /\ tree[m].depth = 1
        <5>1. DOMAIN tree \in SUBSET (Nat \ {Root}) /\ m \in DOMAIN tree
          BY <1>1 DEF Root, ChildrenOf
        <5> QED BY <1>1, <5>1, ChildIsNext DEF ChildrenOf
      <4> QED BY <3>2, <4>1, <4>5, <4>6 DEF Place
    <3>4. CASE c.id # Root
      <4>1. /\ more[n].branch = tree[c.id].branch /\ more[n].depth = tree[c.id].depth + 1
            /\ more[n].depth # 1
        BY <1>5, <3>1, <3>4
      <4>2. b \in 1..tree[c.id].branch - 1 /\ tree[c.id].branch # t /\ b # t
        BY <1>11, <4>1
      <4>3. \/ \E m \in DOMAIN tree : Place(tree, m) = <<b, tree[c.id].depth + 1>>
            \/ \E d \in able : /\ d.id # Root /\ Rank(able, d) < Rank(able, c)
                               /\ Place(tree, d.id) = <<b, tree[c.id].depth>>
        BY <3>4, <4>2, FollowedInOrder DEF able
      <4>4. CASE \E m \in DOMAIN tree : Place(tree, m) = <<b, tree[c.id].depth + 1>>
        BY <1>1, <3>2, <4>1, <4>4 DEF Place
      <4>5. CASE \E d \in able : /\ d.id # Root /\ Rank(able, d) < Rank(able, c)
                                 /\ Place(tree, d.id) = <<b, tree[c.id].depth>>
        <5>1. PICK d \in able : /\ d.id # Root /\ Rank(able, d) < Rank(able, c)
                                /\ Place(tree, d.id) = <<b, tree[c.id].depth>>
          BY <4>5
        <5>2. At(d) < n /\ At(d) \in DOMAIN more
          <6>1. Rank(able, d) \in Nat /\ Rank(able, c) \in Nat
            BY <1>2
          <6> QED BY <1>1, <1>2, <3>1, <5>1, <6>1 DEF At
        <5>3. Place(more, At(d)) = <<b, more[n].depth>>
          BY <1>5, <4>1, <5>1 DEF Place
        <5> QED BY <5>2, <5>3
      <4> QED BY <4>3, <4>4, <4>5
    <3> QED BY <3>3, <3>4
  <2> QED BY <1>6, <2>1, <2>2
<1> QED
  BY <1>7, <1>10, <1>11 DEF WellGrown, more, next, able

-----------------------------------------------------------------------------
(* Two runs that have revealed the same places, in different trees.        *)

Places(run) == {Place(run.tree, n) : n \in run.revealed \ {Root}}

Kin(r, o, t) ==
  /\ WellFormed(r) /\ WellFormed(o) /\ Full(o)
  /\ WellGrown(r.tree, t) /\ WellGrown(o.tree, t)
  /\ Places(r) = Places(o) /\ Len(r.rounds) = Len(o.rounds)
  /\ r.last_best = o.last_best /\ r.stalled = o.stalled

\* The node of r at the place of node n of o.
Twin(r, o, n) ==
  IF n = Root THEN Root
  ELSE CHOOSE m \in r.revealed \ {Root} : Place(r.tree, m) = Place(o.tree, n)

\* Each node has one twin, that looks like it.
LEMMA Twins ==
  ASSUME NEW r, NEW o, NEW t, Kin(r, o, t)
  PROVE  /\ r.revealed \subseteq {Root} \cup DOMAIN r.tree
         /\ o.revealed = {Root} \cup DOMAIN o.tree
         /\ Root \notin DOMAIN r.tree /\ Root \notin DOMAIN o.tree /\ Root \in r.revealed
         /\ \A n \in DOMAIN r.tree : r.tree[n] \in Node
         /\ \A n \in DOMAIN o.tree : o.tree[n] \in Node
         /\ Twin(r, o, Root) = Root
         /\ \A n \in DOMAIN o.tree :
              LET m == Twin(r, o, n)
              IN  /\ m \in r.revealed /\ m # Root /\ m \in DOMAIN r.tree
                  /\ r.tree[m].branch = o.tree[n].branch
                  /\ r.tree[m].depth = o.tree[n].depth
                  /\ r.tree[m].score = o.tree[n].score
         /\ \A m \in r.revealed : \E n \in o.revealed : m = Twin(r, o, n)
         /\ \A n, k \in o.revealed : Twin(r, o, n) = Twin(r, o, k) => n = k
<1>1. /\ DOMAIN r.tree = 1..Len(r.tree) /\ Len(r.tree) \in Nat
      /\ DOMAIN o.tree = 1..Len(o.tree) /\ Len(o.tree) \in Nat
      /\ \A n \in DOMAIN r.tree : r.tree[n] \in Node
      /\ \A n \in DOMAIN o.tree : o.tree[n] \in Node
  BY RevealedFinite DEF Kin
<1>2. /\ r.revealed \subseteq {Root} \cup DOMAIN r.tree
      /\ o.revealed = {Root} \cup DOMAIN o.tree
      /\ Root \notin DOMAIN r.tree /\ Root \notin DOMAIN o.tree /\ Root \in r.revealed
  BY <1>1 DEF Kin, WellFormed, Full, Root
<1>3. ASSUME NEW n \in DOMAIN o.tree
      PROVE  LET m == Twin(r, o, n)
             IN  /\ m \in r.revealed /\ m # Root /\ m \in DOMAIN r.tree
                 /\ Place(r.tree, m) = Place(o.tree, n)
                 /\ r.tree[m].branch = o.tree[n].branch
                 /\ r.tree[m].depth = o.tree[n].depth
                 /\ r.tree[m].score = o.tree[n].score
  <2>1. Place(o.tree, n) \in Places(o)
    BY <1>2 DEF Places
  <2>2. \E m \in r.revealed \ {Root} : Place(r.tree, m) = Place(o.tree, n)
    BY <2>1 DEF Places, Kin
  <2>3. n # Root
    BY <1>2
  <2> DEFINE m == Twin(r, o, n)
  <2>4. m \in r.revealed \ {Root} /\ Place(r.tree, m) = Place(o.tree, n)
    BY <2>2, <2>3 DEF Twin
  <2> HIDE DEF m
  <2>5. m \in DOMAIN r.tree
    BY <1>2, <2>4
  <2>6. r.tree[m].branch = o.tree[n].branch /\ r.tree[m].depth = o.tree[n].depth
    BY <2>4 DEF Place
  <2>7. r.tree[m].score = o.tree[n].score
    BY <2>5, <2>6 DEF Kin, WellGrown
  <2> QED BY <2>4, <2>5, <2>6, <2>7 DEF m
<1>4. Twin(r, o, Root) = Root
  BY DEF Twin
<1>5. ASSUME NEW m \in r.revealed
      PROVE  \E n \in o.revealed : m = Twin(r, o, n)
  <2>1. CASE m = Root
    BY <1>2, <1>4, <2>1
  <2>2. CASE m # Root
    <3>1. Place(r.tree, m) \in Places(o) /\ m \in DOMAIN r.tree
      BY <1>2, <2>2 DEF Places, Kin
    <3>2. PICK n \in o.revealed \ {Root} : Place(r.tree, m) = Place(o.tree, n)
      BY <3>1 DEF Places
    <3>3. n \in DOMAIN o.tree
      BY <1>2
    <3>4. /\ Twin(r, o, n) \in DOMAIN r.tree
          /\ Place(r.tree, Twin(r, o, n)) = Place(r.tree, m)
      BY <1>3, <3>2, <3>3
    <3>5. m = Twin(r, o, n)
      BY <3>1, <3>4 DEF Kin, WellGrown
    <3> QED BY <3>5
  <2> QED BY <2>1, <2>2
<1>6. ASSUME NEW n \in o.revealed, NEW k \in o.revealed, Twin(r, o, n) = Twin(r, o, k)
      PROVE  n = k
  <2>1. CASE n = Root \/ k = Root
    BY <1>2, <1>3, <1>4, <1>6, <2>1
  <2>2. CASE n \in DOMAIN o.tree /\ k \in DOMAIN o.tree
    <3>1. Place(o.tree, n) = Place(o.tree, k)
      BY <1>3, <1>6, <2>2
    <3> QED BY <2>2, <3>1 DEF Kin, WellGrown
  <2> QED BY <1>2, <2>1, <2>2
<1> QED
  BY <1>1, <1>2, <1>3, <1>4, <1>5, <1>6

\* Sets of twins have the same size.
LEMMA TwinsCount ==
  ASSUME NEW r, NEW o, NEW t, Kin(r, o, t), NEW S \in SUBSET o.revealed
  PROVE  LET T == {Twin(r, o, n) : n \in S}
         IN  Cardinality(T) = Cardinality(S)
<1> DEFINE T == {Twin(r, o, n) : n \in S}
           f == [n \in S |-> Twin(r, o, n)]
<1>1. \A n, k \in S : f[n] = f[k] => n = k
  BY Twins
<1>2. f \in Bijection(S, T)
  BY <1>1 DEF Bijection, Injection, Surjection, IsInjective
<1>3. ExistsBijection(S, T)
  BY <1>2 DEF ExistsBijection
<1>4. IsFiniteSet(S)
  <2>1. IsFiniteSet(o.revealed)
    BY RevealedFinite DEF Kin
  <2> QED BY <2>1, FS_Subset
<1> QED
  BY <1>3, <1>4, FS_Bijection

\* A node's children are at the next place of its branch.
LEMMA ChildAtNext ==
  ASSUME NEW tree, NEW t, WellGrown(tree, t), DOMAIN tree \in SUBSET (Nat \ {Root}),
         \A n \in DOMAIN tree : tree[n] \in Node,
         NEW n \in DOMAIN tree, NEW h \in DOMAIN tree
  PROVE  h \in ChildrenOf(tree, n) <=>
           tree[h].branch = tree[n].branch /\ tree[h].depth = tree[n].depth + 1
<1>1. \A x \in Node : x.depth \in Nat /\ x.depth > 0
  BY DEF Node, MaxDepth
<1>2. tree[n].depth \in Nat /\ tree[n].depth > 0 /\ n # Root
  BY <1>1
<1>3. ASSUME h \in ChildrenOf(tree, n)
      PROVE  tree[h].branch = tree[n].branch /\ tree[h].depth = tree[n].depth + 1
  <2>1. tree[h].parent = n /\ tree[h].parent # Root
    BY <1>2, <1>3 DEF ChildrenOf
  <2>2. Child(tree, n, h)
    BY <2>1 DEF WellGrown
  <2> QED BY <2>2 DEF Child
<1>4. ASSUME tree[h].branch = tree[n].branch, tree[h].depth = tree[n].depth + 1
      PROVE  h \in ChildrenOf(tree, n)
  <2>1. tree[h].depth # 1
    BY <1>2, <1>4
  <2> DEFINE p == tree[h].parent
  <2>2. p \in DOMAIN tree /\ Child(tree, p, h)
    BY <2>1 DEF WellGrown
  <2> HIDE DEF p
  <2>3. tree[p].depth \in Nat
    BY <1>1, <2>2
  <2>4. tree[p].branch = tree[n].branch /\ tree[p].depth + 1 = tree[n].depth + 1
    BY <1>4, <2>2 DEF Child
  <2>5. Place(tree, p) = Place(tree, n)
    BY <1>2, <2>3, <2>4 DEF Place
  <2>6. p = n
    BY <2>2, <2>5 DEF WellGrown
  <2> QED BY <2>6 DEF p, ChildrenOf
<1> QED
  BY <1>3, <1>4

\* Both runs see the same: leaves, open branches and requests,
LEMMA KinSee ==
  ASSUME NEW r, NEW o, NEW t, Kin(r, o, t)
  PROVE  /\ Requests(r) = Requests(o)
         /\ RootChildren(r) = RootChildren(o)
         /\ \A n \in DOMAIN o.tree :
              n \in Leaves(o.tree, o.revealed) <=> Twin(r, o, n) \in Leaves(r.tree, r.revealed)
         /\ BestScore(r.tree, r.revealed) = BestScore(o.tree, o.revealed)
<1>1. /\ r.revealed \subseteq {Root} \cup DOMAIN r.tree
      /\ o.revealed = {Root} \cup DOMAIN o.tree
      /\ Root \notin DOMAIN r.tree /\ Root \notin DOMAIN o.tree /\ Root \in r.revealed
      /\ \A n \in DOMAIN r.tree : r.tree[n] \in Node
      /\ \A n \in DOMAIN o.tree : o.tree[n] \in Node
      /\ Twin(r, o, Root) = Root
  BY Twins
<1>2. \A n \in DOMAIN o.tree :
        LET m == Twin(r, o, n)
        IN  /\ m \in r.revealed /\ m # Root /\ m \in DOMAIN r.tree
            /\ r.tree[m].branch = o.tree[n].branch
            /\ r.tree[m].depth = o.tree[n].depth
            /\ r.tree[m].score = o.tree[n].score
  BY Twins
<1>3. \A m \in r.revealed : \E n \in o.revealed : m = Twin(r, o, n)
  BY Twins
<1>4. /\ DOMAIN r.tree \in SUBSET (Nat \ {Root}) /\ DOMAIN o.tree \in SUBSET (Nat \ {Root})
      /\ WellGrown(r.tree, t) /\ WellGrown(o.tree, t)
  <2>1. WellFormed(r) /\ WellFormed(o) /\ WellGrown(r.tree, t) /\ WellGrown(o.tree, t)
    BY DEF Kin
  <2>2. /\ DOMAIN r.tree = 1..Len(r.tree) /\ Len(r.tree) \in Nat
        /\ DOMAIN o.tree = 1..Len(o.tree) /\ Len(o.tree) \in Nat
    BY <2>1, RevealedFinite
  <2> QED BY <1>1, <2>1, <2>2
<1>5. Requests(r) = Requests(o)
  <2> DEFINE S == o.revealed \ {Root}
             T == {Twin(r, o, n) : n \in S}
  <2>1. T = r.revealed \ {Root}
    BY <1>1, <1>2, <1>3
  <2>2. Cardinality(T) = Cardinality(S)
    <3>1. S \in SUBSET o.revealed
      OBVIOUS
    <3> HIDE DEF S
    <3> QED BY <3>1, TwinsCount
  <2> QED BY <2>1, <2>2 DEF Requests
<1>6. RootChildren(r) = RootChildren(o)
  <2> DEFINE S == ChildrenOf(o.tree, Root) \cap o.revealed
             T == {Twin(r, o, n) : n \in S}
  <2>0. /\ \A n \in DOMAIN o.tree : o.tree[n].parent = Root <=> o.tree[n].depth = 1
        /\ \A n \in DOMAIN r.tree : r.tree[n].parent = Root <=> r.tree[n].depth = 1
    BY <1>4, ChildIsNext
  <2>1. T = ChildrenOf(r.tree, Root) \cap r.revealed
    <3>1. \A n \in S : Twin(r, o, n) \in ChildrenOf(r.tree, Root) \cap r.revealed
      BY <1>2, <2>0 DEF ChildrenOf
    <3>2. \A m \in ChildrenOf(r.tree, Root) \cap r.revealed : \E n \in S : m = Twin(r, o, n)
      <4> TAKE m \in ChildrenOf(r.tree, Root) \cap r.revealed
      <4>1. PICK n \in o.revealed : m = Twin(r, o, n)
        BY <1>3
      <4>2. m \in DOMAIN r.tree /\ r.tree[m].depth = 1
        BY <2>0 DEF ChildrenOf
      <4>3. n \in DOMAIN o.tree
        BY <1>1, <4>1, <4>2
      <4>4. o.tree[n].depth = 1
        BY <1>2, <4>1, <4>2, <4>3
      <4>5. n \in S
        BY <2>0, <4>3, <4>4 DEF ChildrenOf
      <4> QED BY <4>1, <4>5
    <3> QED BY <3>1, <3>2
  <2>2. Cardinality(T) = Cardinality(S)
    <3>1. S \in SUBSET o.revealed
      OBVIOUS
    <3> HIDE DEF S
    <3> QED BY <3>1, TwinsCount
  <2> QED BY <2>1, <2>2 DEF RootChildren
<1>7. ASSUME NEW n \in DOMAIN o.tree
      PROVE  n \in Leaves(o.tree, o.revealed) <=> Twin(r, o, n) \in Leaves(r.tree, r.revealed)
  <2> DEFINE m == Twin(r, o, n)
  <2>1. /\ m \in r.revealed /\ m # Root /\ m \in DOMAIN r.tree
        /\ r.tree[m].branch = o.tree[n].branch /\ r.tree[m].depth = o.tree[n].depth
        /\ n \in o.revealed /\ n # Root
    BY <1>1, <1>2
  <2> HIDE DEF m
  <2>2. ASSUME NEW h \in DOMAIN o.tree
        PROVE  h \in ChildrenOf(o.tree, n) <=> Twin(r, o, h) \in ChildrenOf(r.tree, m)
    <3>1. h \in ChildrenOf(o.tree, n) <=>
            o.tree[h].branch = o.tree[n].branch /\ o.tree[h].depth = o.tree[n].depth + 1
      BY <1>1, <1>4, ChildAtNext
    <3>2. Twin(r, o, h) \in DOMAIN r.tree
      BY <1>2
    <3>3. Twin(r, o, h) \in ChildrenOf(r.tree, m) <=>
            /\ r.tree[Twin(r, o, h)].branch = r.tree[m].branch
            /\ r.tree[Twin(r, o, h)].depth = r.tree[m].depth + 1
      BY <1>1, <1>4, <2>1, <3>2, ChildAtNext
    <3> QED BY <1>2, <2>1, <3>1, <3>3
  <2>3. (\E h \in ChildrenOf(o.tree, n) : h \in o.revealed) <=>
          (\E h \in ChildrenOf(r.tree, m) : h \in r.revealed)
    <3>1. ASSUME NEW h \in ChildrenOf(o.tree, n)
          PROVE  \E g \in ChildrenOf(r.tree, m) : g \in r.revealed
      <4>1. h \in DOMAIN o.tree
        BY DEF ChildrenOf
      <4> QED BY <1>2, <2>2, <4>1
    <3>2. ASSUME NEW g \in ChildrenOf(r.tree, m), g \in r.revealed
          PROVE  \E h \in ChildrenOf(o.tree, n) : h \in o.revealed
      <4>1. PICK h \in o.revealed : g = Twin(r, o, h)
        BY <1>3, <3>2
      <4>2. g \in DOMAIN r.tree
        BY DEF ChildrenOf
      <4>3. h \in DOMAIN o.tree
        BY <1>1, <4>1, <4>2
      <4> QED BY <2>2, <4>1, <4>3
    <3> QED BY <3>1, <3>2
  <2> QED BY <2>1, <2>3 DEF Leaves, m
<1>8. BestScore(r.tree, r.revealed) = BestScore(o.tree, o.revealed)
  <2>1. \A n \in o.revealed : ScoreOf(r.tree, Twin(r, o, n)) = ScoreOf(o.tree, n)
    BY <1>1, <1>2 DEF ScoreOf
  <2>2. \A n \in o.revealed : Twin(r, o, n) \in r.revealed
    BY <1>1, <1>2
  <2>3. {ScoreOf(r.tree, n) : n \in r.revealed} = {ScoreOf(o.tree, n) : n \in o.revealed}
    BY <1>3, <2>1, <2>2
  <2> QED BY <2>3 DEF BestScore
<1> QED
  BY <1>5, <1>6, <1>7, <1>8

\* so they note the same.
LEMMA KinObserved ==
  ASSUME NEW r, NEW o, NEW t, Kin(r, o, t)
  PROVE  Kin(Observed(r), Observed(o), t)
<1>1. \A run : WellFormed(run) =>
        LET seen == Observed(run)
        IN  /\ WellFormed(seen)
            /\ seen.tree = run.tree /\ seen.revealed = run.revealed
            /\ seen.rounds = run.rounds /\ seen.reason = run.reason
  BY ObservedKeeps
<1>2. \A run : WellFormed(run) =>
        /\ Observed(run).last_best = BestScore(run.tree, run.revealed)
        /\ Observed(run).stalled = IF BestScore(run.tree, run.revealed) > run.last_best
                                   THEN 0 ELSE run.stalled + 1
  BY DEF Observed, WellFormed, RunType
<1>3. WellFormed(r) /\ WellFormed(o)
  BY DEF Kin
<1>4. BestScore(r.tree, r.revealed) = BestScore(o.tree, o.revealed)
  BY KinSee
<1>5. /\ Observed(r).last_best = Observed(o).last_best
      /\ Observed(r).stalled = Observed(o).stalled
  BY <1>2, <1>3, <1>4 DEF Kin
<1> DEFINE mine == Observed(r)
           seen == Observed(o)
<1>6. /\ WellFormed(mine) /\ mine.tree = r.tree /\ mine.revealed = r.revealed
      /\ mine.rounds = r.rounds
  BY <1>1, <1>3
<1>7. /\ WellFormed(seen) /\ seen.tree = o.tree /\ seen.revealed = o.revealed
      /\ seen.rounds = o.rounds
  BY <1>1, <1>3
<1>8. mine.last_best = seen.last_best /\ mine.stalled = seen.stalled
  BY <1>5
<1> HIDE DEF mine, seen
<1>9. Places(mine) = Places(seen) /\ Full(seen)
  BY <1>6, <1>7 DEF Kin, Places, Full
<1>10. Kin(mine, seen, t)
  BY <1>6, <1>7, <1>8, <1>9 DEF Kin
<1> QED
  BY <1>10 DEF mine, seen

\* The order does not depend on the ids: in equal order, equal places.
LEMMA SameRank ==
  ASSUME NEW S \in SUBSET Candidate, IsFiniteSet(S), NEW T \in SUBSET Candidate,
         NEW f \in Bijection(S, T),
         \A c, d \in S : Precedes(c, d) <=> Precedes(f[c], f[d]),
         NEW c \in S
  PROVE  Rank(T, f[c]) = Rank(S, c)
<1> DEFINE A == Ahead(S, c)
           B == Ahead(T, f[c])
           g == [d \in A |-> f[d]]
<1>1. A = {d \in S : Precedes(d, c)} /\ B = {d \in T : Precedes(d, f[c])}
  BY DEF Ahead, Precedes
<1>2. /\ \A d \in S : f[d] \in T
      /\ \A d, e \in S : f[d] = f[e] => d = e
      /\ \A e \in T : \E d \in S : f[d] = e
  BY DEF Bijection, Injection, Surjection, IsInjective
<1> HIDE DEF A, B
<1>3. \A d \in A : d \in S /\ f[d] \in B
  BY <1>1, <1>2
<1>4. \A e \in B : \E d \in A : f[d] = e
  BY <1>1, <1>2
<1>5. g \in Bijection(A, B)
  BY <1>2, <1>3, <1>4 DEF Bijection, Injection, Surjection, IsInjective
<1>6. ExistsBijection(A, B)
  BY <1>5 DEF ExistsBijection
<1>7. IsFiniteSet(A)
  BY <1>1, FS_Subset
<1> QED
  BY <1>6, <1>7, FS_Bijection DEF Rank, A, B

\* Nodes that tie, for a policy that tells them apart.
LEMMA TieMeans ==
  ASSUME NEW cfg \in Policies, TellsApart(cfg), NEW tree, NEW t, WellGrown(tree, t),
         \A n \in DOMAIN tree : tree[n] \in Node,
         NEW m \in DOMAIN tree, NEW n \in DOMAIN tree,
         tree[m].depth < MaxDepth, tree[n].depth < MaxDepth,
         NodeValue(cfg, tree[m]) = NodeValue(cfg, tree[n])
  PROVE  /\ tree[m].depth = tree[n].depth
         /\ tree[m].depth = 1 \/ (tree[m].branch = t <=> tree[n].branch = t)
<1> DEFINE Side(k) == IF tree[k].branch = t THEN 1 ELSE 2
           Like(k) == [depth |-> tree[k].depth, score |-> NodeScore(1, Side(k), tree[k].depth)]
<1>1. ASSUME NEW k \in {m, n}
      PROVE  /\ tree[k].depth \in 1..2 /\ Like(k) \in Refinable
             /\ Like(k).depth = tree[k].depth /\ Like(k).score = tree[k].score
             /\ NodeValue(cfg, Like(k)) = NodeValue(cfg, tree[k])
  <2>1. k \in DOMAIN tree /\ tree[k].depth < MaxDepth /\ tree[k] \in Node
    OBVIOUS
  <2>2. tree[k].depth \in 1..2
    <3> DEFINE x == tree[k]
    <3>1. x \in Node /\ x.depth < MaxDepth
      BY <2>1
    <3> HIDE DEF x
    <3>2. x.depth \in 1..2
      BY <3>1 DEF Node, MaxDepth
    <3> QED BY <3>2 DEF x
  <2>3. Side(k) \in 1..2
    OBVIOUS
  <2>4. Like(k) \in Refinable
    <3> HIDE DEF Side
    <3>1. 1..MaxDepth - 1 = 1..2
      BY DEF MaxDepth
    <3> QED BY <2>2, <2>3, <3>1 DEF Refinable
  <2>5. tree[k].score = NodeScore(1, Side(k), tree[k].depth)
    <3>1. tree[k].score = NodeScore(t, tree[k].branch, tree[k].depth)
      BY <2>1 DEF WellGrown
    <3> QED BY <3>1 DEF NodeScore
  <2> HIDE DEF Side
  <2>6. Like(k).depth = tree[k].depth /\ Like(k).score = tree[k].score
    BY <2>5
  <2> HIDE DEF Like
  <2> QED BY <2>2, <2>4, <2>6 DEF NodeValue
<1> HIDE DEF Like
<1>2. Like(m).depth = Like(n).depth /\ (Like(m).depth = 1 \/ Like(m) = Like(n))
  BY <1>1 DEF TellsApart
<1>3. tree[m].depth = tree[n].depth
  BY <1>1, <1>2
<1>4. ASSUME tree[m].depth # 1
      PROVE  tree[m].branch = t <=> tree[n].branch = t
  <2>1. tree[m].score = tree[n].score /\ tree[m].depth = 2 /\ tree[n].depth = 2
    BY <1>1, <1>2, <1>3, <1>4
  <2>2. /\ tree[m].score = NodeScore(t, tree[m].branch, 2)
        /\ tree[n].score = NodeScore(t, tree[n].branch, 2)
    BY <2>1 DEF WellGrown
  <2>3. ASSUME NEW a, NEW b, NodeScore(t, a, 2) = NodeScore(t, b, 2)
        PROVE  a = t <=> b = t
    BY <2>3 DEF NodeScore
  <2>4. NodeScore(t, tree[m].branch, 2) = NodeScore(t, tree[n].branch, 2)
    BY <2>1, <2>2
  <2> QED BY <2>3, <2>4
<1> QED
  BY <1>3, <1>4

\* At the same place of different branches the order of ids is that of branches.
LEMMA OrderIsOfBranches ==
  ASSUME NEW tree, NEW t, WellGrown(tree, t), DOMAIN tree \in SUBSET (Nat \ {Root}),
         \A n \in DOMAIN tree : tree[n] \in Node,
         NEW m \in DOMAIN tree, NEW n \in DOMAIN tree,
         tree[m].depth = tree[n].depth,
         tree[m].depth = 1 \/ (tree[m].branch = t <=> tree[n].branch = t)
  PROVE  m < n <=> tree[m].branch < tree[n].branch
<1>1. ASSUME NEW a \in DOMAIN tree, NEW b \in DOMAIN tree,
             tree[a].depth = tree[b].depth, tree[a].branch < tree[b].branch,
             tree[a].depth = 1 \/ (tree[a].branch = t <=> tree[b].branch = t)
      PROVE  a < b
  <2>1. \A x \in Node : x.branch \in 1..Branches
    BY DEF Node
  <2>2. /\ tree[a].branch \in 1..tree[b].branch - 1
        /\ tree[b].depth = 1 \/ (tree[b].branch # t /\ tree[a].branch # t)
    <3>1. tree[a].branch \in 1..Branches /\ tree[b].branch \in 1..Branches
      BY <2>1
    <3> QED BY <1>1, <3>1, SizesAssumption
  <2>3. PICK k \in DOMAIN tree : k < b /\ Place(tree, k) = <<tree[a].branch, tree[b].depth>>
    BY <2>2 DEF WellGrown
  <2>4. Place(tree, k) = Place(tree, a)
    BY <1>1, <2>3 DEF Place
  <2>5. k = a
    BY <2>4 DEF WellGrown
  <2> QED BY <2>3, <2>5
<1>2. /\ tree[m].branch \in Int /\ tree[n].branch \in Int /\ m \in Nat /\ n \in Nat
      /\ tree[m].branch = tree[n].branch => m = n
  <2>1. \A x \in Node : x.branch \in Int
    BY SizesAssumption DEF Node
  <2>2. tree[m].branch = tree[n].branch => Place(tree, m) = Place(tree, n)
    BY DEF Place
  <2> QED BY <2>1, <2>2 DEF WellGrown
<1> QED
  BY <1>1, <1>2

\* For a policy that tells nodes apart, both runs order their candidates alike.
LEMMA KinOrder ==
  ASSUME NEW r, NEW o, NEW t, Kin(r, o, t), NEW cfg \in Policies, TellsApart(cfg),
         NEW n \in o.revealed, NEW k \in o.revealed,
         n # Root => o.tree[n].depth < MaxDepth,
         k # Root => o.tree[k].depth < MaxDepth
  PROVE  /\ Priority(cfg, r, Twin(r, o, n)) = Priority(cfg, o, n)
         /\ Priority(cfg, o, n) = Priority(cfg, o, k) =>
              (n < k <=> Twin(r, o, n) < Twin(r, o, k))
<1>1. /\ o.revealed = {Root} \cup DOMAIN o.tree
      /\ r.revealed \subseteq {Root} \cup DOMAIN r.tree
      /\ Root \notin DOMAIN r.tree /\ Root \notin DOMAIN o.tree
      /\ \A i \in DOMAIN r.tree : r.tree[i] \in Node
      /\ \A i \in DOMAIN o.tree : o.tree[i] \in Node
      /\ Twin(r, o, Root) = Root
  BY Twins
<1>2. \A i \in DOMAIN o.tree :
        LET m == Twin(r, o, i)
        IN  /\ m \in r.revealed /\ m # Root /\ m \in DOMAIN r.tree
            /\ r.tree[m].branch = o.tree[i].branch
            /\ r.tree[m].depth = o.tree[i].depth
            /\ r.tree[m].score = o.tree[i].score
  BY Twins
<1>3. /\ DOMAIN r.tree \in SUBSET (Nat \ {Root}) /\ DOMAIN o.tree \in SUBSET (Nat \ {Root})
      /\ WellGrown(r.tree, t) /\ WellGrown(o.tree, t)
  <2>1. WellFormed(r) /\ WellFormed(o) /\ WellGrown(r.tree, t) /\ WellGrown(o.tree, t)
    BY DEF Kin
  <2>2. /\ DOMAIN r.tree = 1..Len(r.tree) /\ Len(r.tree) \in Nat
        /\ DOMAIN o.tree = 1..Len(o.tree) /\ Len(o.tree) \in Nat
    BY <2>1, RevealedFinite
  <2> QED BY <1>1, <2>1, <2>2
<1>4. Priority(cfg, r, Twin(r, o, n)) = Priority(cfg, o, n)
  <2>1. CASE n = Root
    <3>1. RootChildren(r) = RootChildren(o) /\ r.stalled = o.stalled
      BY KinSee DEF Kin
    <3> QED BY <1>1, <2>1, <3>1 DEF Priority
  <2>2. CASE n # Root
    <3>1. n \in DOMAIN o.tree
      BY <1>1, <2>2
    <3>2. Twin(r, o, n) # Root /\ r.tree[Twin(r, o, n)].score = o.tree[n].score
          /\ r.tree[Twin(r, o, n)].depth = o.tree[n].depth
      BY <1>2, <3>1
    <3> QED BY <2>2, <3>2 DEF Priority, NodeValue
  <2> QED BY <2>1, <2>2
<1>5. ASSUME Priority(cfg, o, n) = Priority(cfg, o, k)
      PROVE  n < k <=> Twin(r, o, n) < Twin(r, o, k)
  <2>1. CASE n = Root \/ k = Root
    <3>1. \A i \in DOMAIN o.tree : /\ i \in Nat /\ i > 0
                                   /\ Twin(r, o, i) \in Nat /\ Twin(r, o, i) > 0
      BY <1>2, <1>3 DEF Root
    <3>2. Root = 0
      BY DEF Root
    <3>3. CASE n = Root /\ k = Root
      BY <1>1, <3>3
    <3>4. CASE n = Root /\ k # Root
      <4>1. k \in DOMAIN o.tree
        BY <1>1, <3>4
      <4> QED BY <1>1, <3>1, <3>2, <3>4, <4>1
    <3>5. CASE n # Root /\ k = Root
      <4>1. n \in DOMAIN o.tree
        BY <1>1, <3>5
      <4> QED BY <1>1, <3>1, <3>2, <3>5, <4>1
    <3> QED BY <2>1, <3>3, <3>4, <3>5
  <2>2. CASE n # Root /\ k # Root
    <3>1. n \in DOMAIN o.tree /\ k \in DOMAIN o.tree
      BY <1>1, <2>2
    <3>2. NodeValue(cfg, o.tree[n]) = NodeValue(cfg, o.tree[k])
      BY <1>5, <2>2 DEF Priority
    <3>3. /\ o.tree[n].depth = o.tree[k].depth
          /\ o.tree[n].depth = 1 \/ (o.tree[n].branch = t <=> o.tree[k].branch = t)
      BY <1>1, <1>3, <2>2, <3>1, <3>2, TieMeans
    <3>4. n < k <=> o.tree[n].branch < o.tree[k].branch
      BY <1>1, <1>3, <3>1, <3>3, OrderIsOfBranches
    <3> DEFINE a == Twin(r, o, n)
               b == Twin(r, o, k)
    <3>5. /\ a \in DOMAIN r.tree /\ r.tree[a].branch = o.tree[n].branch
          /\ r.tree[a].depth = o.tree[n].depth
          /\ b \in DOMAIN r.tree /\ r.tree[b].branch = o.tree[k].branch
          /\ r.tree[b].depth = o.tree[k].depth
      BY <1>2, <3>1
    <3> HIDE DEF a, b
    <3>6. a < b <=> r.tree[a].branch < r.tree[b].branch
      <4>1. /\ r.tree[a].depth = r.tree[b].depth
            /\ r.tree[a].depth = 1 \/ (r.tree[a].branch = t <=> r.tree[b].branch = t)
        BY <3>3, <3>5
      <4> QED BY <1>1, <1>3, <3>5, <4>1, OrderIsOfBranches
    <3> QED BY <3>4, <3>5, <3>6 DEF a, b
  <2> QED BY <2>1, <2>2
<1> QED
  BY <1>4, <1>5

\* So they select the same places.
LEMMA KinSelect ==
  ASSUME NEW r, NEW o, NEW t, Kin(r, o, t), NEW cfg \in Policies, TellsApart(cfg)
  PROVE  /\ \A e \in Selected(cfg, o) : \E c \in Selected(cfg, r) : c.id = Twin(r, o, e.id)
         /\ \A c \in Selected(cfg, r) : \E e \in Selected(cfg, o) : c.id = Twin(r, o, e.id)
<1> DEFINE mine == Candidates(cfg, r)
           ours == Candidates(cfg, o)
           f == [e \in ours |-> [id |-> Twin(r, o, e.id), value |-> e.value]]
<1>1. /\ r.revealed \subseteq {Root} \cup DOMAIN r.tree
      /\ o.revealed = {Root} \cup DOMAIN o.tree
      /\ Root \notin DOMAIN o.tree
      /\ Twin(r, o, Root) = Root
      /\ \A m \in r.revealed : \E n \in o.revealed : m = Twin(r, o, n)
      /\ \A n, k \in o.revealed : Twin(r, o, n) = Twin(r, o, k) => n = k
  BY Twins
<1>2. \A n \in DOMAIN o.tree :
        /\ Twin(r, o, n) # Root /\ r.tree[Twin(r, o, n)].depth = o.tree[n].depth
        /\ n \in Leaves(o.tree, o.revealed) <=> Twin(r, o, n) \in Leaves(r.tree, r.revealed)
  BY Twins, KinSee
<1>3. RootChildren(r) = RootChildren(o) /\ (Stops(cfg, r) <=> Stops(cfg, o))
  <2>1. r.last_best = o.last_best /\ Requests(r) = Requests(o) /\ RootChildren(r) = RootChildren(o)
    BY KinSee DEF Kin
  <2> QED BY <2>1 DEF Stops
<1> DEFINE In(run, n) == \/ n = Root /\ RootChildren(run) < cfg.max_branches
                         \/ n \in Leaves(run.tree, run.revealed) /\ run.tree[n].depth < MaxDepth
<1>4. \A run : Candidates(cfg, run) =
        {[id |-> n, value |-> Priority(cfg, run, n)] : n \in {k \in run.revealed \cup {Root} : In(run, k)}}
  <2> TAKE run
  <2> DEFINE ids == {m \in Leaves(run.tree, run.revealed) : run.tree[m].depth < MaxDepth}
                      \cup (IF RootChildren(run) < cfg.max_branches THEN {Root} ELSE {})
  <2>1. ids = {k \in run.revealed \cup {Root} : In(run, k)}
    BY DEF Leaves
  <2>2. Candidates(cfg, run) = {[id |-> n, value |-> Priority(cfg, run, n)] : n \in ids}
    BY DEF Candidates
  <2> HIDE DEF ids, In
  <2> QED BY <2>1, <2>2
<1>5. \A n \in o.revealed : In(o, n) <=> In(r, Twin(r, o, n))
  <2> TAKE n \in o.revealed
  <2>1. CASE n = Root
    <3>1. \A run : Root \notin Leaves(run.tree, run.revealed)
      BY DEF Leaves
    <3>2. \A run : In(run, Root) <=> RootChildren(run) < cfg.max_branches
      BY <3>1
    <3> HIDE DEF In
    <3> QED BY <1>1, <1>3, <2>1, <3>2
  <2>2. CASE n \in DOMAIN o.tree
    <3>1. n # Root
      BY <1>1, <2>2
    <3> QED BY <1>2, <2>2, <3>1
  <2> QED BY <1>1, <2>1, <2>2
<1>6. \A n \in o.revealed : In(o, n) /\ n # Root => o.tree[n].depth < MaxDepth
  OBVIOUS
<1>7. /\ mine \in SUBSET Candidate /\ IsFiniteSet(mine)
      /\ ours \in SUBSET Candidate /\ IsFiniteSet(ours)
      /\ Root \in o.revealed
  BY <1>1, CandidatesType DEF Kin
<1> HIDE DEF In
<1>8. \A e \in ours : e.id \in o.revealed /\ In(o, e.id) /\ e.value = Priority(cfg, o, e.id)
  BY <1>4, <1>7
<1>9. \A n \in o.revealed : In(o, n) =>
        [id |-> Twin(r, o, n), value |-> Priority(cfg, o, n)] \in mine
  <2> TAKE n \in o.revealed
  <2> HAVE In(o, n)
  <2>1. In(r, Twin(r, o, n)) /\ Twin(r, o, n) \in r.revealed
    BY <1>5, Twins
  <2>2. Priority(cfg, r, Twin(r, o, n)) = Priority(cfg, o, n)
    BY <1>6, KinOrder
  <2>3. [id |-> Twin(r, o, n), value |-> Priority(cfg, r, Twin(r, o, n))] \in mine
    BY <1>4, <2>1
  <2> QED BY <2>2, <2>3
<1>10. \A c \in mine : \E e \in ours : c = f[e]
  <2> TAKE c \in mine
  <2>1. PICK m \in r.revealed : In(r, m) /\ c = [id |-> m, value |-> Priority(cfg, r, m)]
    <3>1. Root \in r.revealed
      BY Twins
    <3> QED BY <1>4, <3>1
  <2>2. PICK n \in o.revealed : m = Twin(r, o, n)
    BY <1>1, <2>1
  <2>3. In(o, n) /\ Priority(cfg, r, m) = Priority(cfg, o, n)
    BY <1>5, <1>6, <2>1, <2>2, KinOrder
  <2> DEFINE e == [id |-> n, value |-> Priority(cfg, o, n)]
  <2>4. e \in ours
    BY <1>4, <2>3
  <2>5. f[e] = c
    BY <2>1, <2>2, <2>3, <2>4
  <2> QED BY <2>4, <2>5
<1>11. /\ \A e \in ours : f[e] \in mine /\ f[e].id = Twin(r, o, e.id) /\ f[e].value = e.value
       /\ DOMAIN f = ours
  BY <1>8, <1>9
<1>12. \A e, d \in ours : f[e] = f[d] => e = d
  <2> TAKE e, d \in ours
  <2> HAVE f[e] = f[d]
  <2>1. e.id = d.id /\ e.value = d.value
    BY <1>1, <1>8, <1>11
  <2>2. e \in Candidate /\ d \in Candidate
    BY <1>7
  <2> QED BY <2>1, <2>2 DEF Candidate
<1>13. \A e, d \in ours : Precedes(e, d) <=> Precedes(f[e], f[d])
  <2> TAKE e, d \in ours
  <2>1. Priority(cfg, o, e.id) = Priority(cfg, o, d.id) =>
          (e.id < d.id <=> Twin(r, o, e.id) < Twin(r, o, d.id))
    BY <1>6, <1>8, KinOrder
  <2> QED BY <1>8, <1>11, <2>1 DEF Precedes
<1>14. f \in Bijection(ours, mine)
  <2>1. f \in [ours -> mine]
    BY <1>11
  <2> HIDE DEF f, ours, mine
  <2> QED BY <1>10, <1>12, <2>1 DEF Bijection, Injection, Surjection, IsInjective
<1> HIDE DEF f, ours, mine
<1>15. \A e \in ours : Rank(mine, f[e]) = Rank(ours, e)
  BY <1>7, <1>13, <1>14, SameRank
<1>16. /\ Selected(cfg, r) = IF Stops(cfg, r) THEN {} ELSE {c \in mine : Rank(mine, c) < cfg.workers}
       /\ Selected(cfg, o) = IF Stops(cfg, o) THEN {} ELSE {c \in ours : Rank(ours, c) < cfg.workers}
  BY DEF Selected, mine, ours
<1> QED
  BY <1>3, <1>10, <1>11, <1>15, <1>16

-----------------------------------------------------------------------------
(* One round of both.                                                      *)

\* What the replay can show of a node is what the online run would grow.
LEMMA KinShows ==
  ASSUME NEW r, NEW o, NEW t, Kin(r, o, t),
         NEW n \in o.revealed, n # Root => o.tree[n].depth < MaxDepth,
         Hidden(r, Twin(r, o, n)) # {}
  PROVE  LET h == MinOf(Hidden(r, Twin(r, o, n)))
             x == Expanded(t, o.tree, n)
         IN  /\ CanExpand(o.tree, n)
             /\ h \in DOMAIN r.tree
             /\ Place(r.tree, h) = <<x.branch, x.depth>>
<1> DEFINE p == Twin(r, o, n)
           h == MinOf(Hidden(r, p))
           x == Expanded(t, o.tree, n)
<1>1. /\ o.revealed = {Root} \cup DOMAIN o.tree
      /\ r.revealed \subseteq {Root} \cup DOMAIN r.tree
      /\ Root \notin DOMAIN r.tree /\ Root \notin DOMAIN o.tree
      /\ \A i \in DOMAIN r.tree : r.tree[i] \in Node
      /\ \A i \in DOMAIN o.tree : o.tree[i] \in Node
      /\ Twin(r, o, Root) = Root
      /\ \A m \in r.revealed : \E i \in o.revealed : m = Twin(r, o, i)
  BY Twins
<1>2. \A i \in DOMAIN o.tree :
        LET m == Twin(r, o, i)
        IN  /\ m \in r.revealed /\ m # Root /\ m \in DOMAIN r.tree
            /\ r.tree[m].branch = o.tree[i].branch
            /\ r.tree[m].depth = o.tree[i].depth
            /\ r.tree[m].score = o.tree[i].score
  BY Twins
<1>3. /\ DOMAIN r.tree \in SUBSET (Nat \ {Root}) /\ DOMAIN o.tree \in SUBSET (Nat \ {Root})
      /\ WellGrown(r.tree, t) /\ WellGrown(o.tree, t)
  <2>1. WellFormed(r) /\ WellFormed(o) /\ WellGrown(r.tree, t) /\ WellGrown(o.tree, t)
    BY DEF Kin
  <2>2. /\ DOMAIN r.tree = 1..Len(r.tree) /\ Len(r.tree) \in Nat
        /\ DOMAIN o.tree = 1..Len(o.tree) /\ Len(o.tree) \in Nat
    BY <2>1, RevealedFinite
  <2> QED BY <1>1, <2>1, <2>2
<1>4. /\ h \in Hidden(r, p) /\ \A m \in Hidden(r, p) : h <= m
      /\ h \in DOMAIN r.tree /\ h \in Nat /\ r.tree[h].parent = p /\ h \notin r.revealed
  <2> HIDE DEF p
  <2>1. Hidden(r, p) \in SUBSET Nat /\ Hidden(r, p) # {}
    BY <1>3 DEF Hidden, ChildrenOf, p
  <2>2. h \in Hidden(r, p) /\ \A m \in Hidden(r, p) : h <= m
    BY <2>1, MinIsLeast
  <2> HIDE DEF h
  <2> QED BY <1>3, <2>2 DEF Hidden, ChildrenOf
<1> HIDE DEF h
<1>5. /\ x.branch = IF n = Root THEN MinOf(Unopened(o.tree)) ELSE o.tree[n].branch
      /\ x.depth = IF n = Root THEN 1 ELSE o.tree[n].depth + 1
  BY ExpandedPlace
<1> HIDE DEF x
<1>6. CASE n = Root
  <2> DEFINE b == r.tree[h].branch
  <2>1. p = Root /\ r.tree[h].depth = 1
    BY <1>1, <1>3, <1>4, <1>6, ChildIsNext
  <2>2. \A y \in Node : y.branch \in 1..Branches
    BY DEF Node
  <2>3. b \in 1..Branches
    BY <1>1, <1>4, <2>2
  <2>4. b \in Unopened(o.tree)
    <3> SUFFICES ASSUME NEW m \in ChildrenOf(o.tree, Root), o.tree[m].branch = b
                 PROVE  FALSE
      BY <2>3 DEF Unopened
    <3>1. m \in DOMAIN o.tree /\ o.tree[m].depth = 1
      BY <1>3, ChildIsNext DEF ChildrenOf
    <3>2. /\ Twin(r, o, m) \in DOMAIN r.tree /\ Twin(r, o, m) \in r.revealed
          /\ Place(r.tree, Twin(r, o, m)) = Place(r.tree, h)
      BY <1>2, <2>1, <3>1 DEF Place
    <3>3. Twin(r, o, m) = h
      BY <1>3, <1>4, <3>2 DEF WellGrown
    <3> QED BY <1>4, <3>2, <3>3
  <2>5. ASSUME NEW a \in Unopened(o.tree), a < b
        PROVE  FALSE
    <3>1. a \in 1..b - 1
      BY <2>3, <2>5, SizesAssumption DEF Unopened
    <3>2. PICK m \in DOMAIN r.tree : m < h /\ Place(r.tree, m) = <<a, 1>>
      BY <1>3, <1>4, <2>1, <3>1 DEF WellGrown
    <3>3. r.tree[m].branch = a /\ r.tree[m].depth = 1 /\ m \in Nat
      BY <1>3, <3>2 DEF Place
    <3>4. m \in ChildrenOf(r.tree, Root)
      BY <1>3, <3>3, ChildIsNext DEF ChildrenOf
    <3>5. m \in r.revealed
      BY <1>4, <2>1, <3>2, <3>3, <3>4 DEF Hidden
    <3>6. PICK i \in o.revealed : m = Twin(r, o, i)
      BY <1>1, <3>5
    <3>7. i \in DOMAIN o.tree
      BY <1>1, <3>2, <3>6
    <3>8. o.tree[i].branch = a /\ o.tree[i].depth = 1
      BY <1>2, <3>3, <3>6, <3>7
    <3>9. i \in ChildrenOf(o.tree, Root)
      BY <1>3, <3>7, <3>8, ChildIsNext DEF ChildrenOf
    <3> QED BY <3>8, <3>9 DEF Unopened
  <2>6. MinOf(Unopened(o.tree)) = b
    <3>1. Unopened(o.tree) \in SUBSET Nat /\ Unopened(o.tree) # {}
      BY <2>4, SizesAssumption DEF Unopened
    <3>2. /\ MinOf(Unopened(o.tree)) \in Unopened(o.tree)
          /\ \A a \in Unopened(o.tree) : MinOf(Unopened(o.tree)) <= a
      BY <3>1, MinIsLeast
    <3> HIDE DEF b
    <3> QED BY <2>4, <2>5, <3>1, <3>2
  <2>7. CanExpand(o.tree, n)
    BY <1>6, <2>4 DEF CanExpand
  <2> QED
    BY <1>4, <1>5, <1>6, <2>1, <2>6, <2>7 DEF Place, h, x, p
<1>7. CASE n # Root
  <2>1. n \in DOMAIN o.tree
    BY <1>1, <1>7
  <2>2. /\ p \in DOMAIN r.tree /\ r.tree[p].branch = o.tree[n].branch
        /\ r.tree[p].depth = o.tree[n].depth
    BY <1>2, <2>1
  <2>3. h \in ChildrenOf(r.tree, p)
    BY <1>4 DEF ChildrenOf
  <2> HIDE DEF p
  <2>4. r.tree[h].branch = r.tree[p].branch /\ r.tree[h].depth = r.tree[p].depth + 1
    BY <1>1, <1>3, <1>4, <2>2, <2>3, ChildAtNext
  <2>5. CanExpand(o.tree, n)
    BY <1>7 DEF CanExpand
  <2> QED
    BY <1>4, <1>5, <1>7, <2>2, <2>4, <2>5 DEF Place, h, x, p
<1> QED
  BY <1>6, <1>7

\* A round adds what it looked at to the places that were revealed.
LEMMA PlacesGrow ==
  ASSUME NEW run, WellFormed(run), NEW next, WellFormed(next), Begins(run.tree, next.tree),
         NEW new, Root \notin new, next.revealed = run.revealed \cup new,
         next.rounds = Append(run.rounds, new)
  PROVE  /\ Looked(next, Len(run.rounds) + 1) = {Place(next.tree, n) : n \in new}
         /\ Places(next) = Places(run) \cup Looked(next, Len(run.rounds) + 1)
<1>1. /\ \A n \in run.revealed \ {Root} : n \in 1..Len(run.tree)
      /\ Len(run.tree) \in Nat
  BY RevealedFinite DEF WellFormed, Root
<1>2. \A n \in run.revealed \ {Root} : Place(next.tree, n) = Place(run.tree, n)
  BY <1>1 DEF Begins, Place
<1>3. next.rounds[Len(run.rounds) + 1] = new
  BY AppendProperties DEF WellFormed, RunType
<1>4. Looked(next, Len(run.rounds) + 1) = {Place(next.tree, n) : n \in new}
  BY <1>3 DEF Looked, Place
<1>5. next.revealed \ {Root} = (run.revealed \ {Root}) \cup new
  OBVIOUS
<1>6. Places(run) = {Place(next.tree, n) : n \in run.revealed \ {Root}}
  BY <1>2 DEF Places
<1>7. Places(next) = {Place(next.tree, n) : n \in (run.revealed \ {Root}) \cup new}
  BY <1>5 DEF Places
<1> QED
  BY <1>4, <1>6, <1>7

\* The candidates that a round of a replay can look at.
Findable(cfg, seen) == {c \in Selected(cfg, seen) : Hidden(seen, c.id) # {}}

\* How a round ends a run, if it does.
Verdict(run, chosen, able) ==
  IF Len(run.rounds) = MaxRounds THEN "round_limit"
  ELSE IF chosen = {} THEN "policy_stop"
  ELSE IF able = {} THEN "exhausted" ELSE "running"

\* A round of a replay shows something or is its last one.
LEMMA ShowsOrEnds ==
  ASSUME NEW cfg \in Policies, NEW run, Sound(run, cfg), Running(run)
  PROVE  LET seen == Observed(run)
             next == ReplayRound(cfg, run)
             new  == {MinOf(Hidden(run, c.id)) : c \in Findable(cfg, seen)}
             why  == Verdict(run, Selected(cfg, seen), Findable(cfg, seen))
         IN  \/ /\ why = "running" /\ next.reason \in {"running", "fully_revealed"}
                /\ WellFormed(next) /\ next.tree = run.tree
                /\ Root \notin new
                /\ next.revealed = run.revealed \cup new
                /\ next.rounds = Append(run.rounds, new)
                /\ next.last_best = seen.last_best /\ next.stalled = seen.stalled
             \/ /\ why # "running" /\ next.reason = why
                /\ next.tree = run.tree /\ next.rounds = run.rounds
<1> DEFINE seen   == Observed(run)
           chosen == Selected(cfg, seen)
           able   == Findable(cfg, seen)
           next   == ReplayRound(cfg, run)
           why    == Verdict(run, chosen, able)
<1>1. /\ WellFormed(seen) /\ seen.tree = run.tree /\ seen.revealed = run.revealed
      /\ seen.rounds = run.rounds /\ seen.reason = "running"
      /\ run \in RunType /\ seen \in RunType
  BY ObservedKeeps DEF Sound, Running, WellFormed
<1>2. next = IF why = "round_limit" THEN Ended(run, why)
             ELSE IF why # "running" THEN Ended(seen, why) ELSE Revealing(seen, able)
  <2> HIDE DEF seen
  <2>1. \A c \in chosen : c \in able <=> Hidden(seen, c.id) # {}
    BY DEF Findable
  <2>2. {c \in chosen : Hidden(seen, c.id) # {}} = able
    BY DEF Findable
  <2> HIDE DEF able, chosen
  <2>3. next = IF Len(run.rounds) = MaxRounds THEN Ended(run, "round_limit")
               ELSE IF chosen = {} THEN Ended(seen, "policy_stop")
               ELSE IF able = {} THEN Ended(seen, "exhausted")
               ELSE Revealing(seen, able)
    BY <2>2 DEF ReplayRound, Ended, seen, chosen
  <2> HIDE DEF next
  <2> QED BY <2>3 DEF Verdict
<1>3. ASSUME NEW a \in RunType, NEW w
      PROVE  /\ Ended(a, w).reason = w /\ Ended(a, w).tree = a.tree
             /\ Ended(a, w).rounds = a.rounds
  BY DEF Ended, RunType
<1>4. CASE why = "running"
  <2>1. able # {} /\ able \in SUBSET chosen /\ \A c \in able : Hidden(seen, c.id) # {}
    BY <1>4 DEF Verdict, Findable
  <2> HIDE DEF able, seen
  <2>2. IsFiniteSet(able) /\ \A c \in able : c.id \in seen.revealed /\ Hidden(seen, c.id) # {}
    BY <1>1, <2>1, SelectedBound
  <2>3. InOrder(seen)
    BY <1>1 DEF Sound, InOrder
  <2> DEFINE new == {MinOf(Hidden(seen, c.id)) : c \in able}
  <2>4. /\ WellFormed(Revealing(seen, able))
        /\ Revealing(seen, able).tree = seen.tree
        /\ new \in SUBSET (Nat \ {Root})
        /\ Revealing(seen, able).revealed = seen.revealed \cup new
        /\ Revealing(seen, able).rounds = Append(seen.rounds, new)
        /\ Revealing(seen, able).reason \in {seen.reason, "fully_revealed"}
    BY <1>1, <2>1, <2>2, <2>3, RevealingKeeps
  <2>5. /\ Revealing(seen, able).last_best = seen.last_best
        /\ Revealing(seen, able).stalled = seen.stalled
    <3> DEFINE more == Append(seen.rounds, new)
               all  == seen.revealed \cup new
               b    == [seen EXCEPT !.revealed = all, !.rounds = more]
    <3>1. /\ b.last_best = seen.last_best /\ b.stalled = seen.stalled
          /\ [b EXCEPT !.reason = "fully_revealed"].last_best = seen.last_best
          /\ [b EXCEPT !.reason = "fully_revealed"].stalled = seen.stalled
      <4> HIDE DEF all, more
      <4> QED BY <1>1 DEF RunType
    <3>2. Revealing(seen, able) \in {b, [b EXCEPT !.reason = "fully_revealed"]}
      BY DEF Revealing
    <3> HIDE DEF b
    <3> QED BY <3>1, <3>2
  <2>6. new = {MinOf(Hidden(run, c.id)) : c \in able}
    BY <1>1 DEF Hidden
  <2>7. next = Revealing(seen, able)
    BY <1>2, <1>4
  <2> HIDE DEF next, new, why
  <2> QED BY <1>1, <1>4, <2>4, <2>5, <2>6, <2>7 DEF next, able, seen, why
<1>5. CASE why # "running"
  <2>1. next \in {Ended(run, why), Ended(seen, why)}
    BY <1>2, <1>5
  <2> HIDE DEF next, why, seen
  <2>2. next.reason = why /\ next.tree = run.tree /\ next.rounds = run.rounds
    BY <1>1, <1>3, <2>1
  <2> QED BY <1>5, <2>2 DEF next, why, seen
<1> QED
  BY <1>4, <1>5

\* So is a round of an online run.
LEMMA OnlineVerdict ==
  ASSUME NEW cfg \in Policies, NEW t \in 1..Branches, NEW run,
         Sound(run, cfg), Full(run), Running(run)
  PROVE  LET seen == Observed(run)
         IN  RolloutRound(cfg, t, run).reason = Verdict(run, Selected(cfg, seen), Able(cfg, seen))
<1> DEFINE seen   == Observed(run)
           chosen == Selected(cfg, seen)
           able   == Able(cfg, seen)
           next   == RolloutRound(cfg, t, run)
           why    == Verdict(run, chosen, able)
<1>1. /\ WellFormed(seen) /\ seen.tree = run.tree /\ seen.revealed = run.revealed
      /\ seen.rounds = run.rounds /\ seen.reason = "running"
      /\ run \in RunType /\ seen \in RunType
  BY ObservedKeeps DEF Sound, Running, WellFormed
<1>2. next = IF why = "round_limit" THEN Ended(run, why)
             ELSE IF why # "running" THEN Ended(seen, why) ELSE Grown(t, seen, able)
  <2> HIDE DEF seen
  <2>2. {c \in chosen : CanExpand(seen.tree, c.id)} = able
    BY DEF Able
  <2> HIDE DEF able, chosen
  <2>3. next = IF Len(run.rounds) = MaxRounds THEN Ended(run, "round_limit")
               ELSE IF chosen = {} THEN Ended(seen, "policy_stop")
               ELSE IF able = {} THEN Ended(seen, "exhausted")
               ELSE Grown(t, seen, able)
    BY <2>2 DEF RolloutRound, Ended, seen, chosen
  <2> HIDE DEF next
  <2> QED BY <2>3 DEF Verdict
<1>3. ASSUME NEW a \in RunType, NEW w
      PROVE  Ended(a, w).reason = w
  BY DEF Ended, RunType
<1>4. Grown(t, seen, able).reason = seen.reason
  <2> HIDE DEF seen, able
  <2> QED BY <1>1 DEF Grown, RunType
<1> HIDE DEF next, why, seen, able
<1> QED
  BY <1>1, <1>2, <1>3, <1>4 DEF next, why, seen, able

\* Every round of an online run keeps it a tree of the incident.
LEMMA StaysWellGrown ==
  ASSUME NEW cfg \in Policies, NEW t \in 1..Branches, NEW run,
         Sound(run, cfg), Full(run), Running(run), WellGrown(run.tree, t)
  PROVE  WellGrown(RolloutRound(cfg, t, run).tree, t) /\ OneBranchEach(run.tree)
<1> DEFINE seen == Observed(run)
           able == Able(cfg, seen)
           next == RolloutRound(cfg, t, run)
<1>1. OneBranchEach(run.tree)
  <2>1. DOMAIN run.tree \in SUBSET (Nat \ {Root})
    <3>1. DOMAIN run.tree = 1..Len(run.tree) /\ Len(run.tree) \in Nat
      BY RevealedFinite DEF Sound
    <3> QED BY <3>1 DEF Root
  <2>2. \A m \in ChildrenOf(run.tree, Root) : m \in DOMAIN run.tree /\ run.tree[m].depth = 1
    BY <2>1, ChildIsNext DEF ChildrenOf
  <2>3. \A m, n \in ChildrenOf(run.tree, Root) :
          run.tree[m].branch = run.tree[n].branch => Place(run.tree, m) = Place(run.tree, n)
    BY <2>2 DEF Place
  <2> QED BY <2>2, <2>3 DEF OneBranchEach, WellGrown
<1>2. \/ able # {} /\ next = Grown(t, seen, able)
      \/ next.tree = run.tree
  BY <1>1, GrowsOrEnds
<1>3. WellFormed(seen) /\ Full(seen) /\ WellGrown(seen.tree, t)
  BY ObservedKeeps DEF Sound, Full
<1>4. able # {} => WellGrown(Grown(t, seen, able).tree, t)
  <2> HIDE DEF seen
  <2> QED BY <1>3, GrowsWell
<1> HIDE DEF next, able, seen
<1>5. WellGrown(next.tree, t)
  BY <1>2, <1>4
<1> QED
  BY <1>1, <1>5 DEF next

\* If the replay shows something, the online run grows at least that; if it is
\* the same, they stay kin.  If it ends, the online run ends for the same
\* reason, unless nothing more was recorded.
LEMMA KinRound ==
  ASSUME NEW cfg \in Policies, TellsApart(cfg), NEW t \in 1..Branches,
         NEW r, Sound(r, cfg), Running(r),
         NEW o, Sound(o, cfg), Full(o), Running(o), Kin(r, o, t)
  PROVE  LET x == ReplayRound(cfg, r)
             y == RolloutRound(cfg, t, o)
             k == Len(r.rounds) + 1
         IN  /\ x.tree = r.tree
             /\ \/ /\ Len(x.rounds) = k /\ x.reason \in {"running", "fully_revealed"}
                   /\ Running(y) /\ Len(y.rounds) = k
                   /\ Looked(x, k) \subseteq Looked(y, k)
                   /\ Looked(x, k) = Looked(y, k) => Kin(x, y, t)
                \/ /\ x.rounds = r.rounds
                   /\ x.reason = "exhausted" \/ (~Running(y) /\ y.reason = x.reason)
<1> DEFINE x == ReplayRound(cfg, r)
           y == RolloutRound(cfg, t, o)
           mine == Observed(r)
           seen == Observed(o)
           shown == Findable(cfg, mine)
           able == Able(cfg, seen)
           whyR == Verdict(r, Selected(cfg, mine), shown)
           whyO == Verdict(o, Selected(cfg, seen), able)
           newR == {MinOf(Hidden(r, c.id)) : c \in shown}
           newO == Len(o.tree) + 1 .. Len(o.tree) + Cardinality(able)
<1>1. Kin(mine, seen, t)
  BY KinObserved
<1>2. /\ mine.tree = r.tree /\ mine.revealed = r.revealed
      /\ seen.tree = o.tree /\ seen.revealed = o.revealed
      /\ Len(r.rounds) = Len(o.rounds) /\ Len(r.rounds) \in Nat
      /\ WellFormed(r) /\ WellFormed(o)
      /\ WellFormed(mine) /\ WellFormed(seen) /\ Full(seen)
  BY <1>1, ObservedKeeps, RevealedFinite DEF Kin
<1>3. WellGrown(y.tree, t) /\ OneBranchEach(o.tree)
  BY StaysWellGrown DEF Kin
<1>4. y.reason = whyO
  BY OnlineVerdict
<1>5. Sound(y, cfg) /\ Full(y)
  <2>1. o.reason \in Reasons
    BY DEF Running, Reasons
  <2> QED BY <2>1, RolloutKeeps
<1>6. \/ /\ whyR = "running" /\ x.reason \in {"running", "fully_revealed"}
         /\ WellFormed(x) /\ x.tree = r.tree /\ Root \notin newR
         /\ x.revealed = r.revealed \cup newR /\ x.rounds = Append(r.rounds, newR)
         /\ x.last_best = mine.last_best /\ x.stalled = mine.stalled
      \/ /\ whyR # "running" /\ x.reason = whyR
         /\ x.tree = r.tree /\ x.rounds = r.rounds
  BY ShowsOrEnds
<1>7. \/ /\ Running(y) /\ able # {}
         /\ y = Grown(t, seen, able)
         /\ Begins(o.tree, y.tree)
         /\ y.rounds = Append(o.rounds, newO) /\ y.revealed = o.revealed \cup newO
         /\ y.last_best = seen.last_best /\ y.stalled = seen.stalled
      \/ ~Running(y)
  BY <1>3, GrowsOrEnds
<1>8. /\ \A e \in Selected(cfg, seen) : \E c \in Selected(cfg, mine) : c.id = Twin(mine, seen, e.id)
      /\ \A c \in Selected(cfg, mine) : \E e \in Selected(cfg, seen) : c.id = Twin(mine, seen, e.id)
  <2> HIDE DEF mine, seen
  <2> QED BY <1>1, KinSelect
<1>9. \A e \in Selected(cfg, seen) :
        e.id \in seen.revealed /\ (e.id # Root => seen.tree[e.id].depth < MaxDepth)
  <2> HIDE DEF seen
  <2> DEFINE all == Selected(cfg, seen)
  <2>1. all \in SUBSET Selected(cfg, seen)
    OBVIOUS
  <2> HIDE DEF all
  <2>2. \A c \in all : c.id \in seen.revealed /\ (c.id # Root => seen.tree[c.id].depth < MaxDepth)
    BY <1>2, <2>1, SelectedBound
  <2> QED BY <2>2 DEF all
<1>10. ASSUME NEW c \in shown
       PROVE  \E e \in able :
                Place(r.tree, MinOf(Hidden(r, c.id)))
                  = <<Expanded(t, seen.tree, e.id).branch, Expanded(t, seen.tree, e.id).depth>>
  <2> HIDE DEF mine, seen
  <2>1. c \in Selected(cfg, mine) /\ Hidden(mine, c.id) # {}
    BY DEF Findable
  <2>2. PICK e \in Selected(cfg, seen) : c.id = Twin(mine, seen, e.id)
    BY <1>8, <2>1
  <2> DEFINE h == MinOf(Hidden(mine, Twin(mine, seen, e.id)))
             z == Expanded(t, seen.tree, e.id)
  <2>3. CanExpand(seen.tree, e.id) /\ Place(mine.tree, h) = <<z.branch, z.depth>>
    BY <1>1, <1>9, <2>1, <2>2, KinShows
  <2>4. e \in able
    BY <2>3 DEF Able
  <2>5. h = MinOf(Hidden(r, c.id))
    BY <1>2, <2>2 DEF Hidden
  <2> HIDE DEF h, z, able
  <2>6. Place(r.tree, MinOf(Hidden(r, c.id))) = <<z.branch, z.depth>>
    BY <1>2, <2>3, <2>5
  <2> QED BY <2>4, <2>6 DEF z
<1>11. /\ Selected(cfg, mine) = {} <=> Selected(cfg, seen) = {}
       /\ shown # {} => able # {}
  <2> HIDE DEF mine, seen, able, shown
  <2> QED BY <1>8, <1>10
<1> HIDE DEF x, y, mine, seen, shown, able
<1>12. CASE whyR = "running"
  <2>1. whyO = "running"
    BY <1>2, <1>11, <1>12 DEF Verdict
  <2>2. /\ Running(y) /\ able # {} /\ y = Grown(t, seen, able)
        /\ Begins(o.tree, y.tree)
        /\ y.rounds = Append(o.rounds, newO) /\ y.revealed = o.revealed \cup newO
        /\ y.last_best = seen.last_best /\ y.stalled = seen.stalled
    BY <1>4, <1>7, <2>1 DEF Running
  <2>3. /\ x.reason \in {"running", "fully_revealed"}
        /\ WellFormed(x) /\ x.tree = r.tree /\ Root \notin newR
        /\ x.revealed = r.revealed \cup newR /\ x.rounds = Append(r.rounds, newR)
        /\ x.last_best = mine.last_best /\ x.stalled = mine.stalled
    BY <1>6, <1>12
  <2>4. Begins(r.tree, x.tree)
    BY <1>2, <2>3, RevealedFinite DEF Begins
  <2>5. Root \notin newO
    BY <1>2, RevealedFinite DEF Root
  <2> DEFINE k == Len(r.rounds) + 1
  <2>6. /\ Looked(x, k) = {Place(x.tree, n) : n \in newR}
        /\ Places(x) = Places(r) \cup Looked(x, k)
    <3> HIDE DEF newR
    <3> QED BY <1>2, <2>3, <2>4, PlacesGrow
  <2>7. /\ Looked(y, k) = {Place(y.tree, n) : n \in newO}
        /\ Places(y) = Places(o) \cup Looked(y, k)
    <3> HIDE DEF newO
    <3>1. WellFormed(y)
      BY <1>5 DEF Sound
    <3>2. /\ Looked(y, Len(o.rounds) + 1) = {Place(y.tree, n) : n \in newO}
          /\ Places(y) = Places(o) \cup Looked(y, Len(o.rounds) + 1)
      <4>1. /\ WellFormed(o) /\ Begins(o.tree, y.tree)
            /\ y.rounds = Append(o.rounds, newO) /\ y.revealed = o.revealed \cup newO
        BY <1>2, <2>2
      <4> QED BY ONLY <2>5, <3>1, <4>1, PlacesGrow
    <3> QED BY <1>2, <3>2
  <2>8. /\ Len(x.rounds) = k /\ Len(y.rounds) = k
    <3>1. \A s \in Seq(SUBSET Nat) : \A e \in SUBSET Nat : Len(Append(s, e)) = Len(s) + 1
      BY AppendProperties
    <3>2. r.rounds \in Seq(SUBSET Nat) /\ o.rounds \in Seq(SUBSET Nat)
      BY <1>2 DEF WellFormed, RunType
    <3>3. newR \in SUBSET Nat /\ newO \in SUBSET Nat
      <4>1. x.revealed \in SUBSET Nat /\ y.revealed \in SUBSET Nat
        BY <1>5, <2>3 DEF WellFormed, RunType, Sound
      <4> HIDE DEF newR, newO
      <4> QED BY <2>2, <2>3, <4>1
    <3> HIDE DEF newR, newO
    <3> QED BY <1>2, <2>2, <2>3, <3>1, <3>2, <3>3
  <2>9. Looked(x, k) \subseteq Looked(y, k)
    <3>1. ASSUME NEW c \in shown
          PROVE  \E n \in newO : Place(r.tree, MinOf(Hidden(r, c.id))) = Place(y.tree, n)
      <4>1. PICK e \in able :
              Place(r.tree, MinOf(Hidden(r, c.id)))
                = <<Expanded(t, seen.tree, e.id).branch, Expanded(t, seen.tree, e.id).depth>>
        BY <1>10
      <4> DEFINE n == Len(seen.tree) + 1 + Rank(able, e)
                 grown == Grown(t, seen, able)
      <4>2. /\ n \in DOMAIN grown.tree /\ n > Len(seen.tree)
            /\ grown.tree[n] = Expanded(t, seen.tree, e.id)
            /\ DOMAIN grown.tree = 1..Len(seen.tree) + Cardinality(able)
            /\ Cardinality(able) \in Nat
        <5> DEFINE ready == Able(cfg, seen)
                   next == Grown(t, seen, ready)
                   At(c2) == Len(seen.tree) + 1 + Rank(ready, c2)
        <5>1. ready # {}
          BY <2>2 DEF able
        <5>2. /\ DOMAIN next.tree = 1..Len(seen.tree) + Cardinality(ready)
              /\ Cardinality(ready) \in Nat
              /\ \A c2 \in ready : /\ At(c2) \in DOMAIN next.tree /\ At(c2) > Len(seen.tree)
                                   /\ next.tree[At(c2)] = Expanded(t, seen.tree, c2.id)
          BY <1>2, <5>1, NewNode
        <5>3. ready = able
          BY DEF able
        <5> HIDE DEF ready
        <5> QED BY <5>2, <5>3
      <4> HIDE DEF n
      <4>3. n \in newO /\ y.tree[n] = Expanded(t, seen.tree, e.id)
        <5>1. Len(o.tree) \in Nat
          BY <1>2, RevealedFinite
        <5> QED BY <1>2, <2>2, <4>2, <5>1
      <4> QED BY <4>1, <4>3 DEF Place
    <3>2. \A n \in newR : Place(x.tree, n) \in Looked(y, k)
      <4> TAKE n \in newR
      <4>1. PICK c \in shown : n = MinOf(Hidden(r, c.id))
        OBVIOUS
      <4> HIDE DEF newR
      <4>2. Place(x.tree, n) = Place(r.tree, MinOf(Hidden(r, c.id)))
        BY <2>3, <4>1
      <4> QED BY <2>7, <3>1, <4>2
    <3> HIDE DEF newR, newO
    <3> QED BY <2>6, <3>2
  <2>10. ASSUME Looked(x, k) = Looked(y, k)
         PROVE  Kin(x, y, t)
    <3>1. Places(x) = Places(y)
      BY <2>6, <2>7, <2>10 DEF Kin
    <3>2. WellGrown(x.tree, t)
      BY <2>3 DEF Kin
    <3>3. x.last_best = y.last_best /\ x.stalled = y.stalled
      BY <1>1, <2>2, <2>3 DEF Kin
    <3> QED BY <1>3, <1>5, <2>3, <2>8, <3>1, <3>2, <3>3 DEF Kin, Sound
  <2> QED BY <2>2, <2>3, <2>8, <2>9, <2>10 DEF x, y
<1>13. CASE whyR # "running"
  <2>1. x.reason = whyR /\ x.tree = r.tree /\ x.rounds = r.rounds
    BY <1>6, <1>13
  <2>2. whyR = "exhausted" \/ (whyO = whyR)
    BY <1>2, <1>11, <1>13 DEF Verdict
  <2>3. whyR = "exhausted" \/ (~Running(y) /\ y.reason = whyR)
    BY <1>4, <1>13, <2>2 DEF Running
  <2> HIDE DEF whyR
  <2> QED BY <2>1, <2>3 DEF x, y
<1> QED
  BY <1>12, <1>13

-----------------------------------------------------------------------------
(* The replay, retraced round by round, beside the online run.             *)

\* h[k] is the replay `run' of `tree' as it was after k rounds.
Retraces(cfg, tree, run, h) ==
  /\ h[0] = StartRun(tree)
  /\ \A k \in 0..Len(run.rounds) :
       /\ Sound(h[k], cfg) /\ h[k].tree = run.tree
       /\ Len(h[k].rounds) = k /\ Begins(h[k].rounds, run.rounds)
  /\ \A k \in 0..Len(run.rounds) - 1 : Running(h[k]) /\ h[k + 1] = ReplayRound(cfg, h[k])
  /\ \/ run = h[Len(run.rounds)]
     \/ /\ Running(h[Len(run.rounds)]) /\ ~Running(run)
        /\ run = ReplayRound(cfg, h[Len(run.rounds)])

\* Two runs looked at the same in their first k rounds.
Agree(a, b, k) == \A j \in 1..k : Looked(a, j) = Looked(b, j)

\* The online run o beside the replay r: as long as they agree, what the replay
\* looked at is a part of what the online run did and the runs are kin, and if
\* one of them ends the other does, for the same reason, or the tree had ended.
Honest(r, o, h, t) ==
  LET n == Len(r.rounds)
      k == Len(o.rounds)
      cut == r.reason \in {"exhausted", "fully_revealed"}
  IN  /\ \A i \in 1..k : i <= n /\ Agree(r, o, i - 1) => Looked(r, i) \subseteq Looked(o, i)
      /\ k <= n /\ Agree(r, o, k) =>
           IF Running(o) THEN Kin(h[k], o, t) ELSE k = n /\ (cut \/ o.reason = r.reason)
      /\ k > n /\ Agree(r, o, n) => cut

\* Its round after the first k.
Retraced(cfg, r, h, k) ==
  /\ h[k + 1] = ReplayRound(cfg, h[k]) /\ Running(h[k])
  /\ Sound(h[k], cfg) /\ Len(h[k].rounds) = k /\ Len(h[k + 1].rounds) = k + 1
  /\ Looked(h[k + 1], k + 1) = Looked(r, k + 1)

LEMMA RetracedRound ==
  ASSUME NEW cfg \in Policies, NEW tree, NEW r, Sound(r, cfg), NEW h, Retraces(cfg, tree, r, h),
         NEW k \in 0..Len(r.rounds) - 1
  PROVE  Retraced(cfg, r, h, k)
<1>1. Len(r.rounds) \in Nat
  BY RevealedFinite DEF Sound
<1>2. k \in 0..Len(r.rounds) /\ k + 1 \in 0..Len(r.rounds) /\ k + 1 \in 1..k + 1
  BY <1>1
<1>3. /\ h[k + 1] = ReplayRound(cfg, h[k]) /\ Running(h[k])
      /\ Sound(h[k], cfg) /\ Len(h[k].rounds) = k /\ Len(h[k + 1].rounds) = k + 1
      /\ h[k + 1].tree = r.tree /\ Begins(h[k + 1].rounds, r.rounds)
  BY <1>2 DEF Retraces
<1>4. h[k + 1].rounds[k + 1] = r.rounds[k + 1]
  BY <1>2, <1>3 DEF Begins
<1> QED
  BY <1>3, <1>4 DEF Looked, Retraced

\* A replay that has ended without another round has shown everything.
LEMMA EndedByShowing ==
  ASSUME NEW cfg \in Policies, NEW tree, NEW r, Sound(r, cfg), NEW h, Retraces(cfg, tree, r, h),
         ~Running(r), r = h[Len(r.rounds)]
  PROVE  r.reason = "fully_revealed"
<1> DEFINE n == Len(r.rounds)
<1>1. n \in Nat
  BY RevealedFinite DEF Sound
<1>2. n # 0
  <2> SUFFICES ASSUME n = 0 PROVE FALSE
    OBVIOUS
  <2>1. r = StartRun(tree)
    BY DEF Retraces
  <2> QED BY <2>1 DEF StartRun, Running
<1> DEFINE k == n - 1
<1>3. k \in 0..n - 1 /\ k + 1 = n
  BY <1>1, <1>2
<1> HIDE DEF k
<1>4. /\ h[k + 1] = ReplayRound(cfg, h[k]) /\ Running(h[k])
      /\ Sound(h[k], cfg) /\ Len(h[k].rounds) = k /\ Len(h[k + 1].rounds) = k + 1
  <2>1. Retraced(cfg, r, h, k)
    BY <1>3, RetracedRound
  <2> QED BY <2>1 DEF Retraced
<1>5. \/ ReplayRound(cfg, h[k]).reason \in {"running", "fully_revealed"}
      \/ ReplayRound(cfg, h[k]).rounds = h[k].rounds
  BY <1>4, ShowsOrEnds
<1>6. r.reason \in {"running", "fully_revealed"}
  BY <1>1, <1>3, <1>4, <1>5
<1> QED
  BY <1>6 DEF Running

\* A round of an online run adds one to those before, or none.
LEMMA EarlierRounds ==
  ASSUME NEW cfg \in Policies, NEW t \in 1..Branches, NEW o,
         Sound(o, cfg), Full(o), Running(o), OneBranchEach(o.tree)
  PROVE  LET y == RolloutRound(cfg, t, o)
             k == Len(o.rounds)
         IN  \/ /\ Running(y) /\ Len(y.rounds) = k + 1
                /\ \A i \in 1..k : Looked(y, i) = Looked(o, i)
             \/ ~Running(y) /\ y.tree = o.tree /\ y.rounds = o.rounds
<1> DEFINE y == RolloutRound(cfg, t, o)
           k == Len(o.rounds)
           new == Len(o.tree) + 1 .. Len(o.tree) + Cardinality(Able(cfg, Observed(o)))
<1>1. /\ k \in Nat /\ o.rounds \in Seq(SUBSET Nat)
      /\ DOMAIN o.tree = 1..Len(o.tree) /\ Len(o.tree) \in Nat
  BY RevealedFinite DEF Sound, WellFormed, RunType
<1>2. new \in SUBSET Nat
  BY <1>1
<1>3. \/ /\ Running(y) /\ Begins(o.tree, y.tree)
         /\ y.rounds = Append(o.rounds, new)
      \/ ~Running(y) /\ y.tree = o.tree /\ y.rounds = o.rounds
  BY GrowsOrEnds
<1> HIDE DEF new, y
<1>4. ASSUME Begins(o.tree, y.tree), y.rounds = Append(o.rounds, new)
      PROVE  Len(y.rounds) = k + 1 /\ \A i \in 1..k : Looked(y, i) = Looked(o, i)
  <2>1. ASSUME NEW i \in 1..k
        PROVE  Looked(y, i) = Looked(o, i)
    <3>1. y.rounds[i] = o.rounds[i]
      BY <1>1, <1>2, <1>4, AppendProperties
    <3>2. o.rounds[i] \subseteq 1..Len(o.tree)
      <4>1. o.rounds[i] \subseteq o.revealed \ {Root}
        BY DEF Sound, Partitioned
      <4>2. o.revealed \ {Root} \subseteq 1..Len(o.tree)
        BY <1>1 DEF Full, Root
      <4> QED BY <4>1, <4>2
    <3>3. \A m \in o.rounds[i] : y.tree[m] = o.tree[m]
      BY <1>4, <3>2 DEF Begins
    <3> QED BY <3>1, <3>3 DEF Looked
  <2> QED BY <1>1, <1>2, <1>4, <2>1, AppendProperties
<1> QED
  BY <1>3, <1>4 DEF y

\* The invariant is kept by the rounds of the online run.
LEMMA ExploreHonest ==
  ASSUME NEW cfg \in Policies, TellsApart(cfg), NEW t \in 1..Branches, NEW tree,
         NEW r, Sound(r, cfg), ~Running(r), NEW h, Retraces(cfg, tree, r, h),
         NEW o, Sound(o, cfg), Full(o), Running(o), WellGrown(o.tree, t), Honest(r, o, h, t)
  PROVE  Honest(r, RolloutRound(cfg, t, o), h, t)
<1> DEFINE n == Len(r.rounds)
           k == Len(o.rounds)
           y == RolloutRound(cfg, t, o)
           cut == r.reason \in {"exhausted", "fully_revealed"}
<1>1. n \in Nat /\ k \in Nat
  BY RevealedFinite DEF Sound
<1>2. OneBranchEach(o.tree)
  BY StaysWellGrown
<1>3. /\ \A i \in 1..k : i <= n /\ Agree(r, o, i - 1) => Looked(r, i) \subseteq Looked(o, i)
      /\ k <= n /\ Agree(r, o, k) => Kin(h[k], o, t)
      /\ k > n /\ Agree(r, o, n) => cut
  BY DEF Honest
\* What a replay of k rounds that could go on, and the online run, do next.
<1>4. ASSUME k <= n, Agree(r, o, k)
      PROVE  \/ /\ k < n
                /\ Running(y) /\ Len(y.rounds) = k + 1
                /\ Looked(r, k + 1) \subseteq Looked(y, k + 1)
                /\ Looked(r, k + 1) = Looked(y, k + 1) => Kin(h[k + 1], y, t)
             \/ k = n /\ (cut \/ (~Running(y) /\ y.reason = r.reason))
  <2>1. Kin(h[k], o, t)
    BY <1>3, <1>4
  <2>2. CASE k < n
    <3>1. k \in 0..n - 1
      BY <1>1, <2>2
    <3>2. /\ h[k + 1] = ReplayRound(cfg, h[k]) /\ Running(h[k])
          /\ Sound(h[k], cfg) /\ Len(h[k].rounds) = k /\ Len(h[k + 1].rounds) = k + 1
          /\ Looked(h[k + 1], k + 1) = Looked(r, k + 1)
      <4>1. Retraced(cfg, r, h, k)
        BY <3>1, RetracedRound
      <4> QED BY <4>1 DEF Retraced
    <3> DEFINE x == ReplayRound(cfg, h[k])
    <3>3. \/ /\ Len(x.rounds) = k + 1
             /\ Running(y) /\ Len(y.rounds) = k + 1
             /\ Looked(x, k + 1) \subseteq Looked(y, k + 1)
             /\ Looked(x, k + 1) = Looked(y, k + 1) => Kin(x, y, t)
          \/ x.rounds = h[k].rounds
      BY <2>1, <3>2, KinRound
    <3> HIDE DEF x, y
    <3>4. x = h[k + 1] /\ x.rounds # h[k].rounds
      <4>1. x = h[k + 1]
        BY <3>2 DEF x
      <4> QED BY <1>1, <3>2, <4>1
    <3> QED BY <2>2, <3>2, <3>3, <3>4
  <2>3. CASE k = n /\ r = h[n]
    BY <2>3, EndedByShowing
  <2>4. CASE k = n /\ r # h[n]
    <3>1. Running(h[k]) /\ r = ReplayRound(cfg, h[k]) /\ Sound(h[k], cfg) /\ Len(h[k].rounds) = k
      BY <1>1, <2>4 DEF Retraces
    <3>2. \/ Len(r.rounds) = k + 1
          \/ r.reason = "exhausted" \/ (~Running(y) /\ y.reason = r.reason)
      BY <2>1, <3>1, KinRound
    <3> HIDE DEF y
    <3> QED BY <1>1, <2>4, <3>2
  <2> QED BY <1>1, <1>4, <2>2, <2>3, <2>4
<1>5. \/ /\ Running(y) /\ Len(y.rounds) = k + 1
         /\ \A i \in 1..k : Looked(y, i) = Looked(o, i)
      \/ ~Running(y) /\ y.tree = o.tree /\ y.rounds = o.rounds
  BY <1>2, EarlierRounds
<1> HIDE DEF y, cut
<1>6. CASE /\ Running(y) /\ Len(y.rounds) = k + 1
           /\ \A i \in 1..k : Looked(y, i) = Looked(o, i)
  <2>1. \A j \in 0..k : Agree(r, y, j) <=> Agree(r, o, j)
    BY <1>1, <1>6 DEF Agree
  <2>2. ASSUME NEW i \in 1..k + 1, i <= n, Agree(r, y, i - 1)
        PROVE  Looked(r, i) \subseteq Looked(y, i)
    <3>1. i - 1 \in 0..k
      BY <1>1
    <3>2. Agree(r, o, i - 1)
      BY <2>1, <2>2, <3>1
    <3>3. CASE i \in 1..k
      BY <1>3, <1>6, <2>2, <3>2, <3>3
    <3>4. CASE i = k + 1
      <4>1. k <= n /\ k # n /\ i - 1 = k
        BY <1>1, <2>2, <3>4
      <4> QED BY <1>4, <3>2, <3>4, <4>1
    <3> QED BY <1>1, <3>3, <3>4
  <2>3. ASSUME k + 1 <= n, Agree(r, y, k + 1)
        PROVE  Kin(h[k + 1], y, t)
    <3>1. Agree(r, y, k) /\ Looked(r, k + 1) = Looked(y, k + 1)
      BY <1>1, <2>3 DEF Agree
    <3>2. Agree(r, o, k) /\ k <= n /\ k # n
      BY <1>1, <2>1, <2>3, <3>1
    <3> QED BY <1>4, <3>1, <3>2
  <2>4. ASSUME k + 1 > n, Agree(r, y, n)
        PROVE  cut
    <3>1. Agree(r, o, n) /\ n <= k
      BY <1>1, <2>1, <2>4
    <3>2. CASE n < k
      BY <1>1, <1>3, <3>1, <3>2
    <3>3. CASE n = k
      BY <1>1, <1>4, <1>6, <3>1, <3>3
    <3> QED BY <1>1, <3>1, <3>2, <3>3
  <2>5. Honest(r, y, h, t)
    BY <1>6, <2>2, <2>3, <2>4 DEF Honest, cut
  <2> QED BY <2>5 DEF y
<1>7. CASE ~Running(y) /\ y.tree = o.tree /\ y.rounds = o.rounds
  <2>1. /\ \A i : Looked(y, i) = Looked(o, i)
        /\ \A j : Agree(r, y, j) <=> Agree(r, o, j)
    BY <1>7 DEF Looked, Agree
  <2>2. ASSUME k <= n, Agree(r, o, k)
        PROVE  k = n /\ (cut \/ y.reason = r.reason)
    BY <1>4, <1>7, <2>2
  <2>3. Honest(r, y, h, t)
    BY <1>3, <1>7, <2>1, <2>2 DEF Honest, cut
  <2> QED BY <2>3 DEF y
<1> QED
  BY <1>5, <1>6, <1>7

\* Each round of the replay can be retraced.
LEMMA RetraceGoesOn ==
  ASSUME NEW cfg \in Policies, NEW tree, NEW r, Sound(r, cfg), Running(r),
         r.reason \in Reasons, NEW h, Retraces(cfg, tree, r, h)
  PROVE  \E g : g[0] = h[0] /\ Retraces(cfg, tree, ReplayRound(cfg, r), g)
<1> DEFINE n == Len(r.rounds)
           x == ReplayRound(cfg, r)
           new == {MinOf(Hidden(r, c.id)) : c \in Findable(cfg, Observed(r))}
<1>1. n \in Nat /\ r.rounds \in Seq(SUBSET Nat) /\ Sound(x, cfg)
  BY RevealedFinite, ReplayKeeps DEF Sound, WellFormed, RunType
<1>2. r = h[n] /\ r.tree = tree
  <2>1. r = h[n]
    BY DEF Retraces
  <2>2. h[0].tree = r.tree
    BY <1>1 DEF Retraces
  <2>3. h[0].tree = tree
    BY DEF Retraces, StartRun
  <2> QED BY <2>1, <2>2, <2>3
<1>3. \/ /\ WellFormed(x) /\ x.tree = r.tree
         /\ x.rounds = Append(r.rounds, new) /\ x.revealed = r.revealed \cup new
      \/ x.reason # "running" /\ x.tree = r.tree /\ x.rounds = r.rounds
  BY ShowsOrEnds
<1> HIDE DEF x, new
<1>4. CASE x.reason # "running" /\ x.tree = r.tree /\ x.rounds = r.rounds
  <2>1. Retraces(cfg, tree, x, h)
    BY <1>2, <1>4 DEF Retraces, Running, x
  <2> QED BY <2>1 DEF x
<1>5. CASE /\ WellFormed(x) /\ x.tree = r.tree
           /\ x.rounds = Append(r.rounds, new) /\ x.revealed = r.revealed \cup new
  <2> DEFINE g == [k \in 0..n + 1 |-> IF k = n + 1 THEN x ELSE h[k]]
  <2>1. /\ Len(x.rounds) = n + 1 /\ Begins(r.rounds, x.rounds)
    <3>1. new \in SUBSET Nat
      BY <1>5 DEF WellFormed, RunType
    <3>2. /\ Len(x.rounds) = n + 1
          /\ \A i \in 1..n : x.rounds[i] = r.rounds[i]
      BY <1>1, <1>5, <3>1, AppendProperties
    <3> QED
      BY <1>1, <3>2 DEF Begins
  <2>2. /\ g[n + 1] = x
        /\ \A k \in 0..n : g[k] = h[k]
    BY <1>1
  <2> HIDE DEF g
  <2>3. \A k \in 0..n + 1 :
          /\ Sound(g[k], cfg) /\ g[k].tree = x.tree
          /\ Len(g[k].rounds) = k /\ Begins(g[k].rounds, x.rounds)
    <3> TAKE k \in 0..n + 1
    <3>1. CASE k = n + 1
      <4>1. Begins(x.rounds, x.rounds)
        BY <1>1, <2>1 DEF Begins
      <4> QED BY <1>1, <2>1, <2>2, <3>1, <4>1
    <3>2. CASE k \in 0..n
      <4>1. /\ Sound(h[k], cfg) /\ h[k].tree = r.tree
            /\ Len(h[k].rounds) = k /\ Begins(h[k].rounds, r.rounds)
        BY <3>2 DEF Retraces
      <4>2. Begins(h[k].rounds, x.rounds)
        BY <1>1, <2>1, <3>2, <4>1 DEF Begins
      <4> QED BY <1>5, <2>2, <3>2, <4>1, <4>2
    <3> QED BY <1>1, <3>1, <3>2
  <2>4. \A k \in 0..n : Running(g[k]) /\ g[k + 1] = ReplayRound(cfg, g[k])
    <3> TAKE k \in 0..n
    <3>1. CASE k = n
      BY <1>1, <1>2, <2>2, <3>1 DEF x
    <3>2. CASE k \in 0..n - 1
      <4>1. k \in 0..n /\ k + 1 \in 0..n
        BY <1>1, <3>2
      <4> QED
        BY <2>2, <3>2, <4>1 DEF Retraces
    <3> QED BY <1>1, <3>1, <3>2
  <2>5. g[0] = h[0] /\ h[0] = StartRun(tree)
    BY <1>1, <2>2 DEF Retraces
  <2>6. n + 1 - 1 = n
    BY <1>1
  <2>7. Retraces(cfg, tree, x, g)
    BY <2>1, <2>2, <2>3, <2>4, <2>5, <2>6 DEF Retraces
  <2> QED BY <2>5, <2>7 DEF x
<1> QED
  BY <1>3, <1>4, <1>5

\* Before any round there is nothing to differ in.
LEMMA StartHonest ==
  ASSUME NEW cfg \in Policies, NEW t \in 1..Branches,
         NEW tree, Sound(StartRun(tree), cfg), WellGrown(tree, t),
         NEW r, Len(r.rounds) \in Nat, NEW h, h[0] = StartRun(tree)
  PROVE  Honest(r, StartRun(<< >>), h, t) /\ WellGrown(<< >>, t)
<1> DEFINE o == StartRun(<< >>)
           s == StartRun(tree)
<1>1. /\ o.rounds = << >> /\ o.tree = << >> /\ o.revealed = {Root}
      /\ o.last_best = 0 /\ o.stalled = 0 /\ o.reason = "running"
      /\ s.rounds = << >> /\ s.tree = tree /\ s.revealed = {Root}
      /\ s.last_best = 0 /\ s.stalled = 0
  BY DEF StartRun
<1>2. << >> \in Seq(Node) /\ Len(<< >>) = 0 /\ DOMAIN << >> = {}
  BY EmptySeq
<1>3. WellGrown(<< >>, t)
  BY <1>2 DEF WellGrown
<1>4. WellFormed(o) /\ Full(o)
  <2>1. \A n \in 1..Len(<< >>) : << >>[n].parent \in 0..n - 1
    BY <1>2
  <2>2. Sound(o, cfg)
    BY <1>2, <2>1, StartSound
  <2>3. {Root} = 0..Len(<< >>)
    BY <1>2 DEF Root
  <2> HIDE DEF o
  <2> QED BY <1>1, <2>2, <2>3 DEF Sound, Full
<1> HIDE DEF o, s
<1>5. Kin(s, o, t)
  <2>1. Places(s) = Places(o)
    BY <1>1 DEF Places
  <2> QED BY <1>1, <1>3, <1>4, <2>1 DEF Kin, Sound, s
<1>6. Len(o.rounds) = 0 /\ Running(o)
  BY <1>1, <1>2 DEF Running
<1>7. Honest(r, o, h, t)
  <2>1. h[0] = s
    BY DEF s
  <2> QED BY <1>5, <1>6, <2>1 DEF Honest
<1> QED
  BY <1>3, <1>7 DEF o

\* What holds of the three runs together.
HonestInv ==
  /\ WellGrown(recorded.tree, target) /\ WellGrown(own.tree, target)
  /\ Running(recorded) => replayed.reason = "waiting"
  /\ replayed.reason \in {"waiting", "running"} => own = StartRun(<< >>)
  /\ replayed.reason # "waiting" =>
       \E h : /\ Retraces(learner, recorded.tree, replayed, h)
              /\ TellsApart(learner) => Honest(replayed, own, h, target)

\* It is inductive, with the soundness of each run.
LEMMA HonestInvHolds == Spec => []HonestInv
<1>1. Init /\ RunsAreSound => HonestInv
  <2> SUFFICES ASSUME Init, RunsAreSound PROVE HonestInv
    OBVIOUS
  <2>1. /\ recorded = StartRun(<< >>) /\ own = StartRun(<< >>)
        /\ replayed = Ended(StartRun(<< >>), "waiting")
    BY DEF Init, Ended
  <2>2. replayed.reason = "waiting"
    BY <2>1 DEF Ended, StartRun
  <2>3. StartRun(<< >>).tree = << >>
    BY DEF StartRun
  <2>4. WellGrown(<< >>, target)
    <3>1. DOMAIN << >> = {}
      BY EmptySeq
    <3> QED BY <3>1 DEF WellGrown
  <2> QED BY <2>1, <2>2, <2>3, <2>4 DEF HonestInv
<1>2. RunsAreSound /\ HonestInv /\ [Next]_vars => HonestInv'
  <2> SUFFICES ASSUME RunsAreSound, HonestInv, [Next]_vars PROVE HonestInv'
    OBVIOUS
  <2>1. target \in 1..Branches /\ learner \in Policies /\ recorder \in Policies
    BY DEF RunsAreSound
  <2>2. CASE Record
    <3>1. WellGrown(recorded'.tree, target)
      BY <2>2, StaysWellGrown DEF Record, RunsAreSound, HonestInv
    <3>2. replayed.reason = "waiting"
      BY <2>2 DEF Record, HonestInv
    <3> QED BY <2>2, <3>1, <3>2 DEF Record, HonestInv
  <2>3. CASE BeginReplay
    <3> DEFINE first == StartRun(recorded.tree)
               g == [k \in {0} |-> first]
    <3>1. /\ recorded.tree \in Seq(Node)
          /\ \A n \in 1..Len(recorded.tree) : recorded.tree[n].parent \in 0..n - 1
      BY DEF RunsAreSound, Sound, WellFormed, RunType
    <3>2. /\ Sound(first, learner) /\ first.tree = recorded.tree
          /\ first.reason = "running"
      BY <2>1, <3>1, StartSound
    <3>3. first.rounds = << >> /\ Len(first.rounds) = 0
      BY EmptySeq DEF StartRun
    <3>4. g[0] = first
      OBVIOUS
    <3>5. Retraces(learner, recorded.tree, first, g)
      <4>1. 0..Len(first.rounds) = {0} /\ 0..Len(first.rounds) - 1 = {}
        BY <3>3
      <4>2. Begins(first.rounds, first.rounds)
        BY <3>3 DEF Begins
      <4> HIDE DEF g
      <4>3. first = StartRun(recorded.tree)
        OBVIOUS
      <4> HIDE DEF first
      <4> QED BY <3>2, <3>3, <3>4, <4>1, <4>2, <4>3 DEF Retraces
    <3>6. Honest(first, StartRun(<< >>), g, target)
      <4> HIDE DEF g
      <4>1. WellGrown(recorded.tree, target)
        BY DEF HonestInv
      <4> QED BY <2>1, <3>2, <3>3, <3>4, <4>1, StartHonest
    <3>7. replayed' = first /\ own = StartRun(<< >>) /\ ~Running(recorded)
          /\ UNCHANGED <<target, recorder, learner, recorded, own>>
      BY <2>3 DEF BeginReplay, HonestInv
    <3> HIDE DEF first, g
    <3> QED BY <3>5, <3>6, <3>7 DEF HonestInv
  <2>4. CASE ReplayOnce
    <3>1. /\ replayed' = ReplayRound(learner, replayed) /\ replayed.reason = "running"
          /\ UNCHANGED <<target, recorder, learner, recorded, own>>
          /\ Running(replayed) /\ own = StartRun(<< >>) /\ ~Running(recorded)
      BY <2>4 DEF ReplayOnce, Running, HonestInv
    <3>2. PICK h : Retraces(learner, recorded.tree, replayed, h)
      BY <3>1 DEF HonestInv
    <3>3. replayed.reason \in Reasons
      BY <3>1 DEF Reasons
    <3>4. Sound(replayed', learner) /\ replayed'.reason # "waiting"
      BY <2>1, <3>1, <3>3, ReplayKeeps DEF RunsAreSound, Reasons
    <3>5. PICK g : g[0] = h[0] /\ Retraces(learner, recorded.tree, replayed', g)
      BY <2>1, <3>1, <3>2, <3>3, RetraceGoesOn DEF RunsAreSound
    <3>6. h[0] = StartRun(recorded.tree)
      BY <3>2 DEF Retraces
    <3>7. Sound(StartRun(recorded.tree), learner)
      <4>1. /\ recorded.tree \in Seq(Node)
            /\ \A n \in 1..Len(recorded.tree) : recorded.tree[n].parent \in 0..n - 1
        BY DEF RunsAreSound, Sound, WellFormed, RunType
      <4> QED BY <2>1, <4>1, StartSound
    <3>8. Honest(replayed', own, g, target)
      <4>1. Len(replayed'.rounds) \in Nat /\ WellGrown(recorded.tree, target)
        BY <3>4, RevealedFinite DEF Sound, HonestInv
      <4> QED BY <2>1, <3>1, <3>5, <3>6, <3>7, <4>1, StartHonest
    <3> QED BY <3>1, <3>4, <3>5, <3>8 DEF HonestInv
  <2>5. CASE Explore
    <3>1. /\ own' = RolloutRound(learner, target, own) /\ Running(own)
          /\ UNCHANGED <<target, recorder, learner, recorded, replayed>>
          /\ ~Running(recorded) /\ ~Running(replayed) /\ replayed.reason # "waiting"
          /\ replayed.reason # "running"
      BY <2>5 DEF Explore, Running
    <3>2. WellGrown(own'.tree, target)
      BY <3>1, StaysWellGrown DEF RunsAreSound, HonestInv
    <3>3. PICK h : /\ Retraces(learner, recorded.tree, replayed, h)
                   /\ TellsApart(learner) => Honest(replayed, own, h, target)
      BY <3>1 DEF HonestInv
    <3>4. TellsApart(learner) => Honest(replayed, own', h, target)
      BY <3>1, <3>3, ExploreHonest DEF RunsAreSound, HonestInv
    <3> QED BY <3>1, <3>2, <3>3, <3>4 DEF HonestInv
  <2>6. CASE UNCHANGED vars
    BY <2>6 DEF vars, HonestInv
  <2> QED BY <2>2, <2>3, <2>4, <2>5, <2>6 DEF Next
<1> QED BY <1>1, <1>2, SoundnessHolds, PTL DEF Spec

\* A replay never shows what the policy would not have looked at online: where
\* the two first differ, by what was not recorded, the replay shows a part of
\* the online round, and if they differ nowhere they end for the same reason.
\* It holds for every policy whose values tell different nodes apart.
THEOREM ReplayStaysHonest == Spec => [](TellsApart(learner) => ReplayIsHonest)
<1>1. RunsAreSound /\ HonestInv => (TellsApart(learner) => ReplayIsHonest)
  <2> SUFFICES ASSUME RunsAreSound, HonestInv, TellsApart(learner), ~Running(own)
               PROVE  /\ \A k \in DOMAIN replayed.rounds :
                           (\A j \in 1..k - 1 : SameRound(replayed, own, j)) =>
                             k \in DOMAIN own.rounds /\ Looked(replayed, k) \subseteq Looked(own, k)
                      /\ (/\ \A k \in DOMAIN replayed.rounds : SameRound(replayed, own, k)
                          /\ replayed.reason \notin {"exhausted", "fully_revealed"})
                         => Len(own.rounds) = Len(replayed.rounds) /\ own.reason = replayed.reason
    BY DEF ReplayIsHonest
  <2> DEFINE n == Len(replayed.rounds)
             m == Len(own.rounds)
  <2>1. /\ DOMAIN replayed.rounds = 1..n /\ n \in Nat
        /\ DOMAIN own.rounds = 1..m /\ m \in Nat
    BY RevealedFinite DEF RunsAreSound, Sound
  <2>2. replayed.reason # "waiting"
    <3>1. Running(StartRun(<< >>))
      BY DEF Running, StartRun
    <3> QED BY <3>1 DEF HonestInv
  <2>3. PICK h : Honest(replayed, own, h, target)
    BY <2>2 DEF HonestInv
  <2>4. /\ \A i \in 1..m : i <= n /\ Agree(replayed, own, i - 1)
                             => Looked(replayed, i) \subseteq Looked(own, i)
        /\ m <= n /\ Agree(replayed, own, m) =>
             m = n /\ (\/ replayed.reason \in {"exhausted", "fully_revealed"}
                       \/ own.reason = replayed.reason)
        /\ m > n /\ Agree(replayed, own, n) => replayed.reason \in {"exhausted", "fully_revealed"}
    BY <2>3 DEF Honest
  <2> HIDE DEF n, m
  <2>5. ASSUME NEW k \in 1..n, \A j \in 1..k - 1 : SameRound(replayed, own, j)
        PROVE  k \in 1..m /\ Looked(replayed, k) \subseteq Looked(own, k)
    <3>1. Agree(replayed, own, k - 1)
      BY <2>5 DEF Agree, SameRound
    <3>2. k - 1 <= m
      <4>1. CASE k = 1
        BY <2>1, <4>1
      <4>2. CASE k # 1
        <5>1. k - 1 \in 1..k - 1
          BY <2>1, <4>2
        <5>2. SameRound(replayed, own, k - 1)
          BY <2>5, <5>1
        <5>3. k - 1 \in 1..m
          BY <2>1, <5>2 DEF SameRound
        <5> QED BY <2>1, <5>3
      <4> QED BY <4>1, <4>2
    <3>3. k # m + 1
      <4> SUFFICES ASSUME k = m + 1 PROVE FALSE
        OBVIOUS
      <4>1. k - 1 = m /\ m <= n /\ m # n
        BY <2>1
      <4> QED BY <2>4, <3>1, <4>1
    <3>4. k \in 1..m /\ k <= n
      BY <2>1, <3>2, <3>3
    <3> QED BY <2>4, <3>1, <3>4
  <2>6. ASSUME \A k \in 1..n : SameRound(replayed, own, k),
               replayed.reason \notin {"exhausted", "fully_revealed"}
        PROVE  m = n /\ own.reason = replayed.reason
    <3>1. Agree(replayed, own, n)
      BY <2>6 DEF Agree, SameRound
    <3>2. n <= m
      <4>1. CASE n = 0
        BY <2>1, <4>1
      <4>2. CASE n # 0
        <5>1. SameRound(replayed, own, n)
          BY <2>1, <2>6, <4>2
        <5>2. n \in 1..m
          BY <2>1, <5>1 DEF SameRound
        <5> QED BY <2>1, <5>2
      <4> QED BY <4>1, <4>2
    <3>3. ~(m > n)
      BY <2>4, <2>6, <3>1
    <3>4. m = n
      BY <2>1, <3>2, <3>3
    <3> QED BY <2>1, <2>4, <2>6, <3>1, <3>4
  <2> QED BY <2>1, <2>5, <2>6 DEF n, m
<1> QED BY <1>1, HonestInvHolds, SoundnessHolds, PTL

-----------------------------------------------------------------------------
(* Trees that leave nothing out.                                           *)

\* Every branch is followed to its end.
Complete(tree) ==
  \A b \in 1..Branches, d \in 1..MaxDepth : \E n \in DOMAIN tree : Place(tree, n) = <<b, d>>

\* An online run and its places.
LEMMA OnlinePlaces ==
  ASSUME NEW run, WellFormed(run), Full(run), NEW t, WellGrown(run.tree, t)
  PROVE  /\ DOMAIN run.tree = 1..Len(run.tree) /\ Len(run.tree) \in Nat
         /\ DOMAIN run.tree \in SUBSET (Nat \ {Root})
         /\ run.revealed \ {Root} = DOMAIN run.tree
         /\ \A n \in DOMAIN run.tree :
              /\ run.tree[n] \in Node
              /\ run.tree[n].branch \in 1..Branches /\ run.tree[n].depth \in 1..MaxDepth
              /\ n \in Leaves(run.tree, run.revealed) <=>
                   ~ \E m \in DOMAIN run.tree :
                       Place(run.tree, m) = <<run.tree[n].branch, run.tree[n].depth + 1>>
         /\ Places(run) = {Place(run.tree, n) : n \in DOMAIN run.tree}
         /\ Requests(run) = Len(run.tree)
<1>1. /\ DOMAIN run.tree = 1..Len(run.tree) /\ Len(run.tree) \in Nat
      /\ \A n \in DOMAIN run.tree : run.tree[n] \in Node
  BY RevealedFinite
<1>2. /\ DOMAIN run.tree \in SUBSET (Nat \ {Root})
      /\ run.revealed \ {Root} = DOMAIN run.tree
  BY <1>1 DEF Full, Root
<1>3. Places(run) = {Place(run.tree, n) : n \in DOMAIN run.tree}
  BY <1>2 DEF Places
<1>4. Requests(run) = Len(run.tree)
  <2>1. Cardinality(1..Len(run.tree)) = Len(run.tree)
    BY <1>1, FS_Interval
  <2> QED BY <1>1, <1>2, <2>1 DEF Requests
<1>5. ASSUME NEW n \in DOMAIN run.tree
      PROVE  /\ run.tree[n].branch \in 1..Branches /\ run.tree[n].depth \in 1..MaxDepth
             /\ n \in Leaves(run.tree, run.revealed) <=>
                  ~ \E m \in DOMAIN run.tree :
                      Place(run.tree, m) = <<run.tree[n].branch, run.tree[n].depth + 1>>
  <2>1. run.tree[n].branch \in 1..Branches /\ run.tree[n].depth \in 1..MaxDepth
    BY <1>1 DEF Node
  <2>2. ChildrenOf(run.tree, n) \cap run.revealed = ChildrenOf(run.tree, n)
    BY <1>2 DEF ChildrenOf
  <2>3. n \in Leaves(run.tree, run.revealed) <=> ChildrenOf(run.tree, n) = {}
    BY <1>2, <2>2 DEF Leaves
  <2>4. \A m \in DOMAIN run.tree :
          m \in ChildrenOf(run.tree, n) <=>
            Place(run.tree, m) = <<run.tree[n].branch, run.tree[n].depth + 1>>
    BY <1>1, <1>2, ChildAtNext DEF Place
  <2>5. ChildrenOf(run.tree, n) \subseteq DOMAIN run.tree
    BY DEF ChildrenOf
  <2> QED BY <2>1, <2>3, <2>4, <2>5
<1> QED
  BY <1>1, <1>2, <1>3, <1>4, <1>5

\* There is room for so many nodes, and a tree of so many is complete.
LEMMA RoomForNodes ==
  ASSUME NEW run, WellFormed(run), Full(run), NEW t, WellGrown(run.tree, t)
  PROVE  /\ Len(run.tree) <= MaxDepth * Branches
         /\ Len(run.tree) >= MaxDepth * Branches => Complete(run.tree)
<1> DEFINE size == Len(run.tree)
           cells == (1..Branches) \X (1..MaxDepth)
           f == [n \in 1..size |-> Place(run.tree, n)]
<1>1. /\ DOMAIN run.tree = 1..size /\ size \in Nat
      /\ \A n \in 1..size : run.tree[n].branch \in 1..Branches /\ run.tree[n].depth \in 1..MaxDepth
  BY OnlinePlaces
<1>2. \A n \in 1..size : Place(run.tree, n) \in cells
  BY <1>1 DEF Place
<1>3. \A m, n \in 1..size : Place(run.tree, m) = Place(run.tree, n) => m = n
  BY <1>1 DEF WellGrown
<1>4. f \in Injection(1..size, cells)
  BY <1>2, <1>3 DEF Injection, IsInjective
<1>5. IsFiniteSet(cells) /\ Cardinality(cells) = MaxDepth * Branches
  <2>1. Branches \in Nat /\ MaxDepth = 3
    BY SizesAssumption DEF MaxDepth
  <2>2. /\ IsFiniteSet(1..Branches) /\ Cardinality(1..Branches) = Branches
        /\ IsFiniteSet(1..MaxDepth) /\ Cardinality(1..MaxDepth) = MaxDepth
    <3>1. \A k \in Nat : IsFiniteSet(1..k) /\ Cardinality(1..k) = k
      BY FS_Interval
    <3> QED BY <2>1, <3>1
  <2>3. IsFiniteSet(cells) /\ Cardinality(cells) = Branches * MaxDepth
    <3>1. Cardinality(cells) = Cardinality(1..Branches) * Cardinality(1..MaxDepth)
      BY <2>2, FS_Product
    <3> QED BY <2>2, <3>1, FS_Product
  <2>4. Branches * MaxDepth = MaxDepth * Branches
    BY <2>1
  <2> QED BY <2>3, <2>4
<1>6. Cardinality(1..size) = size
  BY <1>1, FS_Interval
<1> HIDE DEF f
<1>7. size <= MaxDepth * Branches
  <2>1. Cardinality(1..size) <= Cardinality(cells)
    BY <1>4, <1>5, FS_Injection
  <2> QED BY <1>5, <1>6, <2>1
<1>8. ASSUME size >= MaxDepth * Branches PROVE Complete(run.tree)
  <2>1. size = MaxDepth * Branches
    <3>1. MaxDepth * Branches \in Nat
      BY SizesAssumption DEF MaxDepth
    <3> QED BY <1>1, <1>7, <1>8, <3>1
  <2>2. f \in Surjection(1..size, cells)
    <3>1. Cardinality(1..size) = Cardinality(cells)
      BY <1>5, <1>6, <2>1
    <3> QED BY <1>4, <1>5, <3>1, FS_Injection
  <2>3. \A x \in cells : \E n \in 1..size : f[n] = x
    BY <2>2 DEF Surjection
  <2>4. \A n \in 1..size : f[n] = Place(run.tree, n)
    BY DEF f
  <2>5. ASSUME NEW b \in 1..Branches, NEW d \in 1..MaxDepth
        PROVE  \E n \in DOMAIN run.tree : Place(run.tree, n) = <<b, d>>
    <3>1. <<b, d>> \in cells
      OBVIOUS
    <3> HIDE DEF cells, size
    <3> QED BY <1>1, <2>3, <2>4, <3>1
  <2> QED BY <2>5 DEF Complete
<1> QED
  BY <1>7, <1>8

\* A branch is open if its first place is taken; the root has a child for each.
LEMMA OpenBranches ==
  ASSUME NEW run, WellFormed(run), Full(run), NEW t, WellGrown(run.tree, t)
  PROVE  /\ \A b \in 1..Branches : b \in Unopened(run.tree) <=> <<b, 1>> \notin Places(run)
         /\ RootChildren(run) \in Nat
         /\ RootChildren(run) < Branches <=> Unopened(run.tree) # {}
<1> DEFINE tree == run.tree
           kids == ChildrenOf(tree, Root)
           open == {tree[n].branch : n \in kids}
           f == [n \in kids |-> tree[n].branch]
<1>1. /\ DOMAIN tree = 1..Len(tree) /\ Len(tree) \in Nat
      /\ DOMAIN tree \in SUBSET (Nat \ {Root})
      /\ run.revealed \ {Root} = DOMAIN tree
      /\ \A n \in DOMAIN tree : tree[n].branch \in 1..Branches
      /\ Places(run) = {Place(tree, n) : n \in DOMAIN tree}
  BY OnlinePlaces
<1>2. \A n \in DOMAIN tree : n \in kids <=> tree[n].depth = 1
  BY <1>1, ChildIsNext DEF ChildrenOf
<1>3. kids \subseteq DOMAIN tree
  BY DEF ChildrenOf
<1>4. ASSUME NEW b \in 1..Branches
      PROVE  b \in Unopened(tree) <=> <<b, 1>> \notin Places(run)
  <2>1. b \in open <=> <<b, 1>> \in Places(run)
    BY <1>1, <1>2, <1>3 DEF Place
  <2> QED BY <2>1 DEF Unopened
<1>5. IsFiniteSet(kids) /\ RootChildren(run) = Cardinality(kids) /\ Cardinality(kids) \in Nat
  <2>1. IsFiniteSet(DOMAIN tree)
    <3>1. \A k \in Nat : IsFiniteSet(1..k)
      BY FS_Interval
    <3> QED BY <1>1, <3>1
  <2>2. kids \cap run.revealed = kids
    BY <1>1, <1>3
  <2>3. IsFiniteSet(kids)
    BY <1>3, <2>1, FS_Subset
  <2> QED BY <2>2, <2>3, FS_CardinalityType DEF RootChildren
<1>6. /\ IsFiniteSet(open) /\ Cardinality(open) = Cardinality(kids)
  <2>1. \A m, n \in kids : tree[m].branch = tree[n].branch => m = n
    <3> TAKE m, n \in kids
    <3> HAVE tree[m].branch = tree[n].branch
    <3>1. Place(tree, m) = Place(tree, n)
      BY <1>2, <1>3 DEF Place
    <3> QED BY <1>3, <3>1 DEF WellGrown
  <2>2. f \in Injection(kids, open) /\ f \in Surjection(kids, open)
    BY <2>1 DEF Injection, IsInjective, Surjection
  <2> HIDE DEF f, open, kids
  <2> QED BY <1>5, <2>2, FS_Surjection
<1>7. open \subseteq 1..Branches
  BY <1>1, <1>3
<1>8. /\ IsFiniteSet(1..Branches) /\ Cardinality(1..Branches) = Branches /\ Branches \in Nat
  BY SizesAssumption, FS_Interval
<1>9. Unopened(tree) = (1..Branches) \ open
  BY DEF Unopened
<1> HIDE DEF open, kids, f
<1>10. /\ Cardinality(open) <= Branches
       /\ Cardinality(open) = Branches <=> open = 1..Branches
  BY <1>7, <1>8, FS_Subset
<1>11. RootChildren(run) < Branches <=> open # 1..Branches
  BY <1>5, <1>6, <1>8, <1>10
<1> QED
  BY <1>4, <1>5, <1>7, <1>9, <1>11

\* Where candidates stand.
LEMMA CandidateIds ==
  ASSUME NEW cfg, NEW run
  PROVE  /\ Selected(cfg, run) \subseteq Candidates(cfg, run)
         /\ \A c \in Candidates(cfg, run) :
              \/ /\ c.id \in Leaves(run.tree, run.revealed)
                 /\ c.id # Root /\ run.tree[c.id].depth < MaxDepth
              \/ c.id = Root /\ RootChildren(run) < cfg.max_branches
         /\ \A n \in Leaves(run.tree, run.revealed) :
              run.tree[n].depth < MaxDepth => \E c \in Candidates(cfg, run) : c.id = n
         /\ RootChildren(run) < cfg.max_branches => \E c \in Candidates(cfg, run) : c.id = Root
<1> DEFINE deeper == {m \in Leaves(run.tree, run.revealed) : run.tree[m].depth < MaxDepth}
           more == IF RootChildren(run) < cfg.max_branches THEN {Root} ELSE {}
           Entry(n) == [id |-> n, value |-> Priority(cfg, run, n)]
<1>1. Candidates(cfg, run) = {Entry(n) : n \in deeper \cup more}
  BY DEF Candidates
<1>2. \A n : Entry(n).id = n
  OBVIOUS
<1>3. \A n \in Leaves(run.tree, run.revealed) : n # Root
  BY DEF Leaves
<1>4. Selected(cfg, run) \subseteq Candidates(cfg, run)
  BY DEF Selected
<1> HIDE DEF Entry
<1>5. \A c \in Candidates(cfg, run) : c.id \in deeper \cup more
  BY <1>1, <1>2
<1>6. \A n \in deeper \cup more : \E c \in Candidates(cfg, run) : c.id = n
  BY <1>1, <1>2
<1> QED
  BY <1>3, <1>4, <1>5, <1>6

\* On a complete tree there is nothing to expand.
LEMMA NothingLeft ==
  ASSUME NEW run, WellFormed(run), Full(run), NEW t, WellGrown(run.tree, t),
         Complete(run.tree), NEW cfg
  PROVE  Able(cfg, run) = {}
<1> SUFFICES ASSUME NEW c \in Able(cfg, run) PROVE FALSE
  OBVIOUS
<1>1. c \in Candidates(cfg, run) /\ CanExpand(run.tree, c.id)
  BY CandidateIds DEF Able
<1>2. CASE c.id = Root
  <2>1. PICK b \in Unopened(run.tree) : TRUE
    BY <1>1, <1>2 DEF CanExpand
  <2>2. b \in 1..Branches /\ 1 \in 1..MaxDepth
    BY DEF Unopened, MaxDepth
  <2>3. <<b, 1>> \in Places(run)
    BY <2>2, OnlinePlaces DEF Complete
  <2> QED BY <2>1, <2>2, <2>3, OpenBranches
<1>3. CASE c.id \in Leaves(run.tree, run.revealed) /\ c.id # Root
           /\ run.tree[c.id].depth < MaxDepth
  <2>1. /\ c.id \in DOMAIN run.tree
        /\ run.tree[c.id].branch \in 1..Branches /\ run.tree[c.id].depth \in 1..MaxDepth
        /\ ~ \E m \in DOMAIN run.tree :
               Place(run.tree, m) = <<run.tree[c.id].branch, run.tree[c.id].depth + 1>>
    <3>1. c.id \in DOMAIN run.tree
      BY <1>3, OnlinePlaces DEF Leaves
    <3> QED BY <1>3, <3>1, OnlinePlaces
  <2>2. run.tree[c.id].depth + 1 \in 1..MaxDepth
    BY <1>3, <2>1 DEF MaxDepth
  <2> QED BY <2>1, <2>2 DEF Complete
<1> QED
  BY <1>1, <1>2, <1>3, CandidateIds

-----------------------------------------------------------------------------
(* Replays of complete trees.                                              *)

\* What the online run would grow is there and was not shown.
LEMMA StillHidden ==
  ASSUME NEW r, NEW o, NEW t, Kin(r, o, t), Complete(r.tree),
         NEW n \in o.revealed, CanExpand(o.tree, n),
         n # Root => n \in Leaves(o.tree, o.revealed)
  PROVE  Hidden(r, Twin(r, o, n)) # {}
<1>1. /\ Root \notin DOMAIN r.tree /\ Twin(r, o, Root) = Root
      /\ \A i \in DOMAIN r.tree : r.tree[i] \in Node
      /\ \A m \in r.revealed : \E i \in o.revealed : m = Twin(r, o, i)
      /\ \A i \in DOMAIN o.tree :
           LET m == Twin(r, o, i)
           IN  /\ m \in DOMAIN r.tree
               /\ r.tree[m].branch = o.tree[i].branch
               /\ r.tree[m].depth = o.tree[i].depth
  BY Twins
<1>2. /\ WellFormed(o) /\ Full(o) /\ WellGrown(o.tree, t) /\ WellGrown(r.tree, t)
      /\ DOMAIN r.tree \in SUBSET (Nat \ {Root})
  <2>1. DOMAIN r.tree = 1..Len(r.tree) /\ Len(r.tree) \in Nat
    BY RevealedFinite DEF Kin
  <2> QED BY <1>1, <2>1 DEF Kin
<1>3. /\ o.revealed \ {Root} = DOMAIN o.tree
      /\ Places(o) = {Place(o.tree, i) : i \in DOMAIN o.tree}
  BY <1>2, OnlinePlaces
\* What is at a place that the online run lacks is hidden.
<1>4. ASSUME NEW h \in DOMAIN r.tree, Place(r.tree, h) \notin Places(o)
      PROVE  h \notin r.revealed
  <2> SUFFICES ASSUME h \in r.revealed PROVE FALSE
    OBVIOUS
  <2>1. Place(r.tree, h) \in Places(r)
    BY <1>1 DEF Places
  <2> QED BY <1>4, <2>1 DEF Kin
<1>5. CASE n = Root
  <2>1. PICK b \in Unopened(o.tree) : TRUE
    BY <1>5 DEF CanExpand
  <2>2. b \in 1..Branches /\ 1 \in 1..MaxDepth
    BY DEF Unopened, MaxDepth
  <2>3. PICK h \in DOMAIN r.tree : Place(r.tree, h) = <<b, 1>>
    BY <2>2 DEF Complete
  <2>4. <<b, 1>> \notin Places(o)
    BY <1>2, <2>1, <2>2, OpenBranches
  <2>5. h \in ChildrenOf(r.tree, Root)
    <3>1. r.tree[h].depth = 1
      BY <2>3 DEF Place
    <3> QED BY <1>2, <3>1, ChildIsNext DEF ChildrenOf
  <2>6. h \in Hidden(r, Root)
    BY <1>4, <2>3, <2>4, <2>5 DEF Hidden
  <2> QED BY <1>1, <1>5, <2>6
<1>6. CASE n # Root
  <2> DEFINE p == Twin(r, o, n)
             b == o.tree[n].branch
             d == o.tree[n].depth + 1
  <2>1. /\ n \in DOMAIN o.tree /\ b \in 1..Branches /\ o.tree[n].depth \in 1..MaxDepth
        /\ ~ \E m \in DOMAIN o.tree : Place(o.tree, m) = <<b, d>>
    <3>1. n \in DOMAIN o.tree /\ n \in Leaves(o.tree, o.revealed)
      BY <1>3, <1>6
    <3> QED BY <1>2, <3>1, OnlinePlaces
  <2>2. d \in 1..MaxDepth
    <3>1. o.tree[n].depth < MaxDepth
      BY <1>6 DEF CanExpand
    <3> QED BY <2>1, <3>1 DEF MaxDepth
  <2>3. PICK h \in DOMAIN r.tree : Place(r.tree, h) = <<b, d>>
    BY <2>1, <2>2 DEF Complete
  <2>4. <<b, d>> \notin Places(o)
    BY <1>3, <2>1
  <2>5. p \in DOMAIN r.tree /\ r.tree[p].branch = b /\ r.tree[p].depth + 1 = d
    BY <1>1, <2>1
  <2>6. r.tree[h].branch = b /\ r.tree[h].depth = d
    BY <2>3 DEF Place
  <2> HIDE DEF p, b, d
  <2>7. h \in ChildrenOf(r.tree, p)
    BY <1>1, <1>2, <2>5, <2>6, ChildAtNext
  <2>8. h \in Hidden(r, p)
    BY <1>4, <2>3, <2>4, <2>7 DEF Hidden
  <2> QED BY <2>8 DEF p
<1> QED
  BY <1>5, <1>6

\* So the replay finds what the online run expands.
LEMMA KinFinds ==
  ASSUME NEW r, NEW o, NEW t, Kin(r, o, t), Complete(r.tree),
         NEW cfg \in Policies, TellsApart(cfg), NEW e \in Able(cfg, o)
  PROVE  \E c \in Findable(cfg, r) :
           Place(r.tree, MinOf(Hidden(r, c.id)))
             = <<Expanded(t, o.tree, e.id).branch, Expanded(t, o.tree, e.id).depth>>
<1>1. /\ e \in Selected(cfg, o) /\ CanExpand(o.tree, e.id)
      /\ e.id # Root => e.id \in Leaves(o.tree, o.revealed) /\ o.tree[e.id].depth < MaxDepth
  BY CandidateIds DEF Able
<1>2. e.id \in o.revealed
  <2> DEFINE all == Selected(cfg, o)
  <2>1. all \in SUBSET Selected(cfg, o) /\ WellFormed(o) /\ e \in all
    BY <1>1 DEF Kin
  <2> HIDE DEF all
  <2> QED BY <2>1, SelectedBound
<1>3. PICK c \in Selected(cfg, r) : c.id = Twin(r, o, e.id)
  BY <1>1, KinSelect
<1>4. Hidden(r, c.id) # {}
  BY <1>1, <1>2, <1>3, StillHidden
<1>5. c \in Findable(cfg, r)
  BY <1>4 DEF Findable
<1>6. Place(r.tree, MinOf(Hidden(r, c.id)))
        = <<Expanded(t, o.tree, e.id).branch, Expanded(t, o.tree, e.id).depth>>
  BY <1>1, <1>2, <1>3, <1>4, KinShows
<1> QED
  BY <1>5, <1>6

\* A round of the replay shows all that the online run grows, and ends when
\* that one ends.
LEMMA CompleteRound ==
  ASSUME NEW cfg \in Policies, TellsApart(cfg), NEW t \in 1..Branches,
         NEW r, Sound(r, cfg), Running(r), Complete(r.tree),
         NEW o, Sound(o, cfg), Full(o), Running(o), Kin(r, o, t)
  PROVE  LET x == ReplayRound(cfg, r)
             y == RolloutRound(cfg, t, o)
             k == Len(r.rounds) + 1
         IN  \/ /\ Running(y) /\ Len(x.rounds) = k /\ Len(y.rounds) = k
                /\ Looked(x, k) = Looked(y, k)
             \/ ~Running(y) /\ x.rounds = r.rounds
<1> DEFINE x == ReplayRound(cfg, r)
           y == RolloutRound(cfg, t, o)
           k == Len(r.rounds) + 1
           mine == Observed(r)
           seen == Observed(o)
           shown == Findable(cfg, mine)
           able == Able(cfg, seen)
           why == Verdict(r, Selected(cfg, mine), shown)
           newR == {MinOf(Hidden(r, c.id)) : c \in shown}
           newO == Len(o.tree) + 1 .. Len(o.tree) + Cardinality(able)
<1>1. Kin(mine, seen, t)
  BY KinObserved
<1>2. /\ mine.tree = r.tree /\ mine.revealed = r.revealed
      /\ seen.tree = o.tree /\ seen.revealed = o.revealed
      /\ Len(r.rounds) = Len(o.rounds) /\ Len(r.rounds) \in Nat
      /\ WellFormed(r) /\ WellFormed(o)
      /\ WellFormed(seen) /\ Full(seen)
  BY <1>1, ObservedKeeps, RevealedFinite DEF Kin
<1>3. \A e \in able : \E c \in shown :
        Place(r.tree, MinOf(Hidden(r, c.id)))
          = <<Expanded(t, o.tree, e.id).branch, Expanded(t, o.tree, e.id).depth>>
  <2> HIDE DEF mine, seen
  <2>1. \A e \in able : \E c \in shown :
          Place(mine.tree, MinOf(Hidden(mine, c.id)))
            = <<Expanded(t, seen.tree, e.id).branch, Expanded(t, seen.tree, e.id).depth>>
    BY <1>1, <1>2, KinFinds
  <2>2. \A i : Hidden(mine, i) = Hidden(r, i)
    BY <1>2 DEF Hidden
  <2> QED BY <1>2, <2>1, <2>2
<1>4. \/ /\ Len(x.rounds) = k /\ Running(y) /\ Len(y.rounds) = k
         /\ Looked(x, k) \subseteq Looked(y, k)
      \/ x.rounds = r.rounds /\ (x.reason = "exhausted" \/ ~Running(y))
  BY KinRound
<1>5. OneBranchEach(o.tree)
  BY StaysWellGrown DEF Kin
<1>6. \/ /\ Running(y) /\ able # {} /\ y = Grown(t, seen, able)
         /\ y.rounds = Append(o.rounds, newO)
      \/ ~Running(y) /\ (Len(o.rounds) = MaxRounds \/ able = {})
  BY <1>5, GrowsOrEnds
<1>7. \/ /\ why = "running" /\ WellFormed(x) /\ x.tree = r.tree
         /\ x.rounds = Append(r.rounds, newR)
      \/ why # "running" /\ x.reason = why /\ x.rounds = r.rounds
  BY ShowsOrEnds
<1>8. r.rounds \in Seq(SUBSET Nat) /\ o.rounds \in Seq(SUBSET Nat)
  BY <1>2 DEF WellFormed, RunType
<1> HIDE DEF x, y, mine, seen, shown, able, why, newO, newR
<1>9. CASE x.rounds = r.rounds
  <2>1. ~(Len(x.rounds) = k)
    BY <1>2, <1>9
  <2>2. CASE x.reason = "exhausted"
    <3>1. why = "exhausted"
      <4>1. why # "running"
        <5> SUFFICES ASSUME why = "running" PROVE FALSE
          OBVIOUS
        <5>1. x.rounds = Append(r.rounds, newR) /\ WellFormed(x)
          BY <1>7
        <5>2. newR \in SUBSET Nat
          <6>1. UNION {x.rounds[i] : i \in DOMAIN x.rounds} \subseteq Nat
            BY <5>1, ElementOfSeq DEF WellFormed, RunType
          <6> QED BY <1>9, <5>1
        <5> QED BY <1>8, <1>9, <5>1, <5>2, AppendProperties
      <4> QED BY <1>7, <2>2, <4>1
    <3>2. shown = {}
      BY <3>1 DEF why, Verdict
    <3>3. able = {}
      BY <1>3, <3>2
    <3> QED BY <1>6, <1>9, <3>3 DEF x, y
  <2>3. CASE ~Running(y)
    BY <1>9, <2>3 DEF x, y
  <2> QED BY <1>4, <2>1, <2>2, <2>3
<1>10. CASE x.rounds # r.rounds
  <2>1. /\ Len(x.rounds) = k /\ Running(y) /\ Len(y.rounds) = k
        /\ Looked(x, k) \subseteq Looked(y, k)
    BY <1>4, <1>10
  <2>2. /\ able # {} /\ y = Grown(t, seen, able) /\ y.rounds = Append(o.rounds, newO)
        /\ WellFormed(x) /\ x.tree = r.tree /\ x.rounds = Append(r.rounds, newR)
    BY <1>6, <1>7, <1>10, <2>1
  <2>3. x.rounds[k] = newR
    BY <1>8, <2>2, AppendProperties
  <2>4. y.rounds[k] = newO
    BY <1>2, <1>8, <2>2, AppendProperties
  <2>5. ASSUME NEW n \in newO
        PROVE  \E e \in able : y.tree[n] = Expanded(t, o.tree, e.id)
    <3> DEFINE ready == Able(cfg, seen)
               next == Grown(t, seen, ready)
               At(c) == Len(seen.tree) + 1 + Rank(ready, c)
    <3>1. ready = able /\ next = y
      BY <2>2 DEF able
    <3>2. /\ DOMAIN next.tree = 1..Len(seen.tree) + Cardinality(ready)
          /\ \A c \in ready : next.tree[At(c)] = Expanded(t, seen.tree, c.id)
          /\ \A m \in DOMAIN next.tree : m > Len(seen.tree) => \E c \in ready : m = At(c)
      <4>1. ready # {}
        BY <2>2, <3>1
      <4> QED BY <1>2, <4>1, NewNode
    <3>3. n \in 1..Len(seen.tree) + Cardinality(ready) /\ n > Len(seen.tree)
      <4>1. Len(o.tree) \in Nat
        BY <1>2, RevealedFinite
      <4> QED BY <1>2, <3>1, <4>1 DEF newO
    <3>4. PICK c \in ready : n = At(c)
      BY <3>2, <3>3
    <3>5. next.tree[n] = Expanded(t, seen.tree, c.id)
      BY <3>2, <3>4
    <3> HIDE DEF next, At
    <3> QED BY <1>2, <3>1, <3>5
  <2>6. Looked(y, k) \subseteq Looked(x, k)
    <3>1. \A n \in newO : <<y.tree[n].branch, y.tree[n].depth>> \in Looked(x, k)
      <4> TAKE n \in newO
      <4>1. PICK e \in able : y.tree[n] = Expanded(t, o.tree, e.id)
        BY <2>5
      <4>2. PICK c \in shown :
              Place(r.tree, MinOf(Hidden(r, c.id)))
                = <<Expanded(t, o.tree, e.id).branch, Expanded(t, o.tree, e.id).depth>>
        BY <1>3
      <4>3. MinOf(Hidden(r, c.id)) \in x.rounds[k]
        BY <2>3 DEF newR
      <4>4. Place(x.tree, MinOf(Hidden(r, c.id))) \in Looked(x, k)
        BY <4>3 DEF Looked, Place
      <4> QED BY <2>2, <4>1, <4>2, <4>4
    <3> QED BY <2>4, <3>1 DEF Looked
  <2> QED BY <2>1, <2>6 DEF x, y
<1> QED
  BY <1>9, <1>10

\* A replay that has shown everything has revealed its whole tree.
LEMMA AllIsShown ==
  ASSUME NEW cfg \in Policies, NEW tree, NEW r, Sound(r, cfg), NEW h, Retraces(cfg, tree, r, h),
         ~Running(r), r = h[Len(r.rounds)]
  PROVE  r.revealed = {Root} \cup DOMAIN r.tree
<1> DEFINE n == Len(r.rounds)
           k == n - 1
           run == h[k]
           seen == Observed(run)
           able == {c \in Selected(cfg, seen) : Hidden(seen, c.id) # {}}
<1>1. n \in Nat
  BY RevealedFinite DEF Sound
<1>2. n # 0
  <2> SUFFICES ASSUME n = 0 PROVE FALSE
    OBVIOUS
  <2>1. r = StartRun(tree)
    BY DEF Retraces
  <2> QED BY <2>1 DEF StartRun, Running
<1>3. k \in 0..n - 1 /\ k + 1 = n
  BY <1>1, <1>2
<1> HIDE DEF k
<1>4. r = ReplayRound(cfg, run) /\ Running(run) /\ Sound(run, cfg)
  <2>1. Retraced(cfg, r, h, k)
    BY <1>3, RetracedRound
  <2> QED BY <1>3, <2>1 DEF Retraced
<1>5. r.reason = "fully_revealed"
  BY EndedByShowing
<1>6. seen \in RunType /\ run \in RunType
  BY <1>4, ObservedKeeps DEF Sound, WellFormed
<1>7. \A a \in RunType, w \in Words : [a EXCEPT !.reason = w].reason = w
  BY DEF RunType
<1>8. r = Revealing(seen, able)
  <2> HIDE DEF seen, able
  <2>1. \/ r = [run EXCEPT !.reason = "round_limit"] \/ r = [seen EXCEPT !.reason = "policy_stop"]
        \/ r = [seen EXCEPT !.reason = "exhausted"] \/ r = Revealing(seen, able)
    BY <1>4 DEF ReplayRound, seen, able
  <2> HIDE DEF run
  <2> QED BY <1>5, <1>6, <1>7, <2>1 DEF Words, Reasons
<1> DEFINE new == {MinOf(Hidden(seen, c.id)) : c \in able}
           next == [seen EXCEPT !.revealed = @ \cup new, !.rounds = Append(@, new)]
<1>9. r = IF next.revealed = {Root} \cup DOMAIN seen.tree
          THEN [next EXCEPT !.reason = "fully_revealed"] ELSE next
  <2> HIDE DEF seen, able
  <2> QED BY <1>8 DEF Revealing
<1>10. seen.reason = "running"
  BY <1>4, ObservedKeeps DEF Sound, Running
<1> HIDE DEF seen, able, new
<1>11. /\ next.tree = seen.tree /\ next.reason = seen.reason
       /\ [next EXCEPT !.reason = "fully_revealed"].tree = next.tree
       /\ [next EXCEPT !.reason = "fully_revealed"].revealed = next.revealed
  BY <1>6 DEF RunType
<1> HIDE DEF next
<1> QED
  BY <1>5, <1>9, <1>10, <1>11

\* The online run o has looked at what the replay r did, and stops where it did.
Matches(r, o) ==
  /\ Len(o.rounds) <= Len(r.rounds) /\ Agree(r, o, Len(o.rounds))
  /\ ~Running(o) => Len(o.rounds) = Len(r.rounds)

\* On a complete tree that stays so.
LEMMA ExploreMatches ==
  ASSUME NEW cfg \in Policies, TellsApart(cfg), NEW t \in 1..Branches, NEW tree, Complete(tree),
         NEW r, Sound(r, cfg), ~Running(r), NEW h, Retraces(cfg, tree, r, h),
         NEW o, Sound(o, cfg), Full(o), Running(o), WellGrown(o.tree, t),
         Honest(r, o, h, t), Matches(r, o)
  PROVE  Matches(r, RolloutRound(cfg, t, o))
<1> DEFINE n == Len(r.rounds)
           k == Len(o.rounds)
           y == RolloutRound(cfg, t, o)
<1>1. /\ n \in Nat /\ k \in Nat /\ k <= n /\ Agree(r, o, k) /\ Kin(h[k], o, t)
  BY RevealedFinite DEF Sound, Matches, Honest
<1>2. r.tree = tree /\ k \in 0..n /\ Sound(h[k], cfg) /\ h[k].tree = tree /\ Len(h[k].rounds) = k
  <2>1. h[0].tree = tree /\ 0 \in 0..n /\ k \in 0..n
    BY <1>1 DEF Retraces, StartRun
  <2> QED BY <2>1 DEF Retraces
<1>3. OneBranchEach(o.tree)
  BY StaysWellGrown
<1>4. \/ /\ Running(y) /\ Len(y.rounds) = k + 1
         /\ \A i \in 1..k : Looked(y, i) = Looked(o, i)
      \/ ~Running(y) /\ y.tree = o.tree /\ y.rounds = o.rounds
  BY <1>3, EarlierRounds
<1>5. CASE k < n
  <2>1. /\ h[k + 1] = ReplayRound(cfg, h[k]) /\ Running(h[k])
        /\ Len(h[k + 1].rounds) = k + 1
        /\ Looked(h[k + 1], k + 1) = Looked(r, k + 1)
    <3>1. k \in 0..n - 1
      BY <1>1, <1>5
    <3>2. Retraced(cfg, r, h, k)
      BY <3>1, RetracedRound
    <3> QED BY <3>2 DEF Retraced
  <2> DEFINE x == ReplayRound(cfg, h[k])
  <2>2. \/ /\ Running(y) /\ Len(x.rounds) = k + 1 /\ Len(y.rounds) = k + 1
           /\ Looked(x, k + 1) = Looked(y, k + 1)
        \/ ~Running(y) /\ x.rounds = h[k].rounds
    BY <1>1, <1>2, <2>1, CompleteRound
  <2> HIDE DEF x, y
  <2>3. x = h[k + 1]
    BY <2>1 DEF x
  <2>4. /\ Running(y) /\ Len(y.rounds) = k + 1
        /\ Looked(r, k + 1) = Looked(y, k + 1)
    BY <1>1, <1>2, <2>1, <2>2, <2>3
  <2>5. Agree(r, y, k + 1)
    BY <1>1, <1>4, <2>4 DEF Agree
  <2>6. Matches(r, y)
    BY <1>1, <1>5, <2>4, <2>5 DEF Matches
  <2> QED BY <2>6 DEF y
<1>6. ASSUME k = n, ~Running(y)
      PROVE  Matches(r, y)
  <2>1. y.tree = o.tree /\ y.rounds = o.rounds
    BY <1>4, <1>6
  <2>2. \A i : Looked(y, i) = Looked(o, i)
    BY <2>1 DEF Looked
  <2> HIDE DEF y
  <2> QED BY <1>1, <1>6, <2>1, <2>2 DEF Matches, Agree
<1>7. CASE k = n /\ r = h[n]
  <2>1. r.revealed = {Root} \cup DOMAIN r.tree
    BY <1>7, AllIsShown
  <2> DEFINE seen == Observed(o)
  <2>2. /\ WellFormed(seen) /\ Full(seen) /\ seen.tree = o.tree /\ WellGrown(seen.tree, t)
    BY ObservedKeeps DEF Sound, Full
  <2>3. Complete(seen.tree)
    <3>1. Root \notin DOMAIN r.tree /\ Places(r) = Places(o) /\ WellFormed(o)
      BY <1>1, <1>7, Twins DEF Kin
    <3>2. \A p \in DOMAIN r.tree : Place(r.tree, p) \in Places(o)
      BY <2>1, <3>1 DEF Places
    <3>3. \A b \in 1..Branches, d \in 1..MaxDepth : <<b, d>> \in Places(o)
      BY <1>2, <3>2 DEF Complete
    <3>4. Places(o) = {Place(o.tree, i) : i \in DOMAIN o.tree}
      BY <3>1, OnlinePlaces
    <3> HIDE DEF seen
    <3> QED BY <2>2, <3>3, <3>4 DEF Complete
  <2>4. Able(cfg, seen) = {}
    <3> HIDE DEF seen
    <3> QED BY <2>2, <2>3, NothingLeft
  <2>5. ~Running(y)
    BY <1>3, <2>4, GrowsOrEnds
  <2> QED BY <1>6, <1>7, <2>5
<1>8. CASE k = n /\ r # h[n]
  <2>1. Running(h[k]) /\ r = ReplayRound(cfg, h[k])
    BY <1>1, <1>8 DEF Retraces
  <2>2. \/ Len(r.rounds) = k + 1 \/ ~Running(y)
    BY <1>1, <1>2, <2>1, CompleteRound
  <2> HIDE DEF y
  <2>3. ~Running(y)
    BY <1>1, <1>8, <2>2
  <2> QED BY <1>6, <1>8, <2>3 DEF y
<1> QED
  BY <1>1, <1>5, <1>7, <1>8

-----------------------------------------------------------------------------
(* How an exhaustive policy completes its tree.                            *)

\* Where its expansions lead.
Reached(cfg, t, run) ==
  {<<Expanded(t, run.tree, c.id).branch, Expanded(t, run.tree, c.id).depth>> : c \in Able(cfg, run)}

\* If more candidates are there than workers, each of these has one.
LEMMA WorkersBusy ==
  ASSUME NEW S \in SUBSET Candidate, IsFiniteSet(S), NEW w \in Nat,
         NEW c \in S, ~(Rank(S, c) < w)
  PROVE  LET first == {d \in S : Rank(S, d) < w}
         IN  IsFiniteSet(first) /\ Cardinality(first) \in Nat /\ Cardinality(first) >= w
<1> DEFINE first == {d \in S : Rank(S, d) < w}
           f == [d \in first |-> Rank(S, d)]
<1>1. Cardinality(S) \in Nat /\ Rank(S, c) \in 0..Cardinality(S) - 1
  BY RankIsPlace, FS_CardinalityType
<1>2. \A d \in S : Rank(S, d) \in Nat
  BY <1>1, RankIsPlace
<1>3. ASSUME NEW k \in 0..w - 1
      PROVE  \E d \in first : f[d] = k
  <2>1. k + 1 \in 1..Cardinality(S) /\ k < w
    BY <1>1, <1>3
  <2>2. PICK d \in S : Rank(S, d) = (k + 1) - 1
    BY <2>1, PlaceIsTaken
  <2>3. Rank(S, d) = k
    BY <2>2
  <2> QED BY <2>1, <2>3
<1>4. f \in Surjection(first, 0..w - 1)
  <2>1. \A d \in first : f[d] \in 0..w - 1
    BY <1>2
  <2> QED BY <1>3, <2>1 DEF Surjection
<1>5. IsFiniteSet(first)
  BY FS_Subset
<1>6. IsFiniteSet(0..w - 1) /\ Cardinality(0..w - 1) = w
  <2>1. 0 \in Int /\ w - 1 \in Int
    OBVIOUS
  <2>2. IsFiniteSet(0..w - 1)
        /\ Cardinality(0..w - 1) = IF 0 > w - 1 THEN 0 ELSE w - 1 - 0 + 1
    BY <2>1, FS_Interval
  <2> QED BY <2>2
<1> HIDE DEF f, first
<1>7. Cardinality(0..w - 1) <= Cardinality(first)
  BY <1>4, <1>5, FS_Surjection
<1> QED
  BY <1>5, <1>6, <1>7, FS_CardinalityType DEF first

\* An exhaustive policy stops on a complete tree only; otherwise it keeps its
\* workers busy, or looks at all there is to look at.
LEMMA LeavesNothingOut ==
  ASSUME NEW cfg \in Policies, Exhaustive(cfg),
         NEW run, WellFormed(run), Full(run), NEW t, WellGrown(run.tree, t)
  PROVE  \/ Complete(run.tree)
         \/ Cardinality(Able(cfg, run)) >= cfg.workers
         \/ \A c \in Candidates(cfg, run) : c \in Able(cfg, run)
<1> DEFINE all == Candidates(cfg, run)
           chosen == Selected(cfg, run)
           w == cfg.workers
<1>1. /\ all \in SUBSET Candidate /\ IsFiniteSet(all)
      /\ w \in Nat \ {0} /\ cfg.max_nodes \in Nat /\ cfg.stop_threshold \in Int
  BY CandidatesType, PoliciesAssumption
\* Whoever is selected can be expanded.
<1>2. \A c \in all : CanExpand(run.tree, c.id)
  <2> TAKE c \in all
  <2>1. CASE c.id = Root /\ RootChildren(run) < cfg.max_branches
    <3>1. Unopened(run.tree) # {}
      BY <2>1, OpenBranches DEF Exhaustive
    <3> QED BY <2>1, <3>1 DEF CanExpand
  <2>2. CASE c.id # Root /\ run.tree[c.id].depth < MaxDepth
    BY <2>2 DEF CanExpand
  <2> QED BY <2>1, <2>2, CandidateIds
<1>3. Able(cfg, run) = chosen
  BY <1>2, CandidateIds DEF Able
<1>4. CASE Stops(cfg, run)
  <2>1. run.last_best \in 0..100
    BY DEF WellFormed, RunType
  <2>2. Requests(run) >= cfg.max_nodes
    BY <1>1, <1>4, <2>1 DEF Stops, Exhaustive
  <2> DEFINE room == MaxDepth * Branches
  <2>3. Requests(run) = Len(run.tree) /\ Len(run.tree) \in Nat
    BY OnlinePlaces
  <2>4. room \in Int /\ cfg.max_nodes >= room
    BY SizesAssumption DEF Exhaustive, MaxDepth
  <2>5. Len(run.tree) >= room => Complete(run.tree)
    BY RoomForNodes
  <2> HIDE DEF room
  <2> QED BY <1>1, <2>2, <2>3, <2>4, <2>5
<1>5. CASE ~Stops(cfg, run)
  <2>1. chosen = {c \in all : Rank(all, c) < w}
    BY <1>5 DEF Selected
  <2>2. CASE \A c \in all : Rank(all, c) < w
    BY <1>3, <2>1, <2>2
  <2>3. CASE \E c \in all : ~(Rank(all, c) < w)
    <3> HIDE DEF all, w
    <3>1. Cardinality(chosen) >= w
      BY <1>1, <2>1, <2>3, WorkersBusy
    <3> QED BY <1>3, <3>1 DEF w
  <2> QED BY <2>2, <2>3
<1> QED
  BY <1>4, <1>5

\* Then what follows on a place, and the next branch, are not missed.
LEMMA NextPlaces ==
  ASSUME NEW cfg \in Policies, Exhaustive(cfg),
         NEW run, WellFormed(run), Full(run), NEW t, WellGrown(run.tree, t),
         \A c \in Candidates(cfg, run) : c \in Able(cfg, run)
  PROVE  /\ \A b \in 1..Branches, d \in 2..MaxDepth :
              <<b, d - 1>> \in Places(run) => <<b, d>> \in Places(run) \cup Reached(cfg, t, run)
         /\ \A b \in 1..Branches :
              (\A a \in 1..b - 1 : <<a, 1>> \in Places(run)) =>
                <<b, 1>> \in Places(run) \cup Reached(cfg, t, run)
         /\ Able(cfg, run) = {} => Unopened(run.tree) = {}
<1> DEFINE tree == run.tree
<1>1. /\ Places(run) = {Place(tree, n) : n \in DOMAIN tree}
      /\ DOMAIN tree \in SUBSET (Nat \ {Root})
      /\ \A n \in DOMAIN tree :
           /\ tree[n].branch \in 1..Branches /\ tree[n].depth \in 1..MaxDepth
           /\ n \in Leaves(tree, run.revealed) <=>
                ~ \E m \in DOMAIN tree : Place(tree, m) = <<tree[n].branch, tree[n].depth + 1>>
  BY OnlinePlaces
<1>2. ASSUME NEW b \in 1..Branches, NEW d \in 2..MaxDepth,
             <<b, d - 1>> \in Places(run), <<b, d>> \notin Places(run)
      PROVE  <<b, d>> \in Reached(cfg, t, run)
  <2>1. PICK n \in DOMAIN tree : Place(tree, n) = <<b, d - 1>>
    BY <1>1, <1>2
  <2>2. tree[n].branch = b /\ tree[n].depth = d - 1 /\ tree[n].depth + 1 = d /\ n # Root
    BY <1>1, <2>1 DEF Place, MaxDepth
  <2>3. ~ \E m \in DOMAIN tree : Place(tree, m) = <<b, d>>
    BY <1>1, <1>2
  <2>4. n \in Leaves(tree, run.revealed) /\ tree[n].depth < MaxDepth
    BY <1>1, <2>2, <2>3 DEF MaxDepth
  <2>5. PICK c \in Candidates(cfg, run) : c.id = n
    BY <2>4, CandidateIds
  <2>6. c \in Able(cfg, run)
    BY <2>5
  <2>7. Expanded(t, tree, c.id).branch = b /\ Expanded(t, tree, c.id).depth = d
    BY <2>2, <2>5, ExpandedPlace
  <2> QED BY <2>6, <2>7 DEF Reached
<1>3. ASSUME Unopened(tree) # {}
      PROVE  \E c \in Able(cfg, run) : c.id = Root
  <2>1. RootChildren(run) < cfg.max_branches
    BY <1>3, OpenBranches DEF Exhaustive
  <2> QED BY <2>1, CandidateIds
<1>4. ASSUME NEW b \in 1..Branches, \A a \in 1..b - 1 : <<a, 1>> \in Places(run),
             <<b, 1>> \notin Places(run)
      PROVE  <<b, 1>> \in Reached(cfg, t, run)
  <2> DEFINE low == MinOf(Unopened(tree))
  <2>1. /\ b \in Unopened(tree)
        /\ \A a \in Unopened(tree) : a \in 1..Branches /\ <<a, 1>> \notin Places(run)
    <3>1. Unopened(tree) \subseteq 1..Branches
      BY DEF Unopened
    <3> QED BY <1>4, <3>1, OpenBranches
  <2>2. low \in Unopened(tree) /\ low <= b
    <3>1. Unopened(tree) \in SUBSET Nat
      BY DEF Unopened
    <3> QED BY <2>1, <3>1, MinIsLeast
  <2>3. low = b
    <3> HIDE DEF low
    <3>1. low \in 1..Branches /\ low \notin 1..b - 1
      BY <1>4, <2>1, <2>2
    <3> QED BY <2>2, <3>1
  <2>4. PICK c \in Able(cfg, run) : c.id = Root
    BY <1>3, <2>1
  <2>5. Expanded(t, tree, c.id).branch = b /\ Expanded(t, tree, c.id).depth = 1
    BY <2>3, <2>4, ExpandedPlace
  <2> QED BY <2>4, <2>5 DEF Reached
<1> QED
  BY <1>2, <1>3, <1>4

\* Places of a tree stay, and those reached are added.
LEMMA GrownPlaces ==
  ASSUME NEW run, WellFormed(run), Full(run), NEW t \in 1..Branches,
         WellGrown(run.tree, t), NEW cfg \in Policies, Able(cfg, run) # {}
  PROVE  LET next == Grown(t, run, Able(cfg, run))
         IN  /\ Places(run) \cup Reached(cfg, t, run) \subseteq Places(next)
             /\ Len(next.tree) = Len(run.tree) + Cardinality(Able(cfg, run))
             /\ Cardinality(Able(cfg, run)) \in Nat
<1> DEFINE able == Able(cfg, run)
           next == Grown(t, run, able)
           At(c) == Len(run.tree) + 1 + Rank(able, c)
<1>1. /\ WellFormed(next) /\ Full(next)
      /\ DOMAIN next.tree = 1..Len(run.tree) + Cardinality(able)
      /\ Begins(run.tree, next.tree) /\ Cardinality(able) \in Nat
      /\ \A c \in able : At(c) \in DOMAIN next.tree /\ next.tree[At(c)] = Expanded(t, run.tree, c.id)
  BY NewNode
<1>2. WellGrown(next.tree, t)
  BY GrowsWell
<1> HIDE DEF next, able, At
<1>3. Places(next) = {Place(next.tree, n) : n \in DOMAIN next.tree}
  BY <1>1, <1>2, OnlinePlaces
<1>4. /\ Places(run) = {Place(run.tree, n) : n \in DOMAIN run.tree}
      /\ DOMAIN run.tree = 1..Len(run.tree) /\ Len(run.tree) \in Nat
  BY OnlinePlaces
<1>5. Places(run) \subseteq Places(next)
  <2>1. \A n \in DOMAIN run.tree : n \in DOMAIN next.tree /\ Place(next.tree, n) = Place(run.tree, n)
    BY <1>1, <1>4 DEF Begins, Place
  <2> QED BY <1>3, <1>4, <2>1
<1>6. Reached(cfg, t, run) \subseteq Places(next)
  <2>1. \A c \in able : Place(next.tree, At(c)) \in Places(next)
    BY <1>1, <1>3
  <2>2. \A c \in able : Place(next.tree, At(c))
          = <<Expanded(t, run.tree, c.id).branch, Expanded(t, run.tree, c.id).depth>>
    BY <1>1 DEF Place
  <2> QED BY <2>1, <2>2 DEF Reached, able
<1>7. Len(next.tree) = Len(run.tree) + Cardinality(able)
  BY <1>1, <1>4, RevealedFinite
<1> QED
  BY <1>1, <1>5, <1>6, <1>7 DEF next, able

\* How far an exhaustive run is: u rounds had a worker to spare and opened a
\* branch or followed one; all workers were busy in the others.
Paced(run, cfg) ==
  \E u \in 0..Len(run.rounds) :
    /\ u <= Branches + MaxDepth - 1
    /\ cfg.workers * (Len(run.rounds) - u) + u <= Len(run.tree)
    /\ \A b \in 1..Branches, d \in 1..MaxDepth : b + d - 1 <= u => <<b, d>> \in Places(run)

\* A product grows with each factor.
LEMMA ProductsGrow ==
  ASSUME NEW w \in Nat, NEW k \in Nat, NEW m \in Nat, k <= m
  PROVE  /\ w * k \in Nat /\ w * m \in Nat /\ w * k <= w * m
         /\ w * (m - k) = w * m - w * k
<1> DEFINE z == m - k
<1>1. z \in Nat /\ m = k + z
  OBVIOUS
<1> HIDE DEF z
<1>2. w * k \in Nat /\ w * z \in Nat
  BY <1>1
<1>3. w * (k + z) = w * k + w * z
  BY <1>1
<1> QED
  BY <1>1, <1>2, <1>3 DEF z

\* So it is not the limit on rounds that ends it.
LEMMA RoundsSuffice ==
  ASSUME NEW cfg \in Policies, Exhaustive(cfg), NEW t,
         NEW run, WellFormed(run), Full(run), WellGrown(run.tree, t), Paced(run, cfg)
  PROVE  Len(run.rounds) # MaxRounds
<1> SUFFICES ASSUME Len(run.rounds) = MaxRounds PROVE FALSE
  OBVIOUS
<1> DEFINE w == cfg.workers
           room == MaxDepth * Branches
           most == Branches + MaxDepth - 1
           lost == (w - 1) * most
           all == w * MaxRounds
<1>1. w \in Nat \ {0} /\ MaxRounds \in Nat /\ most \in Nat /\ room \in Nat
  BY PoliciesAssumption, SizesAssumption DEF MaxDepth
<1>2. PICK u \in 0..MaxRounds : u <= most /\ w * (MaxRounds - u) + u <= Len(run.tree)
  BY DEF Paced
<1>3. Len(run.tree) <= room /\ Len(run.tree) \in Nat
  BY RoomForNodes, OnlinePlaces
<1>4. room + lost < all
  BY DEF Exhaustive
<1> HIDE DEF w, room, most
<1>5. /\ w * (MaxRounds - u) = all - w * u
      /\ all \in Nat /\ w * u \in Nat
  BY <1>1, ProductsGrow
<1>6. (w - 1) * u <= lost /\ lost \in Nat /\ (w - 1) * u \in Nat
  BY <1>1, <1>2, ProductsGrow
<1>7. (w - 1) * u = w * u - u
  BY <1>1
<1> HIDE DEF lost, all
<1> DEFINE spared == w * u
           busy == (w - 1) * u
<1>8. all - spared + u <= room /\ busy = spared - u /\ busy <= lost
  BY <1>1, <1>2, <1>3, <1>5, <1>6, <1>7
<1> QED
  <2> HIDE DEF spared, busy
  <2>1. spared \in Nat /\ busy \in Nat /\ u \in Nat
    BY <1>5, <1>6, <1>1 DEF spared, busy
  <2> QED BY <1>1, <1>4, <1>5, <1>6, <1>8, <2>1

\* The diagnosis is at the end of the branch of the fault.
Truthful(tree, t) ==
  \A n \in DOMAIN tree : tree[n].diagnosed = (Place(tree, n) = <<t, MaxDepth>>)

\* Online rounds keep it so.
LEMMA StaysTruthful ==
  ASSUME NEW cfg \in Policies, NEW t \in 1..Branches, NEW run,
         Sound(run, cfg), Full(run), Running(run), WellGrown(run.tree, t), Truthful(run.tree, t)
  PROVE  Truthful(RolloutRound(cfg, t, run).tree, t)
<1> DEFINE seen == Observed(run)
           able == Able(cfg, seen)
           next == Grown(t, seen, able)
           At(c) == Len(seen.tree) + 1 + Rank(able, c)
<1>1. OneBranchEach(run.tree)
  BY StaysWellGrown
<1>2. /\ WellFormed(seen) /\ Full(seen) /\ seen.tree = run.tree
  BY ObservedKeeps DEF Sound, Full
<1>3. \/ able # {} /\ RolloutRound(cfg, t, run) = next
      \/ RolloutRound(cfg, t, run).tree = run.tree
  BY <1>1, GrowsOrEnds
<1>4. CASE able # {}
  <2> HIDE DEF seen
  <2>1. /\ DOMAIN next.tree = 1..Len(seen.tree) + Cardinality(able)
        /\ Begins(seen.tree, next.tree)
        /\ \A c \in able : next.tree[At(c)] = Expanded(t, seen.tree, c.id)
        /\ \A n \in DOMAIN next.tree : n > Len(seen.tree) => \E c \in able : n = At(c)
    BY <1>2, <1>4, NewNode
  <2>2. DOMAIN seen.tree = 1..Len(seen.tree) /\ Len(seen.tree) \in Nat
    BY <1>2, RevealedFinite
  <2> HIDE DEF next, able, At
  <2>3. ASSUME NEW n \in DOMAIN next.tree
        PROVE  next.tree[n].diagnosed = (Place(next.tree, n) = <<t, MaxDepth>>)
    <3>1. CASE n \in 1..Len(seen.tree)
      <4>1. next.tree[n] = seen.tree[n]
        BY <2>1, <3>1 DEF Begins
      <4>2. n \in DOMAIN run.tree /\ seen.tree[n] = run.tree[n]
        BY <1>2, <2>2, <3>1
      <4>3. run.tree[n].diagnosed = (Place(run.tree, n) = <<t, MaxDepth>>)
        BY <4>2 DEF Truthful
      <4>4. Place(next.tree, n) = Place(run.tree, n) /\ next.tree[n].diagnosed = run.tree[n].diagnosed
        BY <4>1, <4>2 DEF Place
      <4> QED BY <4>3, <4>4
    <3>2. CASE n \notin 1..Len(seen.tree)
      <4>1. n > Len(seen.tree)
        BY <2>1, <2>2, <3>2
      <4>2. PICK c \in able : n = At(c)
        BY <2>1, <4>1
      <4>3. next.tree[n] = Expanded(t, seen.tree, c.id)
        BY <2>1, <4>2
      <4>4. LET node == Expanded(t, seen.tree, c.id)
            IN  node.diagnosed = (node.branch = t /\ node.depth = MaxDepth)
        BY DEF Expanded
      <4> QED BY <4>3, <4>4 DEF Place
    <3> QED BY <3>1, <3>2
  <2>4. Truthful(next.tree, t)
    BY <2>3 DEF Truthful
  <2> QED BY <1>3, <2>4 DEF next, able
<1> QED
  BY <1>3, <1>4

\* Every round of an exhaustive run keeps its pace, and its last one leaves
\* nothing out.
LEMMA PaceIsKept ==
  ASSUME NEW cfg \in Policies, Exhaustive(cfg), NEW t \in 1..Branches, NEW run,
         Sound(run, cfg), Full(run), Running(run), WellGrown(run.tree, t), Paced(run, cfg)
  PROVE  LET next == RolloutRound(cfg, t, run)
         IN  IF Running(next) THEN Paced(next, cfg) ELSE Complete(next.tree)
<1> DEFINE seen == Observed(run)
           able == Able(cfg, seen)
           next == RolloutRound(cfg, t, run)
           new == Len(run.tree) + 1 .. Len(run.tree) + Cardinality(able)
           n == Len(run.rounds)
           w == cfg.workers
           most == Branches + MaxDepth - 1
<1>1. OneBranchEach(run.tree)
  BY StaysWellGrown
<1>2. /\ WellFormed(seen) /\ Full(seen) /\ seen.tree = run.tree /\ WellGrown(seen.tree, t)
      /\ seen.revealed = run.revealed /\ seen.rounds = run.rounds
      /\ n \in Nat /\ run.rounds \in Seq(SUBSET Nat) /\ Len(run.tree) \in Nat
      /\ w \in Nat \ {0} /\ most \in Nat /\ Branches \in Nat
  <2>1. WellFormed(run) /\ run.rounds \in Seq(SUBSET Nat)
    BY DEF Sound, WellFormed, RunType
  <2>2. n \in Nat /\ Len(run.tree) \in Nat
    BY <2>1, RevealedFinite
  <2>3. w \in Nat \ {0} /\ most \in Nat /\ Branches \in Nat
    BY PoliciesAssumption, SizesAssumption DEF MaxDepth
  <2>4. /\ WellFormed(seen) /\ seen.tree = run.tree
        /\ seen.revealed = run.revealed /\ seen.rounds = run.rounds
    BY <2>1, ObservedKeeps
  <2> HIDE DEF seen, n, w, most
  <2> QED BY <2>1, <2>2, <2>3, <2>4 DEF Full
<1>3. Places(seen) = Places(run)
  BY <1>2 DEF Places
<1>4. \/ Running(next) /\ able # {} /\ next = Grown(t, seen, able)
         /\ next.rounds = Append(run.rounds, new)
      \/ ~Running(next) /\ (n = MaxRounds \/ able = {}) /\ next.tree = run.tree
  BY <1>1, GrowsOrEnds
<1>5. n # MaxRounds
  BY RoundsSuffice DEF Sound
<1>6. \/ Complete(seen.tree)
      \/ Cardinality(able) >= w
      \/ \A c \in Candidates(cfg, seen) : c \in able
  <2> HIDE DEF seen
  <2> QED BY <1>2, LeavesNothingOut
<1>7. (\A c \in Candidates(cfg, seen) : c \in able) =>
        /\ \A b \in 1..Branches, d \in 2..MaxDepth :
             <<b, d - 1>> \in Places(seen) => <<b, d>> \in Places(seen) \cup Reached(cfg, t, seen)
        /\ \A b \in 1..Branches :
             (\A a \in 1..b - 1 : <<a, 1>> \in Places(seen)) =>
               <<b, 1>> \in Places(seen) \cup Reached(cfg, t, seen)
        /\ able = {} => Unopened(seen.tree) = {}
  <2> HIDE DEF seen
  <2> QED BY <1>2, NextPlaces
<1>8. /\ Places(seen) = {Place(seen.tree, m) : m \in DOMAIN seen.tree}
      /\ \A b \in 1..Branches : b \in Unopened(seen.tree) <=> <<b, 1>> \notin Places(seen)
  <2> HIDE DEF seen
  <2> QED BY <1>2, OnlinePlaces, OpenBranches
<1>9. able # {} =>
        /\ Places(seen) \cup Reached(cfg, t, seen) \subseteq Places(Grown(t, seen, able))
        /\ Len(Grown(t, seen, able).tree) = Len(seen.tree) + Cardinality(able)
        /\ Cardinality(able) \in Nat
  <2> HIDE DEF seen
  <2> QED BY <1>2, GrownPlaces
<1>10. able # {} => Cardinality(able) > 0 /\ ~Complete(seen.tree)
  <2> HIDE DEF seen
  <2>1. able \in SUBSET Selected(cfg, seen)
    BY DEF Able
  <2>2. able # {} => Cardinality(able) > 0
    <3> HIDE DEF able
    <3> QED BY <1>2, <2>1, SelectedBound
  <2> QED BY <1>2, <2>2, NothingLeft
<1>11. CASE able = {}
  <2> HIDE DEF seen
  <2>1. ~Running(next) /\ next.tree = seen.tree
    BY <1>2, <1>4, <1>11
  <2>2. Complete(seen.tree)
    <3>1. Cardinality(able) = 0
      BY <1>11, FS_EmptySet
    <3> SUFFICES ASSUME \A c \in Candidates(cfg, seen) : c \in able
                 PROVE  Complete(seen.tree)
      BY <1>2, <1>6, <3>1
    <3>2. Reached(cfg, t, seen) = {}
      BY <1>11 DEF Reached
    <3>3. ASSUME NEW b \in 1..Branches
          PROVE  <<b, 1>> \in Places(seen) /\ <<b, 2>> \in Places(seen) /\ <<b, 3>> \in Places(seen)
      <4>1. <<b, 1>> \in Places(seen)
        BY <1>7, <1>8, <1>11
      <4>2. \A d \in 2..3 : <<b, d - 1>> \in Places(seen) => <<b, d>> \in Places(seen)
        BY <1>7, <3>2 DEF MaxDepth
      <4>3. <<b, 2>> \in Places(seen)
        <5>1. 2 \in 2..3 /\ 2 - 1 = 1
          OBVIOUS
        <5> QED BY <4>1, <4>2, <5>1
      <4>4. <<b, 3>> \in Places(seen)
        <5>1. 3 \in 2..3 /\ 3 - 1 = 2
          OBVIOUS
        <5> QED BY <4>2, <4>3, <5>1
      <4> QED BY <4>1, <4>3, <4>4
    <3>4. \A b \in 1..Branches, d \in 1..MaxDepth : <<b, d>> \in Places(seen)
      <4>1. \A d \in 1..MaxDepth : d = 1 \/ d = 2 \/ d = 3
        BY DEF MaxDepth
      <4> QED BY <3>3, <4>1
    <3> QED BY <1>8, <3>4 DEF Complete
  <2> HIDE DEF next
  <2> QED BY <2>1, <2>2 DEF next
<1>12. CASE able # {}
  <2>1. /\ Running(next) /\ next = Grown(t, seen, able) /\ next.rounds = Append(run.rounds, new)
    BY <1>4, <1>5, <1>12
  <2>2. Len(next.rounds) = n + 1
    <3>1. new \in SUBSET Nat
      BY <1>2
    <3> HIDE DEF next, new
    <3> QED BY <1>2, <2>1, <3>1, AppendProperties
  <2>3. PICK u \in 0..n :
          /\ u <= most
          /\ w * (n - u) + u <= Len(run.tree)
          /\ \A b \in 1..Branches, d \in 1..MaxDepth : b + d - 1 <= u => <<b, d>> \in Places(run)
    BY DEF Paced
  <2>4. /\ Places(run) \cup Reached(cfg, t, seen) \subseteq Places(next)
        /\ Len(next.tree) = Len(run.tree) + Cardinality(able)
        /\ Cardinality(able) \in Nat \ {0}
    BY <1>2, <1>3, <1>9, <1>10, <1>12, <2>1
  <2>5. /\ w * (n - u) \in Nat
        /\ w * ((n + 1) - u) = w * (n - u) + w
    <3> DEFINE k == n - u
    <3>1. k \in Nat /\ (n + 1) - u = k + 1
      BY <1>2
    <3> HIDE DEF k, w
    <3>2. w * (k + 1) = w * k + w /\ w * k \in Nat
      BY <1>2, <3>1
    <3> QED BY <3>1, <3>2 DEF k
  <2> HIDE DEF next, able, seen, new, n, w
  <2> DEFINE before == w * (n - u)
  <2>6. CASE Cardinality(able) >= w
    <3>1. w * ((n + 1) - u) + u <= Len(next.tree)
      <4>1. before \in Nat /\ w * ((n + 1) - u) = before + w /\ before + u <= Len(run.tree)
        BY <2>3, <2>5
      <4> HIDE DEF before
      <4> QED BY <1>2, <2>4, <2>6, <4>1
    <3>2. u \in 0..n + 1
      BY <1>2
    <3>3. Paced(next, cfg)
      BY <2>2, <2>3, <2>4, <3>1, <3>2 DEF Paced, most, w
    <3> QED BY <2>1, <3>3 DEF next
  <2>7. CASE \A c \in Candidates(cfg, seen) : c \in able
    <3> DEFINE v == u + 1
    <3>1. \A b \in 1..Branches, d \in 1..MaxDepth : b + d - 1 <= v => <<b, d>> \in Places(next)
      <4> SUFFICES ASSUME NEW b \in 1..Branches, NEW d \in 1..MaxDepth, b + d - 1 <= v
                   PROVE  <<b, d>> \in Places(next)
        OBVIOUS
      <4>1. CASE d = 1
        <5>1. \A a \in 1..b - 1 : <<a, 1>> \in Places(seen)
          <6> TAKE a \in 1..b - 1
          <6>1. a \in 1..Branches /\ a + 1 - 1 <= u /\ 1 \in 1..MaxDepth
            BY <1>2, <4>1 DEF MaxDepth
          <6> QED BY <1>3, <2>3, <6>1
        <5> QED BY <1>3, <1>7, <2>4, <2>7, <4>1, <5>1
      <4>2. CASE d # 1
        <5>1. d \in 2..MaxDepth /\ d - 1 \in 1..MaxDepth /\ b + (d - 1) - 1 <= u
          BY <4>2 DEF MaxDepth
        <5>2. <<b, d - 1>> \in Places(seen)
          BY <1>3, <2>3, <5>1
        <5> QED BY <1>3, <1>7, <2>4, <2>7, <5>1, <5>2
      <4> QED BY <4>1, <4>2
    <3>2. v <= most
      <4> SUFFICES ASSUME ~(v <= most) PROVE FALSE
        OBVIOUS
      <4>1. u = most
        BY <1>2, <2>3
      <4>2. \A b \in 1..Branches, d \in 1..MaxDepth : b + d - 1 <= most
        BY <1>2 DEF MaxDepth
      <4>3. Complete(seen.tree)
        BY <1>3, <1>8, <2>3, <4>1, <4>2 DEF Complete
      <4> QED BY <1>10, <1>12, <4>3
    <3>3. w * ((n + 1) - v) + v <= Len(next.tree)
      <4>1. (n + 1) - v = n - u
        BY <1>2
      <4>2. before \in Nat /\ w * ((n + 1) - v) = before /\ before + u <= Len(run.tree)
        BY <2>3, <2>5, <4>1
      <4> HIDE DEF before
      <4> QED BY <1>2, <2>4, <4>2
    <3>4. v \in 0..n + 1
      BY <1>2
    <3> HIDE DEF v
    <3>5. Paced(next, cfg)
      BY <2>2, <3>1, <3>2, <3>3, <3>4 DEF Paced, most, w
    <3> QED BY <2>1, <3>5 DEF next
  <2> QED BY <1>6, <1>10, <1>12, <2>6, <2>7
<1> QED
  BY <1>11, <1>12

\* What holds of the tree that is recorded, and of the two runs over it.
PaceInv ==
  /\ Truthful(recorded.tree, target)
  /\ Exhaustive(recorder) =>
       IF Running(recorded) THEN Paced(recorded, recorder) ELSE Complete(recorded.tree)
  /\ (TellsApart(learner) /\ Exhaustive(recorder) /\ replayed.reason # "waiting")
       => Matches(replayed, own)

\* An exhaustive policy finds every fault, and every replay of its trees is the
\* online run of the policy replayed, to the last round: for every policy whose
\* values tell different nodes apart, and any number of branches and workers.
THEOREM ExhaustiveTreesAreSafe == Spec => [](TellsApart(learner) => SafeButExpensive)
<1>1. Init /\ RunsAreSound /\ HonestInv => PaceInv
  <2> SUFFICES ASSUME Init, RunsAreSound, HonestInv PROVE PaceInv
    OBVIOUS
  <2>1. recorded = StartRun(<< >>) /\ replayed = Ended(StartRun(<< >>), "waiting")
    BY DEF Init, Ended
  <2>2. /\ recorded.tree = << >> /\ recorded.rounds = << >> /\ Running(recorded)
        /\ replayed.reason = "waiting"
    BY <2>1 DEF Ended, StartRun, Running
  <2>3. Len(<< >>) = 0 /\ DOMAIN << >> = {}
    BY EmptySeq
  <2>4. Paced(recorded, recorder)
    <3>1. recorder.workers \in Nat /\ Branches \in Nat /\ Branches + MaxDepth - 1 \in Nat
      BY PoliciesAssumption, SizesAssumption DEF RunsAreSound, MaxDepth
    <3>2. recorder.workers * (0 - 0) + 0 <= 0
      BY <3>1
    <3>3. \A b \in 1..Branches, d \in 1..MaxDepth : ~(b + d - 1 <= 0)
      BY <3>1 DEF MaxDepth
    <3>4. 0 \in 0..0 /\ 0 <= Branches + MaxDepth - 1
      BY <3>1
    <3> QED BY <2>2, <2>3, <3>2, <3>3, <3>4 DEF Paced
  <2> QED BY <2>2, <2>3, <2>4 DEF PaceInv, Truthful
<1>2. RunsAreSound /\ RunsAreSound' /\ HonestInv /\ PaceInv /\ [Next]_vars => PaceInv'
  <2> SUFFICES ASSUME RunsAreSound, RunsAreSound', HonestInv, PaceInv, [Next]_vars
               PROVE  PaceInv'
    OBVIOUS
  <2>1. CASE Record
    <3>1. /\ recorded' = RolloutRound(recorder, target, recorded) /\ Running(recorded)
          /\ UNCHANGED <<target, recorder, learner, replayed, own>>
          /\ replayed.reason = "waiting"
      BY <2>1 DEF Record, HonestInv
    <3>2. Truthful(recorded'.tree, target)
      BY <3>1, StaysTruthful DEF RunsAreSound, HonestInv, PaceInv
    <3>3. Exhaustive(recorder) =>
            IF Running(recorded') THEN Paced(recorded', recorder) ELSE Complete(recorded'.tree)
      BY <3>1, PaceIsKept DEF RunsAreSound, HonestInv, PaceInv
    <3> QED BY <3>1, <3>2, <3>3 DEF PaceInv
  <2>2. ASSUME replayed'.reason # "waiting", own' = own, own = StartRun(<< >>), Sound(replayed', learner)
        PROVE  Matches(replayed', own')
    <3>1. own.rounds = << >> /\ Len(<< >>) = 0 /\ Running(own)
      BY <2>2, EmptySeq DEF StartRun, Running
    <3>2. Len(replayed'.rounds) \in Nat
      BY <2>2, RevealedFinite DEF Sound
    <3> QED BY <2>2, <3>1, <3>2 DEF Matches, Agree
  <2>3. CASE BeginReplay \/ ReplayOnce
    <3>1. /\ UNCHANGED <<target, recorder, learner, recorded, own>>
          /\ own = StartRun(<< >>)
      BY <2>3 DEF BeginReplay, ReplayOnce, HonestInv, Running
    <3>2. replayed'.reason # "waiting" => Matches(replayed', own')
      BY <2>2, <3>1 DEF RunsAreSound
    <3> QED BY <3>1, <3>2 DEF PaceInv
  <2>4. CASE Explore
    <3>1. /\ own' = RolloutRound(learner, target, own) /\ Running(own)
          /\ UNCHANGED <<target, recorder, learner, recorded, replayed>>
          /\ ~Running(recorded) /\ ~Running(replayed) /\ replayed.reason # "waiting"
      BY <2>4 DEF Explore
    <3>2. PICK h : /\ Retraces(learner, recorded.tree, replayed, h)
                   /\ TellsApart(learner) => Honest(replayed, own, h, target)
      BY <3>1 DEF HonestInv
    <3>3. ASSUME TellsApart(learner), Exhaustive(recorder)
          PROVE  Matches(replayed, own')
      <4>1. Complete(recorded.tree) /\ Matches(replayed, own)
        BY <3>1, <3>3 DEF PaceInv
      <4> QED BY <3>1, <3>2, <3>3, <4>1, ExploreMatches DEF RunsAreSound, HonestInv
    <3> QED BY <3>1, <3>3 DEF PaceInv
  <2>5. CASE UNCHANGED vars
    BY <2>5 DEF vars, PaceInv
  <2> QED BY <2>1, <2>3, <2>4, <2>5 DEF Next
<1>3. RunsAreSound /\ HonestInv /\ PaceInv => (TellsApart(learner) => SafeButExpensive)
  <2> SUFFICES ASSUME RunsAreSound, HonestInv, PaceInv, TellsApart(learner),
                      Exhaustive(recorder), ~Running(own)
               PROVE  /\ \E n \in recorded.revealed \ {Root} : recorded.tree[n].diagnosed
                      /\ \A k \in DOMAIN replayed.rounds \cup DOMAIN own.rounds :
                           SameRound(replayed, own, k)
    BY DEF SafeButExpensive
  <2>1. replayed.reason # "waiting" /\ ~Running(recorded)
    <3>1. Running(StartRun(<< >>))
      BY DEF Running, StartRun
    <3> QED BY <3>1 DEF HonestInv
  <2>2. Complete(recorded.tree) /\ Matches(replayed, own)
    BY <2>1 DEF PaceInv
  <2>3. \E n \in recorded.revealed \ {Root} : recorded.tree[n].diagnosed
    <3>1. target \in 1..Branches /\ MaxDepth \in 1..MaxDepth
      BY DEF RunsAreSound, MaxDepth
    <3>2. PICK n \in DOMAIN recorded.tree : Place(recorded.tree, n) = <<target, MaxDepth>>
      BY <2>2, <3>1 DEF Complete
    <3>3. recorded.tree[n].diagnosed
      BY <3>2 DEF PaceInv, Truthful
    <3>4. DOMAIN recorded.tree = recorded.revealed \ {Root}
      BY OnlinePlaces DEF RunsAreSound, Sound, HonestInv
    <3> QED BY <3>3, <3>4
  <2>4. /\ DOMAIN replayed.rounds = 1..Len(replayed.rounds)
        /\ DOMAIN own.rounds = 1..Len(own.rounds)
    BY RevealedFinite DEF RunsAreSound, Sound
  <2>5. /\ Len(own.rounds) = Len(replayed.rounds)
        /\ \A k \in 1..Len(own.rounds) : Looked(replayed, k) = Looked(own, k)
    BY <2>2 DEF Matches, Agree
  <2> QED BY <2>3, <2>4, <2>5 DEF SameRound
<1> QED BY <1>1, <1>2, <1>3, HonestInvHolds, SoundnessHolds, PTL DEF Spec
=============================================================================
