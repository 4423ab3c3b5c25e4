----------------------------- MODULE ShippedProofs -----------------------------
(***************************************************************************)
(* The shipped BGP procedure meets the conditions of the engine's          *)
(* theorems, for every incident and every result that a tool can return;   *)
(* what it says about the lab network is true of it; and over the recorded *)
(* fixtures it finds the fault of every scenario.                          *)
(***************************************************************************)
EXTENDS LabInvestigation, FixtureSuite, VerdictProofs

-----------------------------------------------------------------------------
(* The three tables: evaluators, transitions, terminal steps.              *)

\* All that the evaluator of a step can return.
Sayings ==
  [bgp_summary        |-> {Says("unavailable"), Says("established"), Says("not_established")},
   interface_state    |-> {Says("unavailable"), Says("up"), Proves("down", "interface_down")},
   peer_reachability  |-> {Says("reachable"), Proves("unreachable", "peer_unreachable")},
   firewall_policy    |-> {Says("unavailable"), Says("clear"), Proves("blocked", "tcp_179_blocked")},
   peer_configuration |-> {Says("unavailable"), Says("matched"),
                           Proves("shutdown", "neighbor_shutdown"),
                           Proves("asn_mismatch", "asn_mismatch")},
   route_presence     |-> {Says("unavailable"), Says("present"), Says("missing")},
   export_policy      |-> {Says("clear"), Proves("filtering", "route_map_filter")}]

LEMMA EvaluatorSays ==
  ASSUME NEW i, NEW s \in BgpActionSteps, NEW r \in BgpResults(s)
  PROVE  BgpEvaluate(i, s, r) \in Sayings[s]
<1>1. CASE s = "bgp_summary"
  BY <1>1 DEF BgpEvaluate, Summary, Sayings
<1>2. CASE s = "interface_state"
  BY <1>2 DEF BgpEvaluate, Interface, Sayings
<1>3. CASE s = "peer_reachability"
  BY <1>3 DEF BgpEvaluate, Reachability, Sayings
<1>4. CASE s = "firewall_policy"
  BY <1>4 DEF BgpEvaluate, Firewall, Sayings
<1>5. CASE s = "peer_configuration"
  BY <1>5 DEF BgpEvaluate, PeerConfig, Sayings
<1>6. CASE s = "route_presence"
  BY <1>6 DEF BgpEvaluate, RoutePresence, Sayings
<1>7. CASE s = "export_policy"
  BY <1>7 DEF BgpEvaluate, ExportPolicy, Sayings
<1> QED
  BY <1>1, <1>2, <1>3, <1>4, <1>5, <1>6, <1>7 DEF BgpActionSteps

LEMMA Evaluated ==
  ASSUME NEW i \in Incidents, NEW s \in ActionSteps, NEW r \in Results(s),
         Evaluates(i, s, r)
  PROVE  /\ s \in BgpActionSteps
         /\ r \in BgpResults(s)
         /\ Evaluate(i, s, r) = BgpEvaluate(i, s, r)
         /\ Evaluate(i, s, r) \in Sayings[s]
BY ShippedAssumption, EvaluatorSays

\* Where a diagnostic stands in the procedure: transitions lead upwards, but for
\* the two diagnostics of equal rank that lead to each other.
BgpRank ==
  [bgp_summary |-> 0, interface_state |-> 1, peer_reachability |-> 2,
   firewall_policy |-> 3, peer_configuration |-> 3,
   route_presence |-> 1, export_policy |-> 2]

\* Each outcome that an evaluator returns has a transition to a terminal step
\* or to one of higher rank.
LEMMA SayingsHaveWayOut ==
  ASSUME NEW s \in BgpActionSteps, NEW v \in Sayings[s]
  PROVE  \E e \in BgpTransitions :
           /\ e.source = s
           /\ e.outcome = v.outcome
           /\ e.target \in BgpActionSteps => BgpRank[s] < BgpRank[e.target]
<1> DEFINE WayOutBy(e) ==
             /\ e \in BgpTransitions
             /\ e.source = s
             /\ e.outcome = v.outcome
             /\ e.target \in BgpActionSteps => BgpRank[s] < BgpRank[e.target]
<1> SUFFICES \E e : WayOutBy(e)
  OBVIOUS
<1>1. CASE s = "bgp_summary"
  <2>1. \/ WayOutBy(Arc("bgp_summary", "not_established", "interface_state", 100))
        \/ WayOutBy(Arc("bgp_summary", "established", "route_presence", 100))
        \/ WayOutBy(Arc("bgp_summary", "unavailable", "escalate", 100))
    BY <1>1 DEF BgpTransitions, Arc, Sayings, Says, BgpActionSteps, BgpRank
  <2> QED
    BY <2>1
<1>2. CASE s = "interface_state"
  <2>1. \/ WayOutBy(Arc("interface_state", "down", "diagnosed_interface_down", 100))
        \/ WayOutBy(Arc("interface_state", "up", "peer_reachability", 100))
        \/ WayOutBy(Arc("interface_state", "unavailable", "escalate", 100))
    BY <1>2 DEF BgpTransitions, Arc, Sayings, Says, Proves, BgpActionSteps, BgpRank
  <2> QED
    BY <2>1
<1>3. CASE s = "peer_reachability"
  <2>1. \/ WayOutBy(Arc("peer_reachability", "unreachable", "diagnosed_peer_unreachable", 100))
        \/ WayOutBy(Arc("peer_reachability", "reachable", "firewall_policy", 60))
    BY <1>3 DEF BgpTransitions, Arc, Sayings, Says, Proves, BgpActionSteps, BgpRank
  <2> QED
    BY <2>1
<1>4. CASE s = "firewall_policy"
  <2>1. \/ WayOutBy(Arc("firewall_policy", "blocked", "diagnosed_tcp_blocked", 100))
        \/ WayOutBy(Arc("firewall_policy", "clear", "escalate", 10))
        \/ WayOutBy(Arc("firewall_policy", "unavailable", "escalate", 10))
    BY <1>4 DEF BgpTransitions, Arc, Sayings, Says, Proves, BgpActionSteps, BgpRank
  <2> QED
    BY <2>1
<1>5. CASE s = "peer_configuration"
  <2>1. \/ WayOutBy(Arc("peer_configuration", "asn_mismatch", "diagnosed_asn_mismatch", 100))
        \/ WayOutBy(Arc("peer_configuration", "shutdown", "diagnosed_neighbor_shutdown", 100))
        \/ WayOutBy(Arc("peer_configuration", "matched", "escalate", 10))
        \/ WayOutBy(Arc("peer_configuration", "unavailable", "escalate", 10))
    BY <1>5 DEF BgpTransitions, Arc, Sayings, Says, Proves, BgpActionSteps, BgpRank
  <2> QED
    BY <2>1
<1>6. CASE s = "route_presence"
  <2>1. \/ WayOutBy(Arc("route_presence", "present", "healthy", 100))
        \/ WayOutBy(Arc("route_presence", "missing", "export_policy", 100))
        \/ WayOutBy(Arc("route_presence", "unavailable", "escalate", 100))
    BY <1>6 DEF BgpTransitions, Arc, Sayings, Says, BgpActionSteps, BgpRank
  <2> QED
    BY <2>1
<1>7. CASE s = "export_policy"
  <2>1. \/ WayOutBy(Arc("export_policy", "filtering", "diagnosed_route_filter", 100))
        \/ WayOutBy(Arc("export_policy", "clear", "escalate", 100))
    BY <1>7 DEF BgpTransitions, Arc, Sayings, Says, Proves, BgpActionSteps, BgpRank
  <2> QED
    BY <2>1
<1> QED
  BY <1>1, <1>2, <1>3, <1>4, <1>5, <1>6, <1>7 DEF BgpActionSteps

\* Transitions never lead to a lower rank.
LEMMA RankNeverFalls ==
  ASSUME NEW e \in BgpTransitions, e.source \in BgpActionSteps, e.target \in BgpActionSteps
  PROVE  BgpRank[e.source] <= BgpRank[e.target]
BY DEF BgpTransitions, Arc, BgpActionSteps, BgpRank

LEMMA SayingsMatchTerminals ==
  ASSUME NEW s \in BgpActionSteps, NEW v \in Sayings[s],
         NEW e \in BgpTransitions, e.source = s, e.outcome = v.outcome
  PROVE  /\ (/\ e.target \in BgpTerminalSteps
             /\ BgpTerminalDiagnosis[e.target] \notin {"escalate", "no_fault_detected"})
              => v.diagnosis = BgpTerminalDiagnosis[e.target]
         /\ v.diagnosis # NoFault =>
              /\ e.target \in BgpTerminalSteps
              /\ BgpTerminalDiagnosis[e.target] = v.diagnosis
BY DEF BgpTransitions, Arc, Sayings, Says, Proves, BgpActionSteps, BgpTerminalDiagnosis, BgpTerminalSteps

\* What is proved is a fault.
LEMMA SayingsClaimFaults ==
  ASSUME NEW s \in BgpActionSteps, NEW v \in Sayings[s], v.diagnosis # NoFault
  PROVE  v.diagnosis \notin {"escalate", "no_fault_detected"}
BY DEF Sayings, Says, Proves, BgpActionSteps

\* An escalation has a lower priority than a diagnostic for the same outcome.
LEMMA TransitionsEscalateLast ==
  ASSUME NEW e \in BgpTransitions, NEW f \in BgpTransitions,
         e.source = f.source, e.outcome = f.outcome,
         e.target \in BgpTerminalSteps, BgpTerminalDiagnosis[e.target] = "escalate",
         f.target \in BgpActionSteps
  PROVE  e.priority < f.priority
<1>1. e.target = "escalate"
  BY DEF BgpTerminalDiagnosis, BgpTerminalSteps
<1> QED
  BY <1>1 DEF BgpTransitions, Arc, BgpActionSteps

LEMMA SevenDiagnostics == IsFiniteSet(BgpActionSteps) /\ Cardinality(BgpActionSteps) = 7
<1> DEFINE A1 == {"bgp_summary"}
           A2 == A1 \cup {"interface_state"}
           A3 == A2 \cup {"peer_reachability"}
           A4 == A3 \cup {"firewall_policy"}
           A5 == A4 \cup {"peer_configuration"}
           A6 == A5 \cup {"route_presence"}
           A7 == A6 \cup {"export_policy"}
<1>1. IsFiniteSet(A1) /\ Cardinality(A1) = 1
  BY FS_Singleton
<1>2. IsFiniteSet(A2) /\ Cardinality(A2) = 2
  <2>1. "interface_state" \notin A1
    OBVIOUS
  <2> HIDE DEF A1
  <2> QED
    BY <1>1, <2>1, FS_AddElement
<1>3. IsFiniteSet(A3) /\ Cardinality(A3) = 3
  <2>1. "peer_reachability" \notin A2
    OBVIOUS
  <2> HIDE DEF A2
  <2> QED
    BY <1>2, <2>1, FS_AddElement
<1>4. IsFiniteSet(A4) /\ Cardinality(A4) = 4
  <2>1. "firewall_policy" \notin A3
    OBVIOUS
  <2> HIDE DEF A3
  <2> QED
    BY <1>3, <2>1, FS_AddElement
<1>5. IsFiniteSet(A5) /\ Cardinality(A5) = 5
  <2>1. "peer_configuration" \notin A4
    OBVIOUS
  <2> HIDE DEF A4
  <2> QED
    BY <1>4, <2>1, FS_AddElement
<1>6. IsFiniteSet(A6) /\ Cardinality(A6) = 6
  <2>1. "route_presence" \notin A5
    OBVIOUS
  <2> HIDE DEF A5
  <2> QED
    BY <1>5, <2>1, FS_AddElement
<1>7. IsFiniteSet(A7) /\ Cardinality(A7) = 7
  <2>1. "export_policy" \notin A6
    OBVIOUS
  <2> HIDE DEF A6
  <2> QED
    BY <1>6, <2>1, FS_AddElement
<1> QED
  BY <1>7, A7 = BgpActionSteps DEF BgpActionSteps

-----------------------------------------------------------------------------
(* The conditions of the engine's theorems.                                *)

\* The three hand-written tables agree: no outcome is left without a way out,
\* terminal labels claim what the evaluator proves, nothing is tried after a
\* proof, and escalations come last.
THEOREM ShippedTablesAgree ==
  WayOut(BgpRank) /\ TerminalsMatchEvidence /\ ProofsConclude /\ EscalatesLast
<1>1. WayOut(BgpRank)
  <2>1. ASSUME NEW e \in Transitions, {e.source, e.target} \subseteq ActionSteps
        PROVE  BgpRank[e.source] <= BgpRank[e.target]
    BY <2>1, RankNeverFalls, ShippedAssumption
  <2>2. ASSUME NEW i \in Incidents, NEW s \in ActionSteps, NEW r \in Results(s),
               Evaluates(i, s, r)
        PROVE  \E e \in Transitions :
                 /\ e.source = s
                 /\ e.outcome = Evaluate(i, s, r).outcome
                 /\ e.target \in ActionSteps => BgpRank[s] < BgpRank[e.target]
    BY <2>2, Evaluated, SayingsHaveWayOut, ShippedAssumption
  <2> QED
    BY <2>1, <2>2 DEF WayOut
<1>2. TerminalsMatchEvidence
  <2>1. StartStep \in ActionSteps
    BY ShippedAssumption DEF BgpStartStep, BgpActionSteps
  <2>2. ASSUME NEW i \in Incidents, NEW s \in ActionSteps, NEW r \in Results(s),
               Evaluates(i, s, r),
               NEW e \in Transitions, e.source = s,
               e.outcome = Evaluate(i, s, r).outcome,
               e.target \in TerminalSteps, Claims(TerminalDiagnosis[e.target])
        PROVE  Evaluate(i, s, r).diagnosis = TerminalDiagnosis[e.target]
    BY <2>2, Evaluated, SayingsMatchTerminals, ShippedAssumption DEF Claims
  <2> QED
    BY <2>1, <2>2 DEF TerminalsMatchEvidence
<1>3. ProofsConclude
  <2>1. ASSUME NEW i \in Incidents, NEW s \in ActionSteps, NEW r \in Results(s),
               Evaluates(i, s, r), Evaluate(i, s, r).diagnosis # NoDiagnosis
        PROVE  Claims(Evaluate(i, s, r).diagnosis)
    <3>1. Evaluate(i, s, r).diagnosis \in Diagnoses
      BY <2>1, EvaluateAssumption
    <3>2. Evaluate(i, s, r).diagnosis \notin {"escalate", "no_fault_detected"}
      BY <2>1, Evaluated, SayingsClaimFaults, ShippedAssumption
    <3> QED
      BY <3>1, <3>2 DEF Claims
  <2>2. ASSUME NEW i \in Incidents, NEW s \in ActionSteps, NEW r \in Results(s),
               Evaluates(i, s, r), Evaluate(i, s, r).diagnosis # NoDiagnosis,
               NEW e \in Transitions, e.source = s,
               e.outcome = Evaluate(i, s, r).outcome
        PROVE  /\ e.target \in TerminalSteps
               /\ TerminalDiagnosis[e.target] = Evaluate(i, s, r).diagnosis
    BY <2>2, Evaluated, SayingsMatchTerminals, ShippedAssumption
  <2> QED
    BY <2>1, <2>2 DEF ProofsConclude
<1>4. EscalatesLast
  BY TransitionsEscalateLast, ShippedAssumption DEF EscalatesLast
<1> QED
  BY <1>1, <1>2, <1>3, <1>4

\* So the shipped engine, without a condition: whatever the incident, the
\* tools and the history say, a run reports a fault only on its own proof,
\* reports a fault that it has proved, always ends in a verdict, and thereby
\* implements Investigation.
THEOREM ShippedEngineIsHonest ==
  Spec => /\ []DiagnosisHasEvidence
          /\ []ProofIsReported
          /\ []EndsInVerdict
          /\ ImplementsInvestigation
<1>1. /\ BgpRank \in [ActionSteps -> Nat]
      /\ IsFiniteSet(ActionSteps) /\ Cardinality(ActionSteps) < MaxSteps
  BY SevenDiagnostics, ShippedAssumption DEF BgpRank, BgpActionSteps
<1>2. Spec => []EndsInVerdict
  BY <1>1, ShippedTablesAgree, VerdictReached
<1>3. Spec => []ProofIsReported
  BY <1>1, ShippedTablesAgree, ProofsAreReported
<1>4. Spec => []DiagnosisHasEvidence
  BY ShippedTablesAgree, DiagnosisIsProven
<1>5. Spec => ImplementsInvestigation
  BY ShippedTablesAgree, EngineImplements
<1> QED
  BY <1>2, <1>3, <1>4, <1>5

\* The bounds that the shipped procedure leaves room for.
LEMMA ShippedIsQuick ==
  ASSUME ShippedQuick
  PROVE  Quick(6499, 1)
<1>1. ASSUME NEW s \in ActionSteps
      PROVE  Cost[s] \in 0..1 /\ \A r \in Results(s) : r.latency_ms \in 0..6499
  <2>1. s \in BgpActionSteps /\ Cost = BgpCost /\ Results(s) = BgpResults(s)
    BY ShippedAssumption
  <2>2. Cost[s] = 1
    BY <2>1 DEF BgpCost
  <2>3. ASSUME NEW r \in BgpResults(s) PROVE r.latency_ms \in 0..6499
    <3>1. r.latency_ms \in Latencies
      BY DEF BgpResults
    <3> DEFINE bounds == 0..6499
    <3>2. Latencies \subseteq bounds
      BY DEF ShippedQuick
    <3> HIDE DEF bounds
    <3>3. r.latency_ms \in bounds
      BY <3>1, <3>2
    <3> QED
      BY <3>3 DEF bounds
  <2> QED
    BY <2>1, <2>2, <2>3
<1> QED
  BY <1>1 DEF Quick, ShippedQuick

LEMMA TransitionsEscalateFarBelow ==
  ASSUME NEW e \in BgpTransitions, NEW f \in BgpTransitions,
         e.source = f.source, e.outcome = f.outcome,
         e.target \in BgpTerminalSteps, BgpTerminalDiagnosis[e.target] = "escalate",
         f.target \in BgpActionSteps
  PROVE  100 * e.priority + 500 * 1 + 6499 < 100 * f.priority
<1>1. e.target = "escalate"
  BY DEF BgpTerminalDiagnosis, BgpTerminalSteps
<1>2. e.priority = 10 /\ f.priority \in {80, 90}
  BY <1>1 DEF BgpTransitions, Arc, BgpActionSteps
<1> QED
  BY <1>2

\* With commands of less than six and a half seconds no navigator of the
\* shipped engine escalates before the diagnostics it may still run are run,
\* whatever it has learned; the run learned_slow shows that slower ones can
\* make it.
THEOREM ShippedEscalatesLast ==
  ASSUME ShippedQuick
  PROVE  Spec => []EscalationExhausts
<1>1. Quick(6499, 1)
  BY ShippedIsQuick
<1>2. EscalatesFarBelow(6499, 1)
  BY TransitionsEscalateFarBelow, ShippedAssumption DEF EscalatesFarBelow
<1> QED
  BY <1>1, <1>2, QuickWalkEscalatesLast

\* With a history in which the firewall command never proved anything and the
\* configuration command always did, the shipped priorities are turned round.
LEMMA ProvenConfigScoresMore ==
  ASSUME NEW g, NEW context, QuickHistory(g, 6499, 1),
         Resolved(g, "firewall_policy") = {},
         ExecutionsOf(g, "peer_configuration") # {},
         Resolved(g, "peer_configuration") = ExecutionsOf(g, "peer_configuration"),
         NEW e \in Transitions, e.target = "firewall_policy", e.priority = 60,
         NEW f \in Transitions, f.target = "peer_configuration", f.priority = 55
  PROVE  Better(Score(f, g, context), Score(e, g, context))
<1> DEFINE a == Score(f, g, context)
           b == Score(e, g, context)
           SE == Sample(g, "firewall_policy", context)
           SF == Sample(g, "peer_configuration", context)
           RE == {id \in SE : g.vertices[id].resolved}
           RF == {id \in SF : g.vertices[id].resolved}
           m == Cardinality(SE)
           n == Cardinality(SF)
<1>1. RE = {}
  <2>1. SE \subseteq ExecutionsOf(g, "firewall_policy")
    BY DEF Sample
  <2> QED
    BY <2>1 DEF Resolved
<1>2. RF = SF /\ SF # {}
  <2>1. /\ SF \subseteq ExecutionsOf(g, "peer_configuration")
        /\ SF # {}
    BY DEF Sample
  <2> QED
    BY <2>1 DEF Resolved
<1>3. /\ m \in Nat /\ b.den = (IF m < 5 THEN 5 ELSE m) /\ b.num \in Int
      /\ b.num <= 60 * 100 * b.den
  <2>1. Cardinality(RE) = 0
    BY ONLY <1>1, FS_EmptySet
  <2>2. /\ b = Score(e, g, context) /\ m = Cardinality(Sample(g, e.target, context))
        /\ 0 = Cardinality({id \in Sample(g, e.target, context) : g.vertices[id].resolved})
    BY <2>1
  <2> HIDE DEF b, m, SE, RE
  <2>3. 6499 \in Nat /\ 1 \in Nat
    OBVIOUS
  <2>4. /\ m \in Nat /\ b.den = (IF m < 5 THEN 5 ELSE m) /\ b.num \in Int
        /\ b.num <= e.priority * 100 * b.den + 15000 * 0
    BY <2>2, <2>3, ScoreParts
  <2> QED
    BY <2>4
<1>4. /\ n \in Nat \ {0} /\ a.den = (IF n < 5 THEN 5 ELSE n) /\ a.num \in Int
      /\ 55 * 100 * a.den + 15000 * n - (500 * 1 + 6499) * n <= a.num
  <2>1. 6499 \in Nat /\ 1 \in Nat
    OBVIOUS
  <2>2. IsFiniteSet(SF)
    <3>1. IsFiniteSet(Executions(g)) /\ StepsAreNamed(g)
      BY DEF QuickHistory, Within
    <3>2. ExecutionsOf(g, "peer_configuration") \subseteq Executions(g)
      BY <3>1 DEF ExecutionsOf, StepsAreNamed
    <3>3. SF \subseteq ExecutionsOf(g, "peer_configuration")
      BY DEF Sample
    <3> QED
      BY <3>1, <3>2, <3>3, FS_Subset
  <2>3. n # 0
    BY ONLY <1>2, <2>2, FS_EmptySet
  <2>4. /\ a = Score(f, g, context) /\ n = Cardinality(Sample(g, f.target, context))
        /\ n = Cardinality({id \in Sample(g, f.target, context) : g.vertices[id].resolved})
    <3>1. {id \in Sample(g, f.target, context) : g.vertices[id].resolved} = RF
      OBVIOUS
    <3>2. n = Cardinality(RF)
      BY ONLY <1>2
    <3> QED
      BY <3>1, <3>2
  <2> HIDE DEF a, n, SF, RF
  <2>5. /\ n \in Nat /\ a.den = (IF n < 5 THEN 5 ELSE n) /\ a.num \in Int
        /\ f.priority * 100 * a.den + 15000 * n - (500 * 1 + 6499) * n <= a.num
    BY <2>1, <2>4, ScoreParts
  <2> QED
    BY <2>3, <2>5
<1> HIDE DEF a, b, m, n
<1>5. 7100 * a.den <= a.num /\ a.den \in Nat \ {0}
  BY <1>4
<1>6. b.num <= 6000 * b.den /\ b.den \in Nat \ {0}
  BY <1>3
<1>7. Better(a, b)
  <2> DEFINE high == 7100
             low  == 6000
  <2>1. /\ high \in Int /\ low \in Int /\ low < high
        /\ high * a.den <= a.num /\ b.num <= low * b.den
        /\ a.den \in Nat \ {0} /\ b.den \in Nat \ {0}
        /\ a.num \in Int /\ b.num \in Int
    BY <1>3, <1>4, <1>5, <1>6
  <2> HIDE DEF high, low
  <2> QED
    BY <2>1, SteeperIsBetter
<1> QED
  BY <1>7 DEF a, b

\* Experience moves a diagnostic earlier, as the documentation says: for every
\* history of quick commands in which the configuration step always proved a
\* fault and the firewall step never did, whichever incidents they come from.
THEOREM LearnedConfigComesFirst ==
  ASSUME ShippedQuick
  PROVE  Spec => ConfigMovesEarlier
<1> DEFINE Q == QuickHistory(experience, 6499, 1)
           P == PassesInv(BgpRank)
<1>1. TypeOK /\ WellFormed(experience) /\ Q /\ Q' /\ P /\ [Next]_vars => [MovesEarlier]_vars
  <2> SUFFICES ASSUME TypeOK, WellFormed(experience), Q, Q', P, Next,
                      policy = "experience", pc = "answered", pc' = "loop",
                      current = "peer_reachability", current' \in ActionSteps,
                      ExecutionsOf(experience, "peer_configuration") # {},
                      Resolved(experience, "firewall_policy") = {},
                      Resolved(experience, "peer_configuration")
                        = ExecutionsOf(experience, "peer_configuration"),
                      current' # "peer_configuration"
               PROVE  FALSE
    BY DEF MovesEarlier
  <2>1. Advance
    BY DEF Next, EngineStep, Begin, StepLimit, ReachTerminal, CallTool, ToolAnswers,
           ToolReturns, ToolRaises, EvaluationRaises, DeadEnd
  <2> DEFINE edges == Candidates(current, Evaluation.outcome, visited)
             context == ContextKey(executed')
  <2>2. PICK e \in ExperiencePreferred(edges, experience', context) : current' = e.target
    BY <2>1 DEF Advance, Preferred
  <2>3. e \in edges /\ \A f \in edges :
          ~Better(Score(f, experience', context), Score(e, experience', context))
    BY <2>2 DEF ExperiencePreferred
  <2>4. /\ e \in Transitions /\ e.source = "peer_reachability"
        /\ e.outcome = Evaluation.outcome /\ e.target \in BgpActionSteps
    BY <2>2, <2>3, CandidateIsTransition, ShippedAssumption
  <2>5. e.outcome = "reachable" /\ e.target = "firewall_policy" /\ e.priority = 60
    BY <2>2, <2>4, ShippedAssumption DEF BgpTransitions, Arc, BgpActionSteps
  <2> DEFINE f == Arc("peer_reachability", "reachable", "peer_configuration", 55)
  <2>6. f \in Transitions
    BY ShippedAssumption DEF BgpTransitions
  <2>7. "peer_configuration" \notin visited
    BY ShippedAssumption DEF PassesInv, Running, BgpRank, BgpActionSteps
  <2>8. f \in edges
    BY <2>4, <2>5, <2>6, <2>7 DEF Candidates, Arc
  <2>9. /\ Resolved(experience', "firewall_policy") = {}
        /\ ExecutionsOf(experience', "peer_configuration") # {}
        /\ Resolved(experience', "peer_configuration")
              = ExecutionsOf(experience', "peer_configuration")
    <3> DEFINE x == Arguments(incident, executed')
    <3>1. EvaluateAndRecord
      BY <2>1 DEF Advance
    <3>2. experience' = RecordExecution(experience, x)
      BY <3>1, RecordedArguments DEF EvaluateAndRecord
    <3>3. x.step = "peer_reachability"
      BY <3>1, Appended DEF Arguments, ExecutedStep
    <3> HIDE DEF x
    <3>4. ASSUME NEW step \in {"firewall_policy", "peer_configuration"}
          PROVE  /\ ExecutionsOf(experience', step) = ExecutionsOf(experience, step)
                 /\ Resolved(experience', step) = Resolved(experience, step)
      <4>1. step # x.step
        BY <3>3
      <4>2. /\ ExecutionsOf(experience', step) = ExecutionsOf(experience, step)
            /\ \A id \in ExecutionsOf(experience, step) :
                 experience'.vertices[id] = experience.vertices[id]
        BY <3>2, <4>1, OtherExecutions DEF QuickHistory
      <4> QED
        BY <4>2 DEF Resolved
    <3> QED
      BY <3>4
  <2>10. f.target = "peer_configuration" /\ f.priority = 55
    BY DEF Arc
  <2> HIDE DEF f, edges, context
  <2> QED
    BY <2>3, <2>4, <2>5, <2>6, <2>8, <2>9, <2>10, ProvenConfigScoresMore
<1>2. Init => Q
  BY ShippedIsQuick, StartsQuick
<1>3. TypeOK /\ WellFormed(experience) /\ Q /\ [Next]_vars => Q'
  <2>1. 6499 \in Nat /\ 1 \in Nat
    OBVIOUS
  <2> QED
    BY <2>1, ShippedIsQuick, StaysQuick
<1>4. Init => P
  BY PassesStart
<1>5. TypeOK /\ IInv /\ P /\ [Next]_vars => P'
  <2>1. /\ BgpRank \in [ActionSteps -> Nat]
        /\ IsFiniteSet(ActionSteps) /\ Cardinality(ActionSteps) < MaxSteps
    BY SevenDiagnostics, ShippedAssumption DEF BgpRank, BgpActionSteps
  <2> QED
    BY <2>1, ShippedTablesAgree, PassesStep
<1> HIDE DEF Q, P
<1> QED
  BY <1>1, <1>2, <1>3, <1>4, <1>5, TypeAndCount, Walk, HistoryWellFormed,
     PTL DEF Spec, ConfigMovesEarlier

-----------------------------------------------------------------------------
(* The lab is one of the engine's surroundings.                            *)

\* What the configuration shows: the policy has a deny clause.
LEMMA ConfigShown ==
  ASSUME NEW n
  PROVE  RunningConfig(n) =
           [shutdown  |-> "neighbor_shutdown" \in n,
            remote_as |-> IF "asn_mismatch" \in n THEN "other" ELSE "expected",
            route_map |-> IF "route_map_filter" \in n THEN "deny" ELSE "none"]
<1>1. 1 \in DOMAIN BLOCK_EXPORT /\ BLOCK_EXPORT[1].action = "deny"
  BY DEF BLOCK_EXPORT, Entry
<1>2. (\E k \in DOMAIN BLOCK_EXPORT : BLOCK_EXPORT[k].action = "deny") = TRUE
  BY <1>1
<1> QED
  BY <1>2 DEF RunningConfig, FilterAttached

\* Field by field.
LEMMA ConfigFields ==
  ASSUME NEW n
  PROVE  /\ RunningConfig(n) \in RunningConfigs
         /\ "neighbor_shutdown" \in n => RunningConfig(n).shutdown = TRUE
         /\ "neighbor_shutdown" \notin n => RunningConfig(n).shutdown = FALSE
         /\ RunningConfig(n).remote_as = IF "asn_mismatch" \in n THEN "other" ELSE "expected"
         /\ RunningConfig(n).route_map = IF "route_map_filter" \in n THEN "deny" ELSE "none"
<1> DEFINE b == "neighbor_shutdown" \in n
           as == IF "asn_mismatch" \in n THEN "other" ELSE "expected"
           map == IF "route_map_filter" \in n THEN "deny" ELSE "none"
           r == RunningConfig(n)
<1>1. r = [shutdown |-> b, remote_as |-> as, route_map |-> map]
  BY ConfigShown
<1>2. b \in BOOLEAN /\ as \in {"none", "expected", "other"} /\ map \in {"none", "permit", "deny"}
  OBVIOUS
<1>3. "neighbor_shutdown" \in n => b = TRUE
  OBVIOUS
<1>4. "neighbor_shutdown" \notin n => b = FALSE
  OBVIOUS
<1>5. /\ as = IF "asn_mismatch" \in n THEN "other" ELSE "expected"
      /\ map = IF "route_map_filter" \in n THEN "deny" ELSE "none"
  OBVIOUS
<1> HIDE DEF b, as, map, r
<1>6. r.shutdown = b /\ r.remote_as = as /\ r.route_map = map
  BY <1>1
<1>7. r \in [shutdown : BOOLEAN, remote_as : {"none", "expected", "other"},
            route_map : {"none", "permit", "deny"}]
  BY <1>1, <1>2
<1>8. r \in RunningConfigs
  BY <1>7 DEF RunningConfigs
<1>9. /\ r \in RunningConfigs
      /\ "neighbor_shutdown" \in n => r.shutdown = TRUE
      /\ "neighbor_shutdown" \notin n => r.shutdown = FALSE
      /\ r.remote_as = IF "asn_mismatch" \in n THEN "other" ELSE "expected"
      /\ r.route_map = IF "route_map_filter" \in n THEN "deny" ELSE "none"
  BY <1>3, <1>4, <1>5, <1>6, <1>8, Zenon
<1> QED
  BY <1>9 DEF r

\* What the evaluator makes of it.
LEMMA ConfigEvaluated ==
  ASSUME NEW n, NEW r, r.returncode = 0, r.stdout = RunningConfig(n)
  PROVE  /\ "neighbor_shutdown" \in n => PeerConfig(r) = Proves("shutdown", "neighbor_shutdown")
         /\ ("neighbor_shutdown" \notin n /\ "asn_mismatch" \in n) =>
              PeerConfig(r) = Proves("asn_mismatch", "asn_mismatch")
<1> PICK c : c = RunningConfig(n)
  OBVIOUS
<1>1. r.stdout = c /\ c.shutdown = r.stdout.shutdown /\ c.remote_as = r.stdout.remote_as
  OBVIOUS
<1>2. CASE "neighbor_shutdown" \in n
  <2>1. c.shutdown = TRUE
    BY <1>2, ConfigFields, Zenon
  <2> QED
    BY <1>1, <1>2, <2>1 DEF PeerConfig
<1>3. CASE "neighbor_shutdown" \notin n /\ "asn_mismatch" \in n
  <2>1. c.shutdown = FALSE /\ c.remote_as = "other"
    BY <1>3, ConfigFields, Zenon
  <2> QED
    BY <1>1, <1>3, <2>1 DEF PeerConfig
<1> QED
  BY <1>2, <1>3

\* What the commands answer are results of their tools.
LEMMA AnswersAreResults ==
  ASSUME NEW s \in ActionSteps, NEW n \in SUBSET Scenarios
  PROVE  /\ Shows(s, n) \in Results(s)
         /\ NoOutput(s) \in Results(s)
<1>1. 20 \in Latencies /\ s \in BgpActionSteps
  BY LabAssumption, ShippedAssumption
<1>2. /\ RunningConfig(n) \in RunningConfigs
      /\ [shutdown |-> FALSE, remote_as |-> "none", route_map |-> "none"] \in RunningConfigs
  BY ConfigFields DEF RunningConfigs
<1>3. Shows(s, n) \in BgpResults(s)
  BY <1>1, <1>2 DEF BgpActionSteps, Shows, BgpResults, Stdouts, ReturnCodes, Answer
<1>4. NoOutput(s) \in BgpResults(s)
  BY <1>1, <1>2 DEF BgpActionSteps, NoOutput, BgpResults, Stdouts, ReturnCodes, Answer
<1> QED
  BY <1>3, <1>4, ShippedAssumption

NetworkOK == network \in SUBSET Scenarios

\* Every step of the lab is one of the engine, or leaves it alone.
LEMMA LabStep ==
  ASSUME TypeOK, NetworkOK, [LabNext]_allVars
  PROVE  [Next]_vars /\ NetworkOK'
<1>1. CASE LabBegin
  BY <1>1 DEF LabBegin, Next, NetworkOK
<1>2. CASE Observe
  <2>1. Shows(current, network) \in Results(current)
    BY <1>2, AnswersAreResults DEF Observe, TypeOK, NetworkOK
  <2> QED
    BY <1>2, <2>1 DEF Observe, Next, ToolAnswers, NetworkOK, labVars
<1>3. CASE CommandFails
  <2>1. NoOutput(current) \in Results(current)
    BY <1>3, AnswersAreResults DEF CommandFails, TypeOK, NetworkOK
  <2> QED
    BY <1>3, <2>1 DEF CommandFails, Next, ToolAnswers, NetworkOK
<1>4. CASE EngineStep /\ UNCHANGED labVars
  BY <1>4 DEF Next, NetworkOK, labVars
<1>5. CASE Apply
  BY <1>5 DEF Apply, Change, NetworkOK
<1>6. CASE Reset
  BY <1>6 DEF Reset, Change, NetworkOK
<1>7. CASE UNCHANGED allVars
  BY <1>7 DEF allVars, labVars, NetworkOK
<1> QED
  BY <1>1, <1>2, <1>3, <1>4, <1>5, <1>6, <1>7 DEF LabNext

LEMMA LabTypes == LabSpec => [](TypeOK /\ CountInv /\ NetworkOK)
<1>1. LabInit => TypeOK /\ CountInv /\ NetworkOK
  BY TypeStart DEF LabInit, NetworkOK
<1>2. TypeOK /\ CountInv /\ NetworkOK /\ [LabNext]_allVars
        => TypeOK' /\ CountInv' /\ NetworkOK'
  BY LabStep, TypeStep
<1> QED
  BY <1>1, <1>2, PTL DEF LabSpec

\* The lab implements the engine: whatever the operator does to the network
\* and whichever commands fail, a run of the lab is a run of the engine, and
\* all that was proved of the engine holds in the lab.
THEOREM LabRunsTheEngine == LabSpec => Spec
<1>1. LabInit => Init
  BY DEF LabInit
<1>2. TypeOK /\ NetworkOK /\ [LabNext]_allVars => [Next]_vars
  BY LabStep
<1> QED
  BY <1>1, <1>2, LabTypes, PTL DEF LabSpec, Spec

-----------------------------------------------------------------------------
(* Verdicts are true of the network.                                       *)

\* What the evaluator makes of a command's answer is so on the network that
\* the command read.
LEMMA ShownIsSo ==
  ASSUME NEW i, NEW s \in BgpActionSteps, NEW n \in SUBSET Scenarios,
         NEW v, v = BgpEvaluate(i, s, Shows(s, n))
  PROVE  /\ v.diagnosis # NoFault => Blamed(v.diagnosis) \in n
         /\ v.outcome = "present" => HasRoute(n)
         /\ (v.outcome = "missing" /\ i \in CanonicalIncidents) => ~HasRoute(n)
<1> USE DEF Says, Proves, Answer, Blamed
<1>1. CASE s = "bgp_summary"
  BY <1>1 DEF BgpEvaluate, Summary, Shows
<1>2. CASE s = "interface_state"
  BY <1>2 DEF BgpEvaluate, Interface, Shows
<1>3. CASE s = "peer_reachability"
  BY <1>3 DEF BgpEvaluate, Reachability, Shows
<1>4. CASE s = "firewall_policy"
  BY <1>4 DEF BgpEvaluate, Firewall, Shows
<1>5. CASE s = "peer_configuration"
  BY <1>5, ConfigShown DEF BgpEvaluate, PeerConfig, Shows
<1>6. CASE s = "route_presence"
  BY <1>6 DEF BgpEvaluate, RoutePresence, Shows
<1>7. CASE s = "export_policy"
  BY <1>7, ConfigShown DEF BgpEvaluate, ExportPolicy, Shows
<1> QED
  BY <1>1, <1>2, <1>3, <1>4, <1>5, <1>6, <1>7 DEF BgpActionSteps

\* The policy is blamed by its own evaluator only.
LEMMA BlameOfFilter ==
  ASSUME NEW i, NEW s \in BgpActionSteps, NEW r,
         NoFault # "route_map_filter",
         BgpEvaluate(i, s, r).diagnosis = "route_map_filter"
  PROVE  s = "export_policy"
<1> USE DEF Says, Proves
<1>1. CASE s = "bgp_summary"
  BY <1>1 DEF BgpEvaluate, Summary
<1>2. CASE s = "interface_state"
  BY <1>2 DEF BgpEvaluate, Interface
<1>3. CASE s = "peer_reachability"
  BY <1>3 DEF BgpEvaluate, Reachability
<1>4. CASE s = "firewall_policy"
  BY <1>4 DEF BgpEvaluate, Firewall
<1>5. CASE s = "peer_configuration"
  BY <1>5 DEF BgpEvaluate, PeerConfig
<1>6. CASE s = "route_presence"
  BY <1>6 DEF BgpEvaluate, RoutePresence
<1> QED
  BY <1>1, <1>2, <1>3, <1>4, <1>5, <1>6 DEF BgpActionSteps

\* A command that failed proves nothing, unless it is the ping.
LEMMA FailureProvesNothing ==
  ASSUME NEW i, NEW s \in BgpActionSteps \ {"peer_reachability"},
         NEW v, v = BgpEvaluate(i, s, NoOutput(s))
  PROVE  v.diagnosis = NoFault /\ v.outcome \notin {"present", "missing"}
<1> USE DEF Says, Proves, Answer
<1>1. CASE s = "bgp_summary"
  BY <1>1 DEF BgpEvaluate, Summary, NoOutput
<1>2. CASE s = "interface_state"
  BY <1>2 DEF BgpEvaluate, Interface, NoOutput
<1>3. CASE s = "firewall_policy"
  BY <1>3 DEF BgpEvaluate, Firewall, NoOutput
<1>4. CASE s = "peer_configuration"
  BY <1>4 DEF BgpEvaluate, PeerConfig, NoOutput
<1>5. CASE s = "route_presence"
  BY <1>5 DEF BgpEvaluate, RoutePresence, NoOutput
<1>6. CASE s = "export_policy"
  BY <1>6 DEF BgpEvaluate, ExportPolicy, NoOutput
<1> QED
  BY <1>1, <1>2, <1>3, <1>4, <1>5, <1>6 DEF BgpActionSteps

\* The prefix was missing at some moment of the run.
LossSeen == incident \in CanonicalIncidents => \E n \in seen : ~HasRoute(n)

\* What a diagnosis says is so of the network last read.
Witnessed(d) ==
  /\ Claims(d) => Blamed(d) \in read
  /\ d = "route_map_filter" => LossSeen
  /\ d = "no_fault_detected" => HasRoute(read)

\* VerdictWasTrue is not inductive: it needs that a result in hand is what the
\* network last read shows, that the terminal step the loop stands at was
\* reached with such a result, and that who asks for the export policy has seen
\* the prefix missing.
TruthInv ==
  /\ network \in seen /\ read \in seen /\ seen \subseteq SUBSET Scenarios
  /\ pc = "answered" =>
       \/ result = Shows(current, read)
       \/ result = NoOutput(current) /\ current # "peer_reachability"
  /\ (Running /\ current = "export_policy") => LossSeen
  /\ (pc = "loop" /\ current \in TerminalSteps) => Witnessed(TerminalDiagnosis[current])
  /\ pc = "returned" => Witnessed(diagnosis)

LEMMA NamesOfDiagnoses ==
  /\ NoDiagnosis \notin {"no_fault_detected", "route_map_filter"}
  /\ Claims("route_map_filter")
<1>1. /\ TerminalDiagnosis["healthy"] = "no_fault_detected" /\ "healthy" \in TerminalSteps
      /\ TerminalDiagnosis["diagnosed_route_filter"] = "route_map_filter"
      /\ "diagnosed_route_filter" \in TerminalSteps
  BY ShippedAssumption DEF BgpTerminalSteps, BgpTerminalDiagnosis
<1>2. NoDiagnosis \notin {"no_fault_detected", "route_map_filter"}
  BY <1>1, StepsAssumption
<1>3. "route_map_filter" \in Diagnoses
  BY <1>1, StepsAssumption
<1> QED
  BY <1>2, <1>3 DEF Claims

LEMMA NoDiagnosisIsWitnessed == Witnessed(NoDiagnosis)
BY NamesOfDiagnoses, StepsAssumption DEF Witnessed, Claims

LEMMA EvaluationIsTrue ==
  ASSUME TypeOK, TruthInv, EvaluateAndRecord
  PROVE  /\ Witnessed(Evaluation.diagnosis)
         /\ Evaluation.outcome = "present" => HasRoute(read)
         /\ Evaluation.outcome = "missing" => LossSeen
<1>1. /\ incident \in Incidents /\ current \in ActionSteps /\ result \in Results(current)
      /\ Evaluates(incident, current, result) /\ pc = "answered"
  BY DEF EvaluateAndRecord, TypeOK
<1>2. /\ current \in BgpActionSteps
      /\ Evaluation = BgpEvaluate(incident, current, result)
  BY <1>1, Evaluated DEF Evaluation
<1>3. Evaluation.diagnosis # NoDiagnosis => Claims(Evaluation.diagnosis)
  BY <1>1, ShippedTablesAgree DEF ProofsConclude, Evaluation
<1>4. Evaluation.diagnosis = "route_map_filter" => LossSeen
  <2>1. Evaluation.diagnosis = "route_map_filter" => current = "export_policy"
    BY <1>2, BlameOfFilter, NamesOfDiagnoses, ShippedAssumption
  <2> QED
    BY <1>1, <2>1 DEF TruthInv, Running
<1>5. CASE result = Shows(current, read)
  <2>1. read \in SUBSET Scenarios /\ read \in seen
    BY DEF TruthInv
  <2>2. /\ Evaluation.diagnosis # NoDiagnosis => Blamed(Evaluation.diagnosis) \in read
        /\ Evaluation.outcome = "present" => HasRoute(read)
        /\ (Evaluation.outcome = "missing" /\ incident \in CanonicalIncidents) =>
             ~HasRoute(read)
    BY <1>2, <1>5, <2>1, ShownIsSo, ShippedAssumption
  <2>3. Evaluation.diagnosis # "no_fault_detected"
    BY <1>3, NamesOfDiagnoses DEF Claims
  <2>4. Evaluation.outcome = "missing" => LossSeen
    BY <2>1, <2>2 DEF LossSeen
  <2> QED
    <3>1. Claims(Evaluation.diagnosis) => Evaluation.diagnosis # NoDiagnosis
      BY StepsAssumption DEF Claims
    <3> QED
      BY <1>4, <2>2, <2>3, <2>4, <3>1 DEF Witnessed
<1>6. CASE result = NoOutput(current) /\ current # "peer_reachability"
  <2>1. Evaluation.diagnosis = NoDiagnosis /\ Evaluation.outcome \notin {"present", "missing"}
    BY <1>2, <1>6, FailureProvesNothing, ShippedAssumption
  <2> QED
    BY <2>1, NoDiagnosisIsWitnessed
<1> QED
  BY <1>1, <1>5, <1>6 DEF TruthInv

\* The step that the navigator goes to is true of the network.
LEMMA NextStepIsTrue ==
  ASSUME TypeOK, TruthInv, Advance
  PROVE  /\ current' \in TerminalSteps => Witnessed(TerminalDiagnosis[current'])
         /\ current' = "export_policy" => LossSeen
<1>1. EvaluateAndRecord
  BY DEF Advance
<1>2. /\ incident \in Incidents /\ current \in ActionSteps /\ result \in Results(current)
      /\ Evaluates(incident, current, result)
  BY <1>1 DEF EvaluateAndRecord, TypeOK
<1>3. PICK e \in Transitions : /\ e.source = current /\ e.outcome = Evaluation.outcome
                               /\ e.target = current'
  BY PreferredIsOffered, CandidateIsTransition DEF Advance
<1>4. ASSUME current' \in TerminalSteps
      PROVE  Witnessed(TerminalDiagnosis[current'])
  <2>1. Claims(TerminalDiagnosis[current']) =>
          Evaluation.diagnosis = TerminalDiagnosis[current']
    BY <1>2, <1>3, <1>4, ShippedTablesAgree DEF TerminalsMatchEvidence, Evaluation
  <2>2. TerminalDiagnosis[current'] = "no_fault_detected" => Evaluation.outcome = "present"
    <3>1. TerminalDiagnosis[current'] = "no_fault_detected" => current' = "healthy"
      BY <1>4, ShippedAssumption DEF BgpTerminalDiagnosis, BgpTerminalSteps
    <3> QED
      BY <1>3, <3>1, ShippedAssumption DEF BgpTransitions, Arc
  <2> QED
    BY <1>1, <2>1, <2>2, EvaluationIsTrue, NamesOfDiagnoses DEF Witnessed
<1>5. ASSUME current' = "export_policy"
      PROVE  LossSeen
  <2>1. Evaluation.outcome = "missing"
    BY <1>3, <1>5, ShippedAssumption DEF BgpTransitions, Arc
  <2> QED
    BY <1>1, <2>1, EvaluationIsTrue
<1> QED
  BY <1>4, <1>5

\* Whatever the operator changes between the commands of a run, and whatever
\* commands but ping fail, the scenario that a run reports was applied when its
\* last command ran; it blames the export policy only if the prefix was missing
\* at some moment of the run; and after an all-clear r2 had the prefix when the
\* last command ran.
THEOREM VerdictsAreTrue ==
  ASSUME "peer_reachability" \notin FailingSteps
  PROVE  LabSpec => []VerdictWasTrue
<1>1. LabInit => TruthInv
  BY DEF LabInit, Init, TruthInv, Running
<1>2. TypeOK /\ IInv /\ NetworkOK /\ TruthInv /\ [LabNext]_allVars => TruthInv'
  <2> SUFFICES ASSUME TypeOK, IInv, NetworkOK, TruthInv, [LabNext]_allVars
               PROVE  TruthInv'
    OBVIOUS
  <2> USE DEF TruthInv, Running
  <2>1. CASE LabBegin
    <3>1. /\ pc' = "loop" /\ current' = "bgp_summary" /\ current' \notin TerminalSteps
          /\ seen' = {network} /\ network' = network /\ read' = network
      BY <2>1, ShippedAssumption
         DEF LabBegin, Begin, BgpStartStep, BgpTerminalSteps, BgpTerminalDiagnosis
    <3> QED
      BY <3>1 DEF NetworkOK
  <2>2. CASE Observe
    BY <2>2 DEF Observe, ToolReturns, locals, LossSeen
  <2>3. CASE CommandFails
    BY <2>3 DEF CommandFails, ToolReturns, locals, LossSeen
  <2>4. CASE EngineStep /\ UNCHANGED labVars
    <3>0. UNCHANGED <<network, seen, read>>
      BY <2>4 DEF labVars
    <3>1. CASE StepLimit
      <4>1. diagnosis' = NoDiagnosis /\ pc' = "returned"
        BY <3>1 DEF StepLimit, IInv, WalkInv
      <4>2. Witnessed(NoDiagnosis)'
        BY NamesOfDiagnoses, StepsAssumption DEF Witnessed, Claims
      <4> QED
        BY <3>0, <4>1, <4>2 DEF Witnessed
    <3>2. CASE ReachTerminal
      BY <3>0, <3>2 DEF ReachTerminal, locals, Witnessed, LossSeen
    <3>3. CASE CallTool
      BY <3>0, <3>3 DEF CallTool, locals, LossSeen
    <3>4. CASE ToolRaises
      BY <3>0, <3>4 DEF ToolRaises
    <3>5. CASE EvaluationRaises
      BY <3>0, <3>5 DEF EvaluationRaises
    <3>6. CASE Advance
      <4>1. pc' = "loop" /\ incident' = incident
        BY <3>6 DEF Advance, EvaluateAndRecord, locals
      <4> QED
        BY <3>0, <3>6, <4>1, NextStepIsTrue DEF Witnessed, LossSeen
    <3>7. CASE DeadEnd
      <4>1. /\ pc' = "returned" /\ incident' = incident
            /\ diagnosis' = Evaluation.diagnosis /\ EvaluateAndRecord
        BY <3>7 DEF DeadEnd, EvaluateAndRecord, locals
      <4> QED
        BY <3>0, <4>1, EvaluationIsTrue DEF Witnessed, LossSeen
    <3> QED
      BY <2>4, <3>1, <3>2, <3>3, <3>4, <3>5, <3>6, <3>7 DEF EngineStep
  <2>5. ASSUME NEW n \in SUBSET Scenarios, Change(n)
        PROVE  TruthInv'
    BY <2>5 DEF Change, vars, locals, Witnessed, LossSeen
  <2>6. CASE Apply \/ Reset
    BY <2>5, <2>6 DEF Apply, Reset, NetworkOK
  <2>7. CASE UNCHANGED allVars
    BY <2>7 DEF allVars, labVars, vars, locals, Witnessed, LossSeen
  <2> QED
    BY <2>1, <2>2, <2>3, <2>4, <2>6, <2>7 DEF LabNext
<1>3. TruthInv => VerdictWasTrue
  BY DEF TruthInv, VerdictWasTrue, Witnessed, LossSeen
<1> QED
  BY <1>1, <1>2, <1>3, LabTypes, LabRunsTheEngine, Walk, PTL DEF LabSpec

-----------------------------------------------------------------------------
(* On a network that stays as it is the verdict is right.                  *)

Quiet == ~failed /\ seen = {network}

\* What StableVerdictIsRight asks of a diagnosis, on a network n of which r2 has
\* the prefix or not.
Right(d, n, has, i) ==
  /\ ~SessionUp(n) => d \in n \ {"route_map_filter"}
  /\ SessionUp(n) =>
       d = IF has /\ i \in CanonicalIncidents
             THEN "no_fault_detected"
             ELSE IF FilterAttached(n) THEN "route_map_filter" ELSE "escalate"

\* What the walk has found out about the network n when it gets to step s.
Standing(s, n, has, i) ==
  /\ s = "interface_state" => ~SessionUp(n)
  /\ s \in {"peer_reachability", "firewall_policy", "peer_configuration"} =>
       ~SessionUp(n) /\ "interface_down" \notin n
  /\ s = "route_presence" => SessionUp(n)
  /\ s = "export_policy" => SessionUp(n) /\ ~(has /\ i \in CanonicalIncidents)
  /\ s \in BgpTerminalSteps => Right(BgpTerminalDiagnosis[s], n, has, i)

\* r is what the command of a step shows on the network n, its latency aside,
\* when r2 has the prefix or not.
LikeShown(r, step, n, has) ==
  /\ r.returncode = Shows(step, n).returncode
  /\ step # "route_presence" => r.stdout = Shows(step, n).stdout
  /\ step = "route_presence" => r.stdout = IF has THEN "canonical_prefix" ELSE "no_prefix"

\* Every transition that the answers of the network allow leads to a step that
\* may be stood at, but for the escalation beside peer_configuration, which
\* itself finds one of the two faults that are left.
LEMMA TransitionsFollowNetwork ==
  ASSUME NEW n \in SUBSET Scenarios, NEW has, NEW i,
         NEW s \in BgpActionSteps, Standing(s, n, has, i),
         NEW r, LikeShown(r, s, n, has), NEW v, v = BgpEvaluate(i, s, r),
         NEW e \in BgpTransitions, e.source = s, e.outcome = v.outcome
  PROVE  /\ \/ Standing(e.target, n, has, i)
            \/ s = "firewall_policy" /\ e.outcome = "clear" /\ e.target = "escalate"
         /\ s = "peer_configuration" => e.target \in BgpTerminalSteps
<1> USE DEF BgpTransitions, Arc, Says, Proves, Answer, Standing, Right, SessionUp,
            BgpTerminalSteps, BgpTerminalDiagnosis, LikeShown
<1>1. CASE s = "bgp_summary"
  BY <1>1 DEF BgpEvaluate, Summary, Shows
<1>2. CASE s = "interface_state"
  BY <1>2 DEF BgpEvaluate, Interface, Shows
<1>3. CASE s = "peer_reachability"
  BY <1>3 DEF BgpEvaluate, Reachability, Shows
<1>4. CASE s = "firewall_policy"
  BY <1>4 DEF BgpEvaluate, Firewall, Shows
<1>5. CASE s = "peer_configuration"
  <2>1. "neighbor_shutdown" \in n \/ "asn_mismatch" \in n
    BY <1>5
  <2>2. /\ "neighbor_shutdown" \in n => v.outcome = "shutdown"
        /\ "neighbor_shutdown" \notin n => v.outcome = "asn_mismatch"
    <3>1. r.stdout = RunningConfig(n) /\ r.returncode = 0
      BY <1>5 DEF Shows
    <3>2. v = PeerConfig(r)
      BY <1>5 DEF BgpEvaluate
    <3> QED
      BY <2>1, <3>1, <3>2, ConfigEvaluated
  <2>3. /\ v.outcome = "shutdown" => e.target = "diagnosed_neighbor_shutdown"
        /\ v.outcome = "asn_mismatch" => e.target = "diagnosed_asn_mismatch"
    BY <1>5
  <2> QED
    BY <1>5, <2>1, <2>2, <2>3
<1>6. CASE s = "route_presence"
  <2>1. v.outcome = IF has /\ i \in CanonicalIncidents THEN "present" ELSE "missing"
    BY <1>6 DEF BgpEvaluate, RoutePresence, Shows
  <2>2. /\ v.outcome = "present" => e.target = "healthy"
        /\ v.outcome = "missing" => e.target = "export_policy"
    BY <1>6
  <2> QED
    BY <1>6, <2>1, <2>2
<1>7. CASE s = "export_policy"
  <2>1. v.outcome = IF FilterAttached(n) THEN "filtering" ELSE "clear"
    BY <1>7, ConfigShown DEF BgpEvaluate, ExportPolicy, Shows, FilterAttached
  <2>2. /\ v.outcome = "filtering" => e.target = "diagnosed_route_filter"
        /\ v.outcome = "clear" => e.target = "escalate"
    BY <1>7
  <2> QED
    BY <1>7, <2>1, <2>2
<1> QED
  BY <1>1, <1>2, <1>3, <1>4, <1>5, <1>6, <1>7 DEF BgpActionSteps

\* The run went from a clear firewall to the escalation, although the
\* configuration had not been looked at.
CutShort ==
  /\ executed # << >>
  /\ LastStep.step = "firewall_policy" /\ LastStep.outcome = "clear"
  /\ "peer_configuration" \notin visited

\* The walk of an investigation whose commands all show the network n.
OnCourse(n, has) ==
  /\ pc = "answered" => LikeShown(result, current, n, has)
  /\ Running => \/ Standing(current, n, has, incident)
                \/ pc = "loop" /\ current = "escalate" /\ CutShort
  /\ (Running /\ current \in ActionSteps /\ current # "peer_configuration") =>
       "peer_configuration" \notin visited
  /\ pc = "returned" => \/ Right(diagnosis, n, has, incident)
                        \/ status = "escalated" /\ CutShort

\* A pass of the loop.
LEMMA CourseAdvance ==
  ASSUME TypeOK, NEW n \in SUBSET Scenarios, NEW has, OnCourse(n, has), Advance
  PROVE  OnCourse(n, has)'
<1>1. EvaluateAndRecord /\ pc = "answered" /\ pc' = "loop"
      /\ UNCHANGED <<incident, visited>>
  BY DEF Advance, EvaluateAndRecord, locals
<1>2. /\ incident \in Incidents /\ current \in ActionSteps /\ result \in Results(current)
      /\ Evaluates(incident, current, result)
  BY <1>1 DEF EvaluateAndRecord, TypeOK
<1>3. /\ current \in BgpActionSteps
      /\ Evaluation = BgpEvaluate(incident, current, result)
      /\ LikeShown(result, current, n, has)
  BY <1>1, <1>2, Evaluated DEF Evaluation, OnCourse
<1>4. PICK e \in Transitions : /\ e.source = current /\ e.outcome = Evaluation.outcome
                               /\ e.target = current'
  BY PreferredIsOffered, CandidateIsTransition DEF Advance
<1>5. Standing(current, n, has, incident)
  BY <1>1 DEF OnCourse, Running
<1>6. /\ \/ Standing(current', n, has, incident)
         \/ current = "firewall_policy" /\ e.outcome = "clear" /\ current' = "escalate"
      /\ current = "peer_configuration" => current' \in TerminalSteps
  BY <1>3, <1>4, <1>5, TransitionsFollowNetwork, ShippedAssumption
<1>7. current # "peer_configuration" => "peer_configuration" \notin visited'
  BY <1>1, <1>2 DEF OnCourse, Running
<1>8. current = "peer_configuration" => current' \notin ActionSteps
  BY <1>6, StepsAssumption
<1>9. LastStep'.step = current /\ LastStep'.outcome = Evaluation.outcome /\ executed' # << >>
  BY <1>1, Appended DEF LastStep
<1> QED
  BY <1>1, <1>4, <1>6, <1>7, <1>8, <1>9 DEF OnCourse, CutShort, Running

\* The other steps of an investigation.  EndsInVerdict' rules out the step
\* limit and the dead end.
LEMMA CourseStep ==
  ASSUME TypeOK, IInv, EndsInVerdict', NEW n \in SUBSET Scenarios, NEW has,
         OnCourse(n, has), EngineStep
  PROVE  OnCourse(n, has)'
<1> USE DEF OnCourse, Running
<1>1. CASE StepLimit
  <2>1. pc' = "returned" /\ status' = "step_limit"
    BY <1>1 DEF StepLimit, IInv, WalkInv
  <2> QED
    BY <2>1 DEF EndsInVerdict
<1>2. CASE ReachTerminal
  <2>1. /\ pc = "loop" /\ current \in TerminalSteps
        /\ diagnosis' = TerminalDiagnosis[current] /\ pc' = "returned"
        /\ diagnosis' = "escalate" => status' = "escalated"
        /\ UNCHANGED <<incident, visited, executed>>
    BY <1>2 DEF ReachTerminal, locals
  <2>2. CASE Standing(current, n, has, incident)
    BY <2>1, <2>2, ShippedAssumption DEF Standing
  <2>3. CASE current = "escalate" /\ CutShort
    <3>1. diagnosis' = "escalate"
      BY <2>1, <2>3, ShippedAssumption DEF BgpTerminalDiagnosis
    <3> QED
      BY <2>1, <2>3, <3>1 DEF CutShort, LastStep
  <2> QED
    BY <2>1, <2>2, <2>3
<1>3. CASE CallTool
  <2>1. current # "escalate"
    BY <1>3, ShippedAssumption DEF CallTool, BgpActionSteps
  <2> QED
    BY <1>3, <2>1 DEF CallTool, locals
<1>4. CASE ToolRaises
  BY <1>4 DEF ToolRaises
<1>5. CASE EvaluationRaises
  BY <1>5 DEF EvaluationRaises
<1>6. CASE Advance
  BY <1>6, CourseAdvance
<1>7. CASE DeadEnd
  BY <1>7 DEF DeadEnd, EndsInVerdict
<1> QED
  BY <1>1, <1>2, <1>3, <1>4, <1>5, <1>6, <1>7 DEF EngineStep

LEMMA CourseBegins ==
  ASSUME NEW n, NEW has, NEW i, NEW p, Begin(i, p)
  PROVE  OnCourse(n, has)'
<1>1. /\ pc' = "loop" /\ current' = "bgp_summary" /\ visited' = {}
  BY ShippedAssumption DEF Begin, BgpStartStep
<1>2. Standing("bgp_summary", n, has, incident')
  BY DEF Standing, BgpTerminalSteps, BgpTerminalDiagnosis
<1> QED
  BY <1>1, <1>2 DEF OnCourse, Running

LEMMA CourseIsAnswered ==
  ASSUME NEW n, NEW has, OnCourse(n, has), NEW r, LikeShown(r, current, n, has),
         ToolReturns(r)
  PROVE  OnCourse(n, has)'
BY DEF OnCourse, Running, ToolReturns, locals

LEMMA CourseStays ==
  ASSUME NEW n, NEW has, OnCourse(n, has), UNCHANGED vars
  PROVE  OnCourse(n, has)'
BY DEF OnCourse, Running, vars, locals, CutShort, LastStep

\* Whoever has tried everything has not been cut short.
LEMMA ExhaustedIsNotCutShort ==
  ASSUME EscalationExhausts, pc = "returned", status = "escalated", CutShort
  PROVE  FALSE
<1> DEFINE e == Arc("firewall_policy", "clear", "peer_configuration", 90)
<1>1. e \in Candidates(LastStep.step, LastStep.outcome, visited)
  BY ShippedAssumption DEF CutShort, Candidates, BgpTransitions, Arc
<1>2. e.target \in TerminalSteps
  BY <1>1 DEF EscalationExhausts, CutShort
<1> QED
  BY <1>2, ShippedAssumption DEF Arc, BgpTerminalSteps, BgpTerminalDiagnosis

-----------------------------------------------------------------------------
(* In the lab.                                                             *)

StableInv == Quiet => OnCourse(network, HasRoute(network))

SeenOK == network \in seen /\ IsFiniteSet(seen)

LEMMA SeenStep ==
  ASSUME SeenOK, [LabNext]_allVars
  PROVE  SeenOK'
<1>1. CASE LabBegin
  BY <1>1, FS_Singleton DEF LabBegin, SeenOK
<1>2. ASSUME NEW n, Change(n) PROVE SeenOK'
  BY <1>2, FS_AddElement DEF Change, SeenOK
<1>3. CASE UNCHANGED <<network, seen>>
  BY <1>3 DEF SeenOK
<1> QED
  BY <1>1, <1>2, <1>3
     DEF LabNext, Observe, CommandFails, Apply, Reset, labVars, allVars

LEMMA StableStep ==
  ASSUME TypeOK, IInv, NetworkOK, SeenOK, StableInv, EndsInVerdict', [LabNext]_allVars
  PROVE  StableInv'
<1> PICK n \in SUBSET Scenarios : n = network
  BY DEF NetworkOK
<1>0. Quiet => OnCourse(n, HasRoute(n))
  BY DEF StableInv
<1>1. CASE LabBegin
  <2>1. OnCourse(n, HasRoute(n))' /\ network' = n
    BY <1>1, CourseBegins DEF LabBegin
  <2> QED
    BY <2>1 DEF StableInv
<1>2. CASE Observe
  <2>1. LikeShown(Shows(current, n), current, n, HasRoute(n))
    BY DEF LikeShown, Shows, Answer
  <2>2. Quiet => OnCourse(n, HasRoute(n))'
    BY <1>0, <1>2, <2>1, CourseIsAnswered DEF Observe
  <2>3. network' = n /\ (Quiet' => Quiet)
    BY <1>2 DEF Observe, Quiet
  <2> QED
    BY <2>2, <2>3 DEF StableInv
<1>3. CASE CommandFails
  BY <1>3 DEF CommandFails, StableInv, Quiet
<1>4. CASE EngineStep /\ UNCHANGED labVars
  <2>1. Quiet => OnCourse(n, HasRoute(n))'
    BY <1>0, <1>4, CourseStep
  <2>2. network' = n /\ (Quiet' => Quiet)
    BY <1>4 DEF labVars, Quiet
  <2> QED
    BY <2>1, <2>2 DEF StableInv
<1>5. CASE Apply \/ Reset
  <2>1. \E to : Change(to) /\ to # network
    <3>1. ASSUME NEW f \in Scenarios \ network, Change(network \cup {f})
          PROVE  \E to : Change(to) /\ to # network
      <4>1. network \cup {f} # network
        OBVIOUS
      <4> QED
        BY <3>1, <4>1
    <3>2. ASSUME NEW f \in network, Change(network \ {f})
          PROVE  \E to : Change(to) /\ to # network
      <4>1. network \ {f} # network
        OBVIOUS
      <4> QED
        BY <3>2, <4>1
    <3> QED
      BY <1>5, <3>1, <3>2 DEF Apply, Reset
  <2>2. ~Quiet'
    <3>1. PICK to : Change(to) /\ to # network
      BY <2>1
    <3> QED
      BY <3>1 DEF Change, Quiet, SeenOK
  <2> QED
    BY <2>2 DEF StableInv
<1>6. CASE UNCHANGED allVars
  <2>1. UNCHANGED vars /\ UNCHANGED labVars
    BY <1>6 DEF allVars
  <2>2. Quiet => OnCourse(n, HasRoute(n))'
    BY <1>0, <2>1, CourseStays
  <2>3. network' = n /\ (Quiet' => Quiet)
    BY <2>1 DEF labVars, Quiet
  <2> QED
    BY <2>2, <2>3 DEF StableInv
<1> QED
  BY <1>1, <1>2, <1>3, <1>4, <1>5, <1>6 DEF LabNext

LEMMA Stable == LabSpec => [](StableInv /\ SeenOK)
<1>1. LabInit => StableInv /\ SeenOK
  BY FS_Singleton DEF LabInit, Init, StableInv, OnCourse, SeenOK, Running
<1>2. /\ TypeOK /\ IInv /\ NetworkOK /\ EndsInVerdict' /\ StableInv /\ SeenOK
      /\ [LabNext]_allVars
      => StableInv' /\ SeenOK'
  BY StableStep, SeenStep
<1>3. LabSpec => []EndsInVerdict
  BY LabRunsTheEngine, ShippedEngineIsHonest
<1> QED
  BY <1>1, <1>2, <1>3, LabTypes, LabRunsTheEngine, Walk, PTL DEF LabSpec

\* With every command working and nothing changed, a run that does not escalate
\* before all diagnostics it may still run are run ends in the right verdict.
\* The condition is one on the navigator: the run learned_slow shows that
\* experience can make it fail.
THEOREM ExhaustiveWalkIsRight == LabSpec => [](EscalationExhausts => StableVerdictIsRight)
<1>1. StableInv /\ SeenOK => (EscalationExhausts => StableVerdictIsRight)
  <2> SUFFICES ASSUME StableInv, SeenOK, EscalationExhausts,
                      pc = "returned", ~failed, Cardinality(seen) = 1
               PROVE  Right(diagnosis, network, HasRoute(network), incident)
    BY DEF StableVerdictIsRight, Right
  <2>1. Quiet
    BY FS_Singleton DEF SeenOK, Quiet
  <2> QED
    BY <2>1, ExhaustedIsNotCutShort DEF StableInv, OnCourse
<1> QED
  BY <1>1, Stable, PTL

\* So does the fixed navigator: on a network that stays as it is, and commands
\* that work, it names what breaks the session, and with the session up gives
\* the all-clear when r2 has the prefix.
THEOREM FixedWalkIsRight == LabSpec => [](policy = "fixed" => StableVerdictIsRight)
<1>1. LabSpec => [](policy = "fixed" => EscalationExhausts)
  BY LabRunsTheEngine, ShippedTablesAgree, FixedEscalatesLast
<1> QED
  BY <1>1, ExhaustiveWalkIsRight, PTL

\* With quick commands, so does every other, whatever earlier runs have taught
\* it.
THEOREM QuickWalkIsRight ==
  ASSUME ShippedQuick
  PROVE  LabSpec => []StableVerdictIsRight
<1>1. LabSpec => []EscalationExhausts
  BY LabRunsTheEngine, ShippedEscalatesLast
<1> QED
  BY <1>1, ExhaustiveWalkIsRight, PTL

\* The prefix-list of scenario.py denies the very prefix that the policy is to
\* block, so that the deny clause does not cover it and the next one permits it.
LEMMA FilterPassesLoopback == FirstMatchPermits(BLOCK_EXPORT, Loopback)
<1> DEFINE blocked == {p \in Prefixes : FirstMatchPermits(BLOCK_LOOPBACK, p)}
<1>1. Loopback \notin blocked
  <2> SUFFICES ASSUME FirstMatchPermits(BLOCK_LOOPBACK, Loopback) PROVE FALSE
    OBVIOUS
  <2>1. PICK k \in DOMAIN BLOCK_LOOPBACK :
          /\ BLOCK_LOOPBACK[k].action = "permit"
          /\ \A j \in 1..(k - 1) : Loopback \notin BLOCK_LOOPBACK[j].covers
    BY DEF FirstMatchPermits
  <2>2. /\ DOMAIN BLOCK_LOOPBACK = {1, 2} /\ BLOCK_LOOPBACK[1].action = "deny"
        /\ Loopback \in BLOCK_LOOPBACK[1].covers
    BY DEF BLOCK_LOOPBACK, Entry
  <2> QED
    BY <2>1, <2>2
<1>2. BLOCK_EXPORT = <<Entry("deny", blocked), Entry("permit", Prefixes)>>
  BY DEF BLOCK_EXPORT
<1> HIDE DEF blocked
<1>3. /\ DOMAIN BLOCK_EXPORT = {1, 2}
      /\ BLOCK_EXPORT[2].action = "permit" /\ BLOCK_EXPORT[2].covers = Prefixes
      /\ BLOCK_EXPORT[1].covers = blocked
  BY <1>2 DEF Entry
<1>4. Loopback \in Prefixes /\ 1..(2 - 1) = {1}
  BY DEF Prefixes
<1> QED
  BY <1>1, <1>3, <1>4 DEF FirstMatchPermits

\* Therefore the scenario route_map_filter goes unnoticed: on a network that
\* stays as it is, with commands that work and the session up, every quick run
\* about a prefix spelled as FRR does gives the all-clear, the filter applied or
\* not (scenario.py:50-63).
THEOREM FilterGoesUnnoticed ==
  ASSUME ShippedQuick
  PROVE  LabSpec => [](/\ pc = "returned" /\ ~failed /\ Cardinality(seen) = 1
                       /\ network \subseteq {"route_map_filter"}
                       /\ incident \in CanonicalIncidents
                       => diagnosis = "no_fault_detected")
<1>1. StableVerdictIsRight =>
        (/\ pc = "returned" /\ ~failed /\ Cardinality(seen) = 1
         /\ network \subseteq {"route_map_filter"}
         /\ incident \in CanonicalIncidents
         => diagnosis = "no_fault_detected")
  BY FilterPassesLoopback DEF StableVerdictIsRight, HasRoute, SessionUp
<1> QED
  BY <1>1, QuickWalkIsRight, PTL

-----------------------------------------------------------------------------
(* The fixture suite is another one.                                       *)

\* A name of the suite is one of the lab.
LEMMA ScenariosOfRuns ==
  ASSUME NEW k \in Nat \ {0}
  PROVE  ScenarioOf(k) \in Scenarios /\ \E m \in DOMAIN SCENARIOS : ScenarioOf(k) = SCENARIOS[m]
<1>1. (k - 1) % 4 \in 0..3
  OBVIOUS
<1>2. ((k - 1) % 4) + 1 \in 1..4
  BY <1>1
<1>3. Len(SCENARIOS) = 4 /\ DOMAIN SCENARIOS = 1..4
  BY DEF SCENARIOS
<1>4. \A m \in 1..4 : SCENARIOS[m] \in Scenarios
  BY DEF SCENARIOS, Scenarios
<1> QED
  BY <1>2, <1>3, <1>4 DEF ScenarioOf

\* The recorded files show what the modelled lab shows with their scenario
\* applied, each at its own latency: the two descriptions of FRR's output,
\* written from different sources, agree, but for the prefix, which r2 lacks in
\* the files of route_map_filter and has in the lab (FilterPassesLoopback).
LEMMA FilesShowTheFault ==
  ASSUME NEW scenario \in Scenarios, NEW s \in BgpActionSteps,
         NEW f \in Fixtures[scenario], f.device = BgpDevice[s], f.tool = BgpTool[s]
  PROVE  /\ LikeShown(f.result, s, {scenario}, FALSE)
         /\ f.result \in [returncode : ReturnCodes(s), stdout : Stdouts[s],
                          latency_ms : {f.result.latency_ms}]
<1> DEFINE Fits(g) == (g.device = BgpDevice[s] /\ g.tool = BgpTool[s]) =>
             /\ LikeShown(g.result, s, {scenario}, FALSE)
             /\ g.result \in [returncode : ReturnCodes(s), stdout : Stdouts[s],
                              latency_ms : {g.result.latency_ms}]
<1> SUFFICES Fits(f)
  OBVIOUS
<1>1. CASE scenario = "interface_down"
  <2> DEFINE f1 == File("r1", "show_bgp_summary", "other_state", 81)
             f2 == File("r1", "show_interface", "down", 19)
  <2>0. f \in {f1, f2}
    <3>1. Fixtures[scenario] = {f1, f2}
      BY <1>1 DEF Fixtures
    <3> QED
      BY <3>1
  <2>1. Fits(f1)
    BY <1>1 DEF File, LikeShown, Shows, Answer, SessionUp, BgpActionSteps, BgpDevice,
           BgpTool, ReturnCodes, Stdouts
  <2>2. Fits(f2)
    BY <1>1 DEF File, LikeShown, Shows, Answer, SessionUp, BgpActionSteps, BgpDevice,
           BgpTool, ReturnCodes, Stdouts
  <2> HIDE DEF Fits, f1, f2
  <2> QED
    BY <2>0, <2>1, <2>2
<1>2. CASE scenario = "asn_mismatch"
  <2> DEFINE c == Config(FALSE, "other", "none")
             f1 == File("r1", "show_bgp_summary", "other_state", 77)
             f2 == File("r1", "show_interface", "up", 18)
             f3 == File("r1", "ping_peer", "any", 1021)
             f4 == File("r1", "show_firewall", "no_rule", 22)
             f5 == File("r1", "show_running_config", c, 95)
  <2>0. f \in {f1, f2, f3, f4, f5}
    <3>1. Fixtures[scenario] = {f1, f2, f3, f4, f5}
      BY <1>2 DEF Fixtures
    <3> QED
      BY <3>1
  <2>1. Fits(f1)
    BY <1>2 DEF File, LikeShown, Shows, Answer, SessionUp, BgpActionSteps, BgpDevice,
           BgpTool, ReturnCodes, Stdouts
  <2>2. Fits(f2)
    BY <1>2 DEF File, LikeShown, Shows, Answer, SessionUp, BgpActionSteps, BgpDevice,
           BgpTool, ReturnCodes, Stdouts
  <2>3. Fits(f3)
    BY <1>2 DEF File, LikeShown, Shows, Answer, SessionUp, BgpActionSteps, BgpDevice,
           BgpTool, ReturnCodes, Stdouts
  <2>4. Fits(f4)
    BY <1>2 DEF File, LikeShown, Shows, Answer, SessionUp, BgpActionSteps, BgpDevice,
           BgpTool, ReturnCodes, Stdouts
  <2>5. Fits(f5)
    <3> DEFINE down == "neighbor_shutdown" \in {scenario}
    <3>1. down <=> FALSE
      BY <1>2
    <3>2. RunningConfig({scenario})
            = [shutdown |-> down, remote_as |-> "other", route_map |-> "none"]
      BY <1>2, ConfigShown
    <3>3. down = FALSE
      <4> HIDE DEF down
      <4> QED
        BY <3>1, Zenon
    <3>4. RunningConfig({scenario}) = c
      <4> HIDE DEF down
      <4> QED
        BY <3>2, <3>3 DEF Config
    <3>5. c \in RunningConfigs
      BY DEF Config, RunningConfigs
    <3> HIDE DEF c
    <3> QED
      BY <3>4, <3>5 DEF File, LikeShown, Shows, Answer, BgpActionSteps,
                  BgpTool, ReturnCodes, Stdouts
  <2> HIDE DEF Fits, f1, f2, f3, f4, f5
  <2> QED
    BY <2>0, <2>1, <2>2, <2>3, <2>4, <2>5
<1>3. CASE scenario = "neighbor_shutdown"
  <2> DEFINE c == Config(TRUE, "expected", "none")
             f1 == File("r1", "show_bgp_summary", "other_state", 74)
             f2 == File("r1", "show_interface", "up", 17)
             f3 == File("r1", "ping_peer", "any", 1018)
             f4 == File("r1", "show_firewall", "no_rule", 21)
             f5 == File("r1", "show_running_config", c, 91)
  <2>0. f \in {f1, f2, f3, f4, f5}
    <3>1. Fixtures[scenario] = {f1, f2, f3, f4, f5}
      BY <1>3 DEF Fixtures
    <3> QED
      BY <3>1
  <2>1. Fits(f1)
    BY <1>3 DEF File, LikeShown, Shows, Answer, SessionUp, BgpActionSteps, BgpDevice,
           BgpTool, ReturnCodes, Stdouts
  <2>2. Fits(f2)
    BY <1>3 DEF File, LikeShown, Shows, Answer, SessionUp, BgpActionSteps, BgpDevice,
           BgpTool, ReturnCodes, Stdouts
  <2>3. Fits(f3)
    BY <1>3 DEF File, LikeShown, Shows, Answer, SessionUp, BgpActionSteps, BgpDevice,
           BgpTool, ReturnCodes, Stdouts
  <2>4. Fits(f4)
    BY <1>3 DEF File, LikeShown, Shows, Answer, SessionUp, BgpActionSteps, BgpDevice,
           BgpTool, ReturnCodes, Stdouts
  <2>5. Fits(f5)
    <3> DEFINE down == "neighbor_shutdown" \in {scenario}
    <3>1. down <=> TRUE
      BY <1>3
    <3>2. RunningConfig({scenario})
            = [shutdown |-> down, remote_as |-> "expected", route_map |-> "none"]
      BY <1>3, ConfigShown
    <3>3. down = TRUE
      <4> HIDE DEF down
      <4> QED
        BY <3>1, Zenon
    <3>4. RunningConfig({scenario}) = c
      <4> HIDE DEF down
      <4> QED
        BY <3>2, <3>3 DEF Config
    <3>5. c \in RunningConfigs
      BY DEF Config, RunningConfigs
    <3> HIDE DEF c
    <3> QED
      BY <3>4, <3>5 DEF File, LikeShown, Shows, Answer, BgpActionSteps,
                  BgpTool, ReturnCodes, Stdouts
  <2> HIDE DEF Fits, f1, f2, f3, f4, f5
  <2> QED
    BY <2>0, <2>1, <2>2, <2>3, <2>4, <2>5
<1>4. CASE scenario = "route_map_filter"
  <2> DEFINE c == Config(FALSE, "expected", "deny")
             f1 == File("r1", "show_bgp_summary", "established", 72)
             f2 == File("r2", "show_bgp_route", "no_prefix", 83)
             f3 == File("r1", "show_running_config", c, 99)
  <2>0. f \in {f1, f2, f3}
    <3>1. Fixtures[scenario] = {f1, f2, f3}
      BY <1>4 DEF Fixtures
    <3> QED
      BY <3>1
  <2>1. Fits(f1)
    BY <1>4 DEF File, LikeShown, Shows, Answer, SessionUp, BgpActionSteps, BgpDevice,
           BgpTool, ReturnCodes, Stdouts
  <2>2. Fits(f2)
    BY <1>4 DEF File, LikeShown, Shows, Answer, SessionUp, BgpActionSteps, BgpDevice,
           BgpTool, ReturnCodes, Stdouts
  <2>3. Fits(f3)
    <3> DEFINE down == "neighbor_shutdown" \in {scenario}
    <3>1. down <=> FALSE
      BY <1>4
    <3>2. RunningConfig({scenario})
            = [shutdown |-> down, remote_as |-> "expected", route_map |-> "deny"]
      BY <1>4, ConfigShown
    <3>3. down = FALSE
      <4> HIDE DEF down
      <4> QED
        BY <3>1, Zenon
    <3>4. RunningConfig({scenario}) = c
      <4> HIDE DEF down
      <4> QED
        BY <3>2, <3>3 DEF Config
    <3>5. c \in RunningConfigs
      BY DEF Config, RunningConfigs
    <3> HIDE DEF c
    <3> QED
      BY <3>4, <3>5 DEF File, LikeShown, Shows, Answer, BgpActionSteps,
                  BgpTool, ReturnCodes, Stdouts
  <2> HIDE DEF Fits, f1, f2, f3
  <2> QED
    BY <2>0, <2>1, <2>2, <2>3
<1> QED
  BY <1>1, <1>2, <1>3, <1>4 DEF Scenarios

\* The run that is under way is one of the suite.
SuiteCount ==
  /\ runs \in 0..RunsInAll
  /\ pc # "idle" => runs # 0

\* A file that is found is a result of the step's tool.
LEMMA FoundIsShown ==
  ASSUME NEW k \in Nat \ {0}, NEW s \in ActionSteps, NEW f \in Found(ScenarioOf(k), s)
  PROVE  f.result \in Results(s) /\ LikeShown(f.result, s, {ScenarioOf(k)}, FALSE)
<1>1. s \in BgpActionSteps /\ Device[s] = BgpDevice[s] /\ Tool[s] = BgpTool[s]
      /\ Results(s) = BgpResults(s)
  BY ShippedAssumption
<1>2. f \in Fixtures[ScenarioOf(k)] /\ f.device = BgpDevice[s] /\ f.tool = BgpTool[s]
  BY <1>1 DEF Found
<1>3. /\ LikeShown(f.result, s, {ScenarioOf(k)}, FALSE)
      /\ f.result \in [returncode : ReturnCodes(s), stdout : Stdouts[s],
                       latency_ms : {f.result.latency_ms}]
  BY <1>1, <1>2, ScenariosOfRuns, FilesShowTheFault
<1>4. f.result.latency_ms \in Latencies
  BY <1>2, ScenariosOfRuns, SuiteAssumption
<1> QED
  BY <1>1, <1>3, <1>4 DEF BgpResults

LEMMA SuiteStep ==
  ASSUME TypeOK, SuiteCount, [SuiteNext]_fixtureVars
  PROVE  [Next]_vars /\ SuiteCount'
<1>1. CASE StartRun
  <2>1. runs + 1 \in 1..RunsInAll
    BY <1>1 DEF StartRun, SuiteCount, RunsInAll, Phases, SCENARIOS
  <2>2. IncidentOf(runs + 1) \in Incidents /\ PhaseOf(runs + 1) \in Policies
    BY <2>1, SuiteAssumption
  <2> QED
    BY <1>1, <2>1, <2>2 DEF StartRun, Next, Begin, SuiteCount
<1>2. CASE ReadFixture
  <2>1. PICK f \in Found(ScenarioOf(runs), current) : ToolReturns(f.result)
    BY <1>2 DEF ReadFixture
  <2>2. runs \in Nat \ {0} /\ current \in ActionSteps /\ pc = "calling"
    BY <1>2 DEF ReadFixture, SuiteCount, TypeOK
  <2>3. f.result \in Results(current)
    BY <2>2, FoundIsShown
  <2> QED
    BY <2>1, <2>2, <2>3 DEF Next, ToolAnswers, ToolReturns, SuiteCount
<1>3. CASE MissFixture
  BY <1>3 DEF MissFixture, ToolRaises, Next, EngineStep, SuiteCount
<1>4. CASE Investigate
  BY <1>4 DEF Investigate, Next, SuiteCount, EngineStep, StepLimit, ReachTerminal, CallTool,
              ToolRaises, EvaluationRaises, Advance, DeadEnd, EvaluateAndRecord
<1>5. CASE Collect
  BY <1>5 DEF Collect, vars, SuiteCount
<1>6. CASE UNCHANGED fixtureVars
  BY <1>6 DEF fixtureVars, vars, SuiteCount
<1> QED
  BY <1>1, <1>2, <1>3, <1>4, <1>5, <1>6 DEF SuiteNext

LEMMA SuiteTypes == SuiteSpec => [](TypeOK /\ CountInv /\ SuiteCount)
<1>1. SuiteInit => TypeOK /\ CountInv /\ SuiteCount
  BY TypeStart DEF SuiteInit, Init, SuiteCount, RunsInAll, Phases, SCENARIOS
<1>2. TypeOK /\ CountInv /\ SuiteCount /\ [SuiteNext]_fixtureVars
        => (TypeOK /\ CountInv /\ SuiteCount)'
  BY SuiteStep, TypeStep
<1> QED
  BY <1>1, <1>2, PTL DEF SuiteSpec

\* The suite implements the engine, too: its runs, one after the other with the
\* history of those before, are investigations of the engine, also when a file
\* is missing and the suite ends.
THEOREM SuiteRunsTheEngine == SuiteSpec => Spec
<1>1. SuiteInit => Init
  BY DEF SuiteInit
<1>2. TypeOK /\ SuiteCount /\ [SuiteNext]_fixtureVars => [Next]_vars
  BY SuiteStep
<1> QED
  BY <1>1, <1>2, SuiteTypes, PTL DEF SuiteSpec, Spec

\* What was collected is right, and the run under way is on the course of its
\* scenario.
SuiteInv ==
  /\ \E R : /\ collected \in Seq(R)
            /\ \A c \in R : c.diagnosis = c.scenario
  /\ runs # 0 => OnCourse({ScenarioOf(runs)}, FALSE)

LEMMA SuiteKeepsCourse ==
  ASSUME TypeOK, IInv, SuiteCount, SuiteCount', EndsInVerdict', EscalationExhausts,
         SuiteInv, [SuiteNext]_fixtureVars
  PROVE  SuiteInv'
<1> PICK R : collected \in Seq(R) /\ \A c \in R : c.diagnosis = c.scenario
  BY DEF SuiteInv
<1>n. PICK n : n = {ScenarioOf(runs)}
  OBVIOUS
<1>0. runs # 0 => n \in SUBSET Scenarios /\ OnCourse(n, FALSE)
  <2>1. runs # 0 => OnCourse({ScenarioOf(runs)}, FALSE)
    BY DEF SuiteInv
  <2>2. runs # 0 => runs \in Nat \ {0}
    BY DEF SuiteCount
  <2>3. runs # 0 => {ScenarioOf(runs)} \in SUBSET Scenarios
    BY <2>2, ScenariosOfRuns
  <2> HIDE DEF OnCourse
  <2> QED
    BY <1>n, <2>1, <2>3
<1>1. CASE StartRun
  <2> PICK m : m = {ScenarioOf(runs')}
    OBVIOUS
  <2>1. OnCourse(m, FALSE)'
    BY <1>1, CourseBegins DEF StartRun
  <2> QED
    BY <1>1, <2>1 DEF StartRun, suiteVars, SuiteInv
<1>2. CASE ReadFixture
  <2>1. PICK f \in Found(ScenarioOf(runs), current) : ToolReturns(f.result)
    BY <1>2 DEF ReadFixture
  <2>2. runs \in Nat \ {0} /\ current \in ActionSteps /\ runs' = runs
    BY <1>2, <2>1 DEF ReadFixture, SuiteCount, TypeOK, ToolReturns
  <2>3. LikeShown(f.result, current, n, FALSE)
    BY <1>n, <2>2, FoundIsShown
  <2>4. OnCourse(n, FALSE)'
    BY <1>0, <2>1, <2>2, <2>3, CourseIsAnswered
  <2> QED
    BY <1>n, <1>2, <2>2, <2>4 DEF ReadFixture, suiteVars, SuiteInv
<1>3. CASE MissFixture \/ Investigate
  <2>1. EngineStep /\ UNCHANGED suiteVars
    BY <1>3 DEF MissFixture, Investigate, EngineStep
  <2>2. runs' = runs
    BY <2>1 DEF EngineStep, StepLimit, ReachTerminal, CallTool, ToolRaises,
                EvaluationRaises, Advance, DeadEnd
  <2>3. runs # 0 => OnCourse(n, FALSE)'
    BY <1>0, <2>1, CourseStep
  <2> QED
    BY <1>n, <2>1, <2>2, <2>3 DEF suiteVars, SuiteInv
<1>4. CASE Collect
  <2>1. /\ pc = "returned" /\ UNCHANGED vars
        /\ collected' = Append(collected, Returned(runs))
    BY <1>4 DEF Collect
  <2>2. runs' = runs /\ (runs # 0 => OnCourse(n, FALSE)')
    BY <1>0, <2>1, CourseStays DEF vars
  <2>3. runs # 0
    BY <2>1 DEF SuiteCount
  <2>4. Right(diagnosis, n, FALSE, incident)
    BY <1>0, <2>1, <2>3, ExhaustedIsNotCutShort DEF OnCourse
  <2>5. diagnosis = ScenarioOf(runs)
    <3>1. ScenarioOf(runs) \in Scenarios /\ n = {ScenarioOf(runs)}
      BY <1>n, <2>3, ScenariosOfRuns DEF SuiteCount
    <3>2. CASE ScenarioOf(runs) = "route_map_filter"
      BY <2>4, <3>1, <3>2 DEF Right, SessionUp, FilterAttached
    <3>3. CASE ScenarioOf(runs) # "route_map_filter"
      <4>1. ~SessionUp(n)
        BY <3>1, <3>3 DEF SessionUp, Scenarios
      <4> QED
        BY <2>4, <3>1, <4>1 DEF Right
    <3> QED
      BY <3>2, <3>3
  <2>6. Returned(runs).diagnosis = diagnosis /\ Returned(runs).scenario = ScenarioOf(runs)
    BY DEF Returned
  <2> DEFINE c == Returned(runs)
  <2> HIDE DEF c
  <2>7. collected' \in Seq(R \cup {c})
    BY <2>1 DEF c
  <2>8. \A d \in R \cup {c} : d.diagnosis = d.scenario
    BY <2>5, <2>6 DEF c
  <2> QED
    BY <1>n, <2>2, <2>7, <2>8 DEF SuiteInv
<1>5. CASE UNCHANGED fixtureVars
  <2>1. UNCHANGED vars /\ UNCHANGED collected
    BY <1>5 DEF fixtureVars, suiteVars
  <2>2. runs' = runs /\ (runs # 0 => OnCourse(n, FALSE)')
    BY <1>0, <2>1, CourseStays DEF vars
  <2> QED
    BY <1>n, <2>1, <2>2 DEF SuiteInv
<1> QED
  BY <1>1, <1>2, <1>3, <1>4, <1>5 DEF SuiteNext

\* Every run of the suite that comes to its end finds the fault of its scenario,
\* whichever files are missing and with whichever history of quick commands the
\* suite starts: the "100% deterministic diagnostic accuracy" of the README, for
\* navigators that go by authored priorities and by what was learned alike.
THEOREM SuiteIsAccurate ==
  ASSUME ShippedQuick
  PROVE  SuiteSpec => []SuiteDiagnoses
<1>1. SuiteInit => SuiteInv
  <2> SUFFICES ASSUME SuiteInit PROVE SuiteInv
    OBVIOUS
  <2>1. collected \in Seq({}) /\ runs = 0
    BY DEF SuiteInit, Init
  <2> QED
    BY <2>1 DEF SuiteInv
<1>2. /\ TypeOK /\ IInv /\ SuiteCount /\ SuiteCount' /\ EndsInVerdict' /\ EscalationExhausts
      /\ SuiteInv /\ [SuiteNext]_fixtureVars
      => SuiteInv'
  BY SuiteKeepsCourse
<1>3. SuiteInv => SuiteDiagnoses
  BY DEF SuiteInv, SuiteDiagnoses
<1>4. SuiteSpec => []EndsInVerdict
  BY SuiteRunsTheEngine, ShippedEngineIsHonest
<1>5. SuiteSpec => []EscalationExhausts
  BY SuiteRunsTheEngine, ShippedEscalatesLast
<1> QED
  BY <1>1, <1>2, <1>3, <1>4, <1>5, SuiteTypes, SuiteRunsTheEngine, Walk, PTL
     DEF SuiteSpec
================================================================================
