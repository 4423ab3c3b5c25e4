---------------------------- MODULE VerdictProofs ----------------------------
(***************************************************************************)
(* What a completed investigation may say: theorems about the verdicts of  *)
(* ProcedureEngine, under the conditions on the procedure that they need.  *)
(***************************************************************************)
EXTENDS EngineRefinement, ProcedureEngineProofs

-----------------------------------------------------------------------------
(* A fault is reported only on proof.                                      *)

\* The proof of a fault is in the history as long as the run stands at it.
ProofRecorded ==
  (executed # << >> /\ LastStep.diagnosis # NoDiagnosis) =>
    Edge(EvidenceId(incident, experience.sequence), "SUPPORTS",
         DiagnosisId(LastStep.diagnosis)) \in experience.edges

\* A loop that stands at a terminal step which claims a fault came from the
\* step that proved this fault.
ClaimIsProven ==
  (pc = "loop" /\ current \in TerminalSteps /\ Claims(TerminalDiagnosis[current])) =>
    executed # << >> /\ LastStep.diagnosis = TerminalDiagnosis[current]

ProofInv == ProofRecorded /\ ClaimIsProven /\ DiagnosisHasEvidence

\* Both hold throughout, for every procedure whose terminal labels agree with
\* its evaluator.
LEMMA ProofsAreRecorded ==
  ASSUME TerminalsMatchEvidence
  PROVE  Spec => []ProofInv
<1> USE DEF LastStep
<1>1. Init => ProofInv
  <2> SUFFICES ASSUME Init PROVE ProofInv
    OBVIOUS
  <2> QED
    BY DEF Init, ProofInv, ProofRecorded, ClaimIsProven, DiagnosisHasEvidence
<1>2. TypeOK /\ IInv /\ WellFormed(experience) /\ ProofInv /\ [Next]_vars => ProofInv'
  <2> SUFFICES ASSUME TypeOK, IInv, WellFormed(experience), ProofInv, [Next]_vars
               PROVE  ProofInv'
    OBVIOUS
  <2> USE DEF ProofInv, ProofRecorded, ClaimIsProven, DiagnosisHasEvidence
  <2>1. ASSUME NEW i \in Incidents, NEW p \in Policies, Begin(i, p) PROVE ProofInv'
    <3>1. StartStep \notin TerminalSteps
      BY StepsAssumption DEF TerminalsMatchEvidence
    <3> QED
      BY <2>1, <3>1 DEF Begin
  <2>2. CASE StepLimit
    <3>1. diagnosis = NoDiagnosis
      BY <2>2 DEF StepLimit, IInv, WalkInv, Running
    <3> QED
      BY <2>2, <3>1, StepsAssumption DEF StepLimit, Claims, locals
  <2>3. CASE ReachTerminal
    <3>1. /\ diagnosis' = TerminalDiagnosis[current]
          /\ pc = "loop" /\ pc' = "returned" /\ current \in TerminalSteps
          /\ UNCHANGED <<incident, executed, experience>>
      BY <2>3 DEF ReachTerminal, locals
    <3>2. ProofRecorded' /\ ClaimIsProven'
      BY <3>1
    <3>3. Claims(diagnosis') =>
            /\ executed # << >>
            /\ LastStep.diagnosis = diagnosis'
            /\ diagnosis' # NoDiagnosis
      BY <3>1, StepsAssumption DEF Claims
    <3> QED
      BY <3>1, <3>2, <3>3
  <2>4. CASE CallTool
    BY <2>4 DEF CallTool, locals
  <2>5. CASE ToolAnswers
    BY <2>5 DEF ToolAnswers, ToolReturns, locals
  <2>6. CASE ToolRaises
    BY <2>6 DEF ToolRaises, locals
  <2>7. CASE EvaluationRaises
    BY <2>7 DEF EvaluationRaises, locals
  <2>8. ASSUME EvaluateAndRecord, UNCHANGED incident
        PROVE  /\ ProofRecorded'
               /\ executed' # << >>
               /\ LastStep'.diagnosis = Evaluation.diagnosis
    <3>1. /\ executed' # << >>
          /\ LastStep'.diagnosis = Evaluation.diagnosis
      BY <2>8, Appended
    <3>2. Evaluation.diagnosis # NoDiagnosis =>
            Edge(EvidenceId(incident, experience'.sequence), "SUPPORTS",
                 DiagnosisId(Evaluation.diagnosis)) \in experience'.edges
      BY <2>8, RecordedExtends
    <3> QED
      BY <2>8, <3>1, <3>2
  <2>9. CASE Advance
    <3>1. EvaluateAndRecord /\ UNCHANGED incident /\ pc' = "loop"
      BY <2>9 DEF Advance, locals
    <3>2. PICK e \in Candidates(current, Evaluation.outcome, visited) : current' = e.target
      BY <2>9, PreferredIsOffered DEF Advance
    <3>3. e \in Transitions /\ e.source = current /\ e.outcome = Evaluation.outcome
      BY <3>2, CandidateIsTransition
    <3>4. current \in ActionSteps /\ incident \in Incidents /\ result \in Results(current)
          /\ Evaluates(incident, current, result)
      BY <3>1 DEF EvaluateAndRecord, TypeOK
    <3>5. (current' \in TerminalSteps /\ Claims(TerminalDiagnosis[current'])) =>
            Evaluation.diagnosis = TerminalDiagnosis[current']
      BY <3>2, <3>3, <3>4 DEF TerminalsMatchEvidence, Evaluation
    <3> QED
      BY <2>8, <3>1, <3>5
  <2>10. CASE DeadEnd
    <3>1. /\ EvaluateAndRecord
          /\ UNCHANGED incident
          /\ pc' = "returned"
          /\ diagnosis' = Evaluation.diagnosis
      BY <2>10 DEF DeadEnd, locals
    <3>2. ProofRecorded' /\ executed' # << >> /\ LastStep'.diagnosis = diagnosis'
      BY <2>8, <3>1
    <3>3. Claims(diagnosis') => diagnosis' # NoDiagnosis
      BY StepsAssumption DEF Claims
    <3> QED
      BY <3>1, <3>2, <3>3
  <2>11. CASE UNCHANGED vars
    BY <2>11 DEF vars, locals
  <2> QED
    BY <2>1, <2>2, <2>3, <2>4, <2>5, <2>6, <2>7, <2>9, <2>10, <2>11
       DEF Next, EngineStep
<1> QED
  BY <1>1, <1>2, TypeAndCount, Walk, HistoryWellFormed, PTL DEF Spec

\* A fault is reported only on evidence of the same run, recorded in the
\* history, whose evaluation proved that fault: for every procedure whose
\* terminal labels agree with its evaluator.
THEOREM DiagnosisIsProven ==
  ASSUME TerminalsMatchEvidence
  PROVE  Spec => []DiagnosisHasEvidence
<1>1. ProofInv => DiagnosisHasEvidence
  BY DEF ProofInv
<1> QED
  BY <1>1, ProofsAreRecorded, PTL

-----------------------------------------------------------------------------
(* A completed run gives a verdict.                                        *)

\* The counting argument: visited holds one step per pass of the loop.
PassesInv(rank) ==
  /\ pc = "loop" => Cardinality(visited) = Len(executed)
  /\ pc \in {"calling", "answered"} => Cardinality(visited) = Len(executed) + 1
  /\ (Running /\ current \in ActionSteps) =>
       \A s \in visited : rank[s] <= rank[current]
  /\ EndsInVerdict

LEMMA PassesStep ==
  ASSUME NEW rank \in [ActionSteps -> Nat], WayOut(rank),
         IsFiniteSet(ActionSteps), Cardinality(ActionSteps) < MaxSteps,
         TypeOK, IInv, PassesInv(rank), [Next]_vars
  PROVE  PassesInv(rank)'
<1> DEFINE P == PassesInv(rank)
<1>0. /\ MaxSteps \in Nat /\ Cardinality(ActionSteps) \in Nat
      /\ Cardinality({}) = 0
  BY BoundsAssumption, FS_CardinalityType, FS_EmptySet
<1> USE DEF PassesInv, Running, EndsInVerdict
<1>a. /\ IsFiniteSet(visited) /\ Cardinality(visited) <= Cardinality(ActionSteps)
      /\ Len(executed) \in Nat /\ Cardinality(visited) \in Nat
  BY FS_Subset, FS_CardinalityType, LenProperties DEF TypeOK
<1>1. ASSUME NEW i \in Incidents, NEW p \in Policies, Begin(i, p) PROVE P'
  <2>1. executed' = << >> /\ Len(executed') = 0
    BY <1>1, EmptySeq DEF Begin
  <2> QED
    BY <1>1, <2>1, <1>0 DEF Begin
<1>2. CASE StepLimit
  <2>1. Cardinality(visited) = Len(executed) /\ Len(executed) >= MaxSteps
    BY <1>2 DEF StepLimit
  <2> QED
    BY <2>1, <1>a, <1>0
<1>3. CASE ReachTerminal
  BY <1>3 DEF ReachTerminal, locals
<1>4. CASE CallTool
  <2>1. current \notin visited
    BY <1>4 DEF CallTool, IInv, WalkInv
  <2>2. Cardinality(visited') = Cardinality(visited) + 1
    BY <1>4, <1>a, <2>1, FS_AddElement DEF CallTool
  <2>3. \A s \in visited' : rank[s] <= rank[current]
    BY <1>4 DEF CallTool
  <2> QED
    BY <1>4, <2>2, <2>3 DEF CallTool, locals
<1>5. CASE ToolAnswers
  BY <1>5 DEF ToolAnswers, ToolReturns, locals
<1>6. CASE ToolRaises
  BY <1>6 DEF ToolRaises, locals
<1>7. CASE EvaluationRaises
  BY <1>7 DEF EvaluationRaises, locals
<1>8. ASSUME EvaluateAndRecord
      PROVE  /\ current \in ActionSteps
             /\ Cardinality(visited) = Len(executed')
             /\ \A s \in visited : rank[s] <= rank[current]
             /\ incident \in Incidents /\ result \in Results(current)
             /\ Evaluates(incident, current, result)
  BY <1>8, Appended DEF EvaluateAndRecord, TypeOK
<1>9. CASE Advance
  <2>1. EvaluateAndRecord /\ pc' = "loop" /\ visited' = visited
    BY <1>9 DEF Advance
  <2>2. PICK e \in Candidates(current, Evaluation.outcome, visited) : current' = e.target
    BY <1>9, PreferredIsOffered DEF Advance
  <2>3. e \in Transitions /\ e.source = current
    BY <2>2, CandidateIsTransition
  <2>4. ASSUME current' \in ActionSteps, NEW s \in visited
        PROVE  rank[s] <= rank[current']
    <3>1. rank[current] <= rank[current']
      BY <1>8, <2>1, <2>2, <2>3, <2>4 DEF WayOut
    <3>2. s \in ActionSteps /\ rank[s] <= rank[current]
      BY <1>8, <2>1 DEF TypeOK
    <3>3. rank[s] \in Nat /\ rank[current] \in Nat /\ rank[current'] \in Nat
      BY <1>8, <2>1, <2>4, <3>2
    <3> QED
      BY <3>1, <3>2, <3>3
  <2> QED
    BY <1>8, <2>1, <2>4
<1>10. CASE DeadEnd
  <2>1. EvaluateAndRecord /\ Candidates(current, Evaluation.outcome, visited) = {}
    BY <1>10 DEF DeadEnd
  <2>2. PICK e \in Transitions :
          /\ e.source = current /\ e.outcome = Evaluation.outcome
          /\ e.target \in ActionSteps => rank[current] < rank[e.target]
    BY <1>8, <2>1 DEF WayOut, Evaluation
  <2>3. e.target \notin visited
    <3>1. ASSUME e.target \in visited PROVE FALSE
      <4>1. e.target \in ActionSteps /\ rank[e.target] <= rank[current]
        BY <1>8, <2>1, <3>1 DEF TypeOK
      <4>2. rank[e.target] \in Nat /\ rank[current] \in Nat
        BY <1>8, <2>1, <4>1
      <4> QED
        BY <2>2, <4>1, <4>2
    <3> QED
      BY <3>1
  <2> QED
    BY <2>1, <2>2, <2>3 DEF Candidates
<1>11. CASE UNCHANGED vars
  BY <1>11 DEF vars, locals
<1> QED
  BY <1>1, <1>2, <1>3, <1>4, <1>5, <1>6, <1>7, <1>9, <1>10, <1>11
     DEF Next, EngineStep

LEMMA PassesStart ==
  ASSUME NEW rank, Init
  PROVE  PassesInv(rank)
BY DEF Init, PassesInv, Running, EndsInVerdict

\* No investigation that completes runs out of steps or into a dead end, for
\* every procedure with a way out of each outcome and a step limit above the
\* number of its diagnostics (7 below 12 in the shipped one).
THEOREM VerdictReached ==
  ASSUME NEW rank \in [ActionSteps -> Nat], WayOut(rank),
         IsFiniteSet(ActionSteps), Cardinality(ActionSteps) < MaxSteps
  PROVE  Spec => []EndsInVerdict
<1>1. Init => PassesInv(rank)
  BY PassesStart
<1>2. TypeOK /\ IInv /\ PassesInv(rank) /\ [Next]_vars => PassesInv(rank)'
  BY PassesStep
<1>3. PassesInv(rank) => EndsInVerdict
  BY DEF PassesInv
<1> QED
  BY <1>1, <1>2, <1>3, TypeAndCount, Walk, PTL DEF Spec

-----------------------------------------------------------------------------
(* Escalation comes last.                                                  *)

\* What was left to try where the loop, or the run, came to an escalation.
NothingLeft ==
  executed # << >> =>
    \A e \in Candidates(LastStep.step, LastStep.outcome, visited) :
      e.target \in TerminalSteps

\* The navigator p never goes to an escalation while a diagnostic is offered.
PrefersDiagnostics(p, g) ==
  \A step, outcome, seen, context :
    LET edges == Candidates(step, outcome, seen)
    IN  \A e \in Preferred(p, edges, g, context) :
          (e.target \in TerminalSteps /\ TerminalDiagnosis[e.target] = "escalate") =>
            \A f \in edges : f.target \in TerminalSteps

LeftInv(policies) ==
  /\ (/\ policy \in policies /\ pc = "loop" /\ current \in TerminalSteps
      /\ TerminalDiagnosis[current] = "escalate")
       => NothingLeft
  /\ (policy \in policies /\ pc = "returned" /\ status = "escalated") => NothingLeft

LEMMA LeftStep ==
  ASSUME NEW policies, \A p \in policies : PrefersDiagnostics(p, experience'),
         TypeOK, IInv, LeftInv(policies), [Next]_vars
  PROVE  LeftInv(policies)'
<1> USE DEF LastStep, NothingLeft
<1>1. ASSUME NEW i \in Incidents, NEW p \in Policies, Begin(i, p) PROVE LeftInv(policies)'
  BY <1>1 DEF Begin, LeftInv
<1>2. CASE StepLimit
  <2>1. status' = "step_limit" /\ pc' = "returned"
    BY <1>2 DEF StepLimit, IInv, WalkInv, Running
  <2> QED
    BY <2>1 DEF LeftInv
<1>3. CASE ReachTerminal
  BY <1>3 DEF ReachTerminal, LeftInv, locals
<1>4. CASE Advance
  <2>1. EvaluateAndRecord /\ pc' = "loop" /\ UNCHANGED <<policy, visited>>
    BY <1>4 DEF Advance, locals
  <2> DEFINE edges == Candidates(current, Evaluation.outcome, visited)
  <2> SUFFICES ASSUME policy \in policies, current' \in TerminalSteps,
                      TerminalDiagnosis[current'] = "escalate",
                      NEW f \in edges
               PROVE  f.target \in TerminalSteps
    BY <2>1, Appended DEF LeftInv
  <2>2. PICK e \in Preferred(policy, edges, experience', ContextKey(executed')) :
          current' = e.target
    BY <1>4 DEF Advance
  <2>3. PrefersDiagnostics(policy, experience')
    OBVIOUS
  <2> QED
    BY <2>2, <2>3 DEF PrefersDiagnostics
<1>5. CASE DeadEnd
  BY <1>5 DEF DeadEnd, LeftInv
<1>6. CASE CallTool \/ ToolAnswers \/ ToolRaises \/ EvaluationRaises
  BY <1>6 DEF CallTool, ToolAnswers, ToolReturns, ToolRaises, EvaluationRaises, LeftInv
<1>7. CASE UNCHANGED vars
  BY <1>7 DEF vars, LeftInv
<1> QED
  BY <1>1, <1>2, <1>3, <1>4, <1>5, <1>6, <1>7 DEF Next, EngineStep

LEMMA LeftMeansExhausted ==
  ASSUME NEW policies, LeftInv(policies)
  PROVE  policy \in policies => EscalationExhausts
BY DEF LeftInv, NothingLeft, EscalationExhausts

LEMMA FixedPrefersDiagnostics ==
  ASSUME EscalatesLast, NEW g
  PROVE  PrefersDiagnostics("fixed", g)
<1> SUFFICES ASSUME NEW step, NEW outcome, NEW seen, NEW context,
                    NEW e \in FixedPreferred(Candidates(step, outcome, seen)),
                    e.target \in TerminalSteps,
                    TerminalDiagnosis[e.target] = "escalate",
                    NEW f \in Candidates(step, outcome, seen)
             PROVE  f.target \in TerminalSteps
  BY DEF PrefersDiagnostics, Preferred
<1>1. e \in Candidates(step, outcome, seen) /\ f.priority <= e.priority
  BY DEF FixedPreferred
<1>2. /\ {e, f} \subseteq Transitions
      /\ e.source = f.source /\ e.outcome = f.outcome
      /\ f.target \in Steps
  BY <1>1, CandidateIsTransition
<1>3. e.priority \in Nat /\ f.priority \in Nat
  BY <1>2, ValidateAssumption
<1>4. f.target \in ActionSteps => e.priority < f.priority
  BY <1>2 DEF EscalatesLast
<1> QED
  BY <1>1, <1>2, <1>3, <1>4 DEF Steps

\* The fixed navigator escalates only when the procedure allows no diagnostic
\* any more, for every procedure that gives escalations the lowest priority.
\* (The navigator that uses experience does not keep to it: run learned_slow.)
THEOREM FixedEscalatesLast ==
  ASSUME EscalatesLast
  PROVE  Spec => [](policy = "fixed" => EscalationExhausts)
<1> DEFINE Left == LeftInv({"fixed"})
<1>1. Init => Left
  BY DEF Init, LeftInv
<1>2. TypeOK /\ IInv /\ Left /\ [Next]_vars => Left'
  BY LeftStep, FixedPrefersDiagnostics
<1>3. Left => (policy = "fixed" => EscalationExhausts)
  BY LeftMeansExhausted
<1> HIDE DEF Left
<1> QED
  BY <1>1, <1>2, <1>3, TypeAndCount, Walk, PTL DEF Spec

-----------------------------------------------------------------------------
(* Escalation comes last for the navigator that uses experience, too, while *)
(* commands are quick.                                                     *)

\* A history of quick commands stays one.
LEMMA StaysQuick ==
  ASSUME NEW latency \in Nat, NEW cost \in Nat, Quick(latency, cost),
         TypeOK, WellFormed(experience), QuickHistory(experience, latency, cost),
         [Next]_vars
  PROVE  QuickHistory(experience, latency, cost)'
<1>1. CASE EvaluateAndRecord
  <2> DEFINE x == Arguments(incident, executed')
  <2>1. experience' = RecordExecution(experience, x)
    BY <1>1, RecordedArguments DEF EvaluateAndRecord
  <2>2. /\ x.step = current /\ x.latency_ms = result.latency_ms /\ x.cost = Cost[current]
        /\ current \in ActionSteps /\ result \in Results(current)
    <3>1. executed'[Len(executed')] = ExecutedStep
      BY <1>1, Appended
    <3>2. ExecutedStep.step = current /\ ExecutedStep.latency_ms = result.latency_ms
      BY DEF ExecutedStep
    <3>3. current \in ActionSteps /\ result \in Results(current)
      BY <1>1 DEF EvaluateAndRecord, TypeOK
    <3> QED
      BY <3>1, <3>2, <3>3 DEF Arguments
  <2> HIDE DEF x
  <2>3. x.latency_ms \in 0..latency /\ x.cost \in 0..cost /\ x.step \notin TerminalSteps
    BY <2>2, StepsAssumption DEF Quick
  <2>4. /\ StepsAreNamed(experience') /\ Within(experience', latency, cost)
        /\ \A e \in experience'.edges :
             e.relation = "USED_STEP" => e \in experience.edges \/ e.target[3] = x.step
    BY <2>1, <2>3, RecordStaysWithin DEF QuickHistory
  <2> QED
    BY <2>3, <2>4 DEF QuickHistory
<1>2. CASE UNCHANGED experience
  BY <1>2 DEF QuickHistory
<1> QED
  BY <1>1, <1>2, OnlyRecordingTouchesHistory

LEMMA StartsQuick ==
  ASSUME NEW latency, NEW cost, Quick(latency, cost), Init
  PROVE  QuickHistory(experience, latency, cost)
BY DEF Init, Quick

\* Products and order.
LEMMA Scales ==
  ASSUME NEW a \in Int, NEW b \in Int, NEW n \in Nat, a <= b
  PROVE  a * n <= b * n /\ n * a <= n * b
OBVIOUS

LEMMA ScalesStrictly ==
  ASSUME NEW a \in Int, NEW b \in Int, NEW n \in Nat \ {0}, a < b
  PROVE  a * n < b * n
OBVIOUS

\* What a score is made of.
LEMMA ScoreParts ==
  ASSUME NEW e \in Transitions, NEW g, NEW context,
         NEW latency \in Nat, NEW cost \in Nat, QuickHistory(g, latency, cost),
         NEW n, n = Cardinality(Sample(g, e.target, context)),
         NEW k, k = Cardinality({id \in Sample(g, e.target, context) :
                                   g.vertices[id].resolved})
  PROVE  LET score == Score(e, g, context)
         IN  /\ n \in Nat /\ k \in 0..n
             /\ score.den = IF n < 5 THEN 5 ELSE n
             /\ score.num \in Int
             /\ score.num <= e.priority * 100 * score.den + 15000 * k
             /\ e.priority * 100 * score.den + 15000 * k - (500 * cost + latency) * n
                  <= score.num
<1> DEFINE stats == StepStatistics(g, e.target, context)
           score == Score(e, g, context)
<1>1. /\ stats.count = n /\ n \in Nat /\ stats.resolved = k /\ k \in 0..n
      /\ stats.latency \in 0..latency * n /\ stats.cost \in 0..cost * n
  <2>1. StepsAreNamed(g) /\ Within(g, latency, cost)
    BY DEF QuickHistory
  <2> DEFINE S == Sample(g, e.target, context)
  <2>2. /\ stats.count \in Nat /\ stats.resolved \in 0..stats.count
        /\ stats.latency \in 0..latency * stats.count
        /\ stats.cost \in 0..cost * stats.count
        /\ stats.count = Cardinality(S)
        /\ stats.resolved = Cardinality({id \in S : g.vertices[id].resolved})
    BY <2>1, StatisticsBound
  <2> HIDE DEF stats
  <2> QED
    BY <2>2
<1>2. e.priority \in Nat
  BY ValidateAssumption
<1>3. /\ score.den = IF n < 5 THEN 5 ELSE n
      /\ score.num = e.priority * 100 * score.den
                       + (15000 * stats.resolved - 500 * stats.cost - stats.latency)
  BY <1>1 DEF Score
<1> HIDE DEF stats, score
<1>4. score.den \in Nat /\ e.priority * 100 * score.den \in Int
  BY <1>1, <1>2, <1>3
<1>5. latency * n \in Nat /\ cost * n \in Nat
  BY <1>1
<1>6. (500 * cost + latency) * n = 500 * (cost * n) + latency * n
  BY <1>1
<1> DEFINE base == e.priority * 100 * score.den
           slow == latency * n
           dear == cost * n
<1>7. /\ score.num = base + (15000 * k - 500 * stats.cost - stats.latency)
      /\ base \in Int /\ slow \in Nat /\ dear \in Nat
      /\ stats.latency \in 0..slow /\ stats.cost \in 0..dear
      /\ (500 * cost + latency) * n = 500 * dear + slow
  BY <1>1, <1>3, <1>4, <1>5, <1>6
<1> HIDE DEF base, slow, dear
<1>8. /\ score.num \in Int
      /\ score.num <= base + 15000 * k
      /\ base + 15000 * k - (500 * dear + slow) <= score.num
  BY <1>1, <1>7
<1> QED
  BY <1>1, <1>3, <1>7, <1>8 DEF base, score

\* A score that exceeds a slope the other stays on is better.
LEMMA SteeperIsBetter ==
  ASSUME NEW a, NEW b, a.num \in Int, b.num \in Int,
         a.den \in Nat \ {0}, b.den \in Nat \ {0},
         NEW high \in Int, NEW low \in Int, low < high,
         high * a.den <= a.num, b.num <= low * b.den
  PROVE  Better(a, b)
<1>1. (high * a.den) * b.den <= a.num * b.den
  BY Scales
<1>2. b.num * a.den <= (low * b.den) * a.den
  BY Scales
<1>3. a.den * b.den \in Nat \ {0}
  OBVIOUS
<1>4. low * (a.den * b.den) < high * (a.den * b.den)
  BY <1>3, ScalesStrictly
<1>5. /\ (high * a.den) * b.den = high * (a.den * b.den)
      /\ (low * b.den) * a.den = low * (a.den * b.den)
  OBVIOUS
<1> DEFINE P1 == high * (a.den * b.den)
           P2 == low * (a.den * b.den)
           Q1 == a.num * b.den
           Q2 == b.num * a.den
<1>6. P1 \in Int /\ P2 \in Int /\ Q1 \in Int /\ Q2 \in Int
  BY <1>3
<1>7. P1 <= Q1 /\ Q2 <= P2 /\ P2 < P1
  BY <1>1, <1>2, <1>4, <1>5
<1> HIDE DEF P1, P2, Q1, Q2
<1>8. Q1 > Q2
  BY <1>6, <1>7
<1> QED
  BY <1>8 DEF Better, Q1, Q2

\* While commands are quick, no history lifts an escalation above a diagnostic.
LEMMA EscalationScoresLess ==
  ASSUME NEW latency \in Nat, NEW cost \in Nat, EscalatesFarBelow(latency, cost),
         NEW g, NEW context, QuickHistory(g, latency, cost),
         NEW e \in Transitions, NEW f \in Transitions,
         e.source = f.source, e.outcome = f.outcome,
         e.target \in TerminalSteps, TerminalDiagnosis[e.target] = "escalate",
         f.target \in ActionSteps
  PROVE  Better(Score(f, g, context), Score(e, g, context))
<1> DEFINE a == Score(f, g, context)
           b == Score(e, g, context)
           n == Cardinality(Sample(g, f.target, context))
           k == Cardinality({id \in Sample(g, f.target, context) : g.vertices[id].resolved})
           loss == 500 * cost + latency
<1>1. Sample(g, e.target, context) = {}
  <2>1. ExecutionsOf(g, e.target) = {}
    BY DEF ExecutionsOf, QuickHistory, StepsAreNamed
  <2> QED
    BY <2>1 DEF Sample
<1>2. Cardinality({}) = 0
  BY FS_EmptySet
<1>3. /\ b.den = 5 /\ b.num \in Int
      /\ b.num <= e.priority * 100 * b.den
  <2> DEFINE S == Sample(g, e.target, context)
             R == {id \in S : g.vertices[id].resolved}
  <2>1. Cardinality(S) = 0 /\ Cardinality(R) = 0
    BY <1>1, <1>2
  <2>2. /\ b.den = IF Cardinality(S) < 5 THEN 5 ELSE Cardinality(S)
        /\ b.num \in Int
        /\ b.num <= e.priority * 100 * b.den + 15000 * Cardinality(R)
    BY ScoreParts
  <2>3. e.priority \in Nat
    BY ValidateAssumption
  <2> HIDE DEF b, S, R
  <2> QED
    BY <2>1, <2>2, <2>3
<1>4. /\ n \in Nat /\ k \in 0..n
      /\ a.den = IF n < 5 THEN 5 ELSE n
      /\ a.num \in Int
      /\ f.priority * 100 * a.den + 15000 * k - loss * n <= a.num
  <2> HIDE DEF a, n, k
  <2>1. a = Score(f, g, context) /\ n = Cardinality(Sample(g, f.target, context))
        /\ k = Cardinality({id \in Sample(g, f.target, context) : g.vertices[id].resolved})
    BY DEF a, n, k
  <2> QED
    BY <2>1, ScoreParts
<1>5. e.priority \in Nat /\ f.priority \in Nat /\ loss \in Nat
  BY ValidateAssumption
<1>6. 100 * e.priority + loss < 100 * f.priority
  <2>1. 100 * e.priority + 500 * cost + latency < 100 * f.priority
    BY DEF EscalatesFarBelow
  <2> QED
    BY <1>5, <2>1
<1> HIDE DEF a, b, n, k, loss
<1>7. a.den \in Nat \ {0} /\ n <= a.den
  BY <1>4
<1>8. (100 * f.priority - loss) * a.den <= a.num
  <2>1. loss * n <= loss * a.den
    BY <1>4, <1>5, <1>7, Scales
  <2>2. (100 * f.priority - loss) * a.den = f.priority * 100 * a.den - loss * a.den
    BY <1>5, <1>7
  <2>3. /\ f.priority * 100 * a.den \in Int /\ loss * a.den \in Int /\ loss * n \in Int
        /\ 15000 * k \in Nat
    BY <1>4, <1>5, <1>7
  <2> QED
    BY <1>4, <2>1, <2>2, <2>3
<1>9. b.num <= (100 * e.priority) * b.den
  BY <1>3, <1>5
<1>10. 100 * e.priority < 100 * f.priority - loss
  BY <1>5, <1>6
<1> QED
  BY <1>3, <1>4, <1>5, <1>7, <1>8, <1>9, <1>10, SteeperIsBetter DEF a, b

LEMMA ExperiencePrefersDiagnostics ==
  ASSUME NEW latency \in Nat, NEW cost \in Nat, EscalatesFarBelow(latency, cost),
         NEW g, QuickHistory(g, latency, cost), NEW p, p # "fixed"
  PROVE  PrefersDiagnostics(p, g)
<1> SUFFICES ASSUME NEW step, NEW outcome, NEW seen, NEW context,
                    NEW e \in ExperiencePreferred(Candidates(step, outcome, seen), g, context),
                    e.target \in TerminalSteps,
                    TerminalDiagnosis[e.target] = "escalate",
                    NEW f \in Candidates(step, outcome, seen),
                    f.target \notin TerminalSteps
             PROVE  FALSE
  BY DEF PrefersDiagnostics, Preferred
<1>1. /\ e \in Candidates(step, outcome, seen)
      /\ ~Better(Score(f, g, context), Score(e, g, context))
  BY DEF ExperiencePreferred
<1>2. /\ {e, f} \subseteq Transitions
      /\ e.source = f.source /\ e.outcome = f.outcome
      /\ f.target \in ActionSteps
  BY <1>1, CandidateIsTransition DEF Steps
<1> QED
  BY <1>1, <1>2, EscalationScoresLess

\* As long as no command, remembered or to come, takes more than a bounded time
\* and costs more than a bounded amount, and procedures put escalations below
\* diagnostics by more than these bounds can cost a score, every navigator
\* escalates only when the procedure allows no diagnostic any more, whatever
\* the history it has learned from.
THEOREM QuickWalkEscalatesLast ==
  ASSUME NEW latency \in Nat, NEW cost \in Nat,
         Quick(latency, cost), EscalatesFarBelow(latency, cost)
  PROVE  Spec => []EscalationExhausts
<1> DEFINE Left == LeftInv(Policies)
           Q == QuickHistory(experience, latency, cost)
<1>1. EscalatesLast
  <2> SUFFICES ASSUME NEW e \in Transitions, NEW f \in Transitions,
                      100 * e.priority + 500 * cost + latency < 100 * f.priority
               PROVE  e.priority < f.priority
    BY DEF EscalatesLast, EscalatesFarBelow
  <2>1. e.priority \in Nat /\ f.priority \in Nat
    BY ValidateAssumption
  <2> QED
    BY <2>1
<1>2. Init => Left
  BY DEF Init, LeftInv
<1>3. TypeOK /\ IInv /\ Q' /\ Left /\ [Next]_vars => Left'
  <2> SUFFICES ASSUME TypeOK, IInv, Q', Left, [Next]_vars PROVE Left'
    OBVIOUS
  <2>1. \A p \in Policies : PrefersDiagnostics(p, experience')
    BY <1>1, FixedPrefersDiagnostics, ExperiencePrefersDiagnostics
  <2> QED
    BY <2>1, LeftStep
<1>4. TypeOK /\ Left => EscalationExhausts
  BY LeftMeansExhausted DEF TypeOK
<1>5. Init => Q
  BY StartsQuick
<1>6. TypeOK /\ WellFormed(experience) /\ Q /\ [Next]_vars => Q'
  BY StaysQuick
<1> HIDE DEF Left, Q
<1> QED
  BY <1>2, <1>3, <1>4, <1>5, <1>6, TypeAndCount, Walk, HistoryWellFormed, PTL DEF Spec

-----------------------------------------------------------------------------
(* What is proved is reported, and the engine implements Investigation.    *)

\* Only the last executed step can have proved a fault, and the loop stands at
\* the terminal step for it or has been left.
OnlyLastProves ==
  /\ \A n \in 1..Len(executed) :
       executed[n].diagnosis # NoDiagnosis =>
         n = Len(executed) /\ Claims(executed[n].diagnosis)
  /\ pc \in {"calling", "answered"} =>
       \A n \in 1..Len(executed) : executed[n].diagnosis = NoDiagnosis
  /\ (pc = "loop" /\ executed # << >> /\ LastStep.diagnosis # NoDiagnosis) =>
       current \in TerminalSteps /\ TerminalDiagnosis[current] = LastStep.diagnosis

\* What an evaluation that proves a fault implies.
LEMMA EvaluationConcludes ==
  ASSUME TypeOK, EvaluateAndRecord, ProofsConclude, Evaluation.diagnosis # NoDiagnosis
  PROVE  /\ Claims(Evaluation.diagnosis)
         /\ \A e \in Transitions :
              (e.source = current /\ e.outcome = Evaluation.outcome) =>
                /\ e.target \in TerminalSteps
                /\ TerminalDiagnosis[e.target] = Evaluation.diagnosis
<1>1. current \in ActionSteps /\ incident \in Incidents /\ result \in Results(current)
      /\ Evaluates(incident, current, result)
  BY DEF EvaluateAndRecord, TypeOK
<1> QED
  BY <1>1 DEF ProofsConclude, Evaluation

\* After an append, too, only the last step can have proved a fault.
LEMMA AppendKeepsLast ==
  ASSUME TypeOK, EvaluateAndRecord, ProofsConclude, OnlyLastProves
  PROVE  /\ \A n \in 1..Len(executed') :
              executed'[n].diagnosis # NoDiagnosis =>
                n = Len(executed') /\ Claims(executed'[n].diagnosis)
         /\ \A n \in 1..Len(executed') :
              executed'[n].diagnosis # NoDiagnosis =>
                executed'[n].diagnosis = Evaluation.diagnosis
         /\ executed' # << >> /\ LastStep'.diagnosis = Evaluation.diagnosis
<1>1. pc = "answered"
  BY DEF EvaluateAndRecord
<1>2. \A n \in 1..Len(executed) : executed[n].diagnosis = NoDiagnosis
  BY <1>1 DEF OnlyLastProves
<1>3. /\ Len(executed) \in Nat /\ Len(executed') = Len(executed) + 1
      /\ executed' # << >>
      /\ executed'[Len(executed) + 1].diagnosis = Evaluation.diagnosis
      /\ \A n \in 1..Len(executed) : executed'[n] = executed[n]
  BY Appended
<1>4. ASSUME NEW n \in 1..Len(executed'), executed'[n].diagnosis # NoDiagnosis
      PROVE  n = Len(executed')
  BY <1>2, <1>3, <1>4
<1> QED
  BY <1>3, <1>4, EvaluationConcludes DEF LastStep

\* A proof ends the search for it.
LEMMA LastProves ==
  ASSUME ProofsConclude
  PROVE  Spec => []OnlyLastProves
<1>1. Init => OnlyLastProves
  <2> SUFFICES ASSUME Init PROVE OnlyLastProves
    OBVIOUS
  <2>1. executed = << >> /\ Len(executed) = 0
    BY EmptySeq DEF Init
  <2> QED
    BY <2>1 DEF Init, OnlyLastProves
<1>2. TypeOK /\ OnlyLastProves /\ [Next]_vars => OnlyLastProves'
  <2> SUFFICES ASSUME TypeOK, OnlyLastProves, [Next]_vars PROVE OnlyLastProves'
    OBVIOUS
  <2> USE DEF LastStep
  <2>1. ASSUME NEW i \in Incidents, NEW p \in Policies, Begin(i, p)
        PROVE  OnlyLastProves'
    <3>1. executed' = << >> /\ Len(executed') = 0
      BY <2>1, EmptySeq DEF Begin
    <3> QED
      BY <2>1, <3>1 DEF Begin, OnlyLastProves
  <2>2. CASE StepLimit
    BY <2>2 DEF StepLimit, OnlyLastProves
  <2>3. CASE ReachTerminal
    BY <2>3 DEF ReachTerminal, OnlyLastProves
  <2>4. CASE CallTool
    <3>1. pc = "loop" /\ current \notin TerminalSteps /\ Len(executed) \in Nat
      BY <2>4, StepsAssumption, LenProperties DEF CallTool, TypeOK
    <3>2. \A n \in 1..Len(executed) : executed[n].diagnosis = NoDiagnosis
      <4>1. ASSUME NEW n \in 1..Len(executed), executed[n].diagnosis # NoDiagnosis
            PROVE  FALSE
        <5>1. n = Len(executed) /\ executed # << >>
          BY <4>1, EmptySeq DEF OnlyLastProves
        <5> QED
          BY <3>1, <4>1, <5>1 DEF OnlyLastProves
      <4> QED
        BY <4>1
    <3> QED
      BY <2>4, <3>2 DEF CallTool, OnlyLastProves
  <2>5. CASE ToolAnswers
    BY <2>5 DEF ToolAnswers, ToolReturns, OnlyLastProves
  <2>6. CASE ToolRaises
    BY <2>6 DEF ToolRaises, OnlyLastProves
  <2>7. CASE EvaluationRaises
    BY <2>7 DEF EvaluationRaises, OnlyLastProves
  <2>8. CASE Advance
    <3>1. EvaluateAndRecord /\ pc' = "loop"
      BY <2>8 DEF Advance
    <3>2. PICK e \in Candidates(current, Evaluation.outcome, visited) : current' = e.target
      BY <2>8, PreferredIsOffered DEF Advance
    <3>3. e \in Transitions /\ e.source = current /\ e.outcome = Evaluation.outcome
      BY <3>2, CandidateIsTransition
    <3>4. Evaluation.diagnosis # NoDiagnosis =>
            /\ current' \in TerminalSteps
            /\ TerminalDiagnosis[current'] = Evaluation.diagnosis
      BY <3>1, <3>2, <3>3, EvaluationConcludes
    <3> QED
      BY <3>1, <3>4, AppendKeepsLast DEF OnlyLastProves
  <2>9. CASE DeadEnd
    <3>1. EvaluateAndRecord /\ pc' = "returned"
      BY <2>9 DEF DeadEnd
    <3> QED
      BY <3>1, AppendKeepsLast DEF OnlyLastProves
  <2>10. CASE UNCHANGED vars
    BY <2>10 DEF vars, OnlyLastProves
  <2> QED
    BY <2>1, <2>2, <2>3, <2>4, <2>5, <2>6, <2>7, <2>8, <2>9, <2>10 DEF Next, EngineStep
<1> QED
  BY <1>1, <1>2, TypeAndCount, PTL DEF Spec

\* A fault that a step of the run proved is the fault the run reports: no run
\* that completes escalates, declares health or names another fault with the
\* proof in its hands.
THEOREM ProofsAreReported ==
  ASSUME NEW rank \in [ActionSteps -> Nat], WayOut(rank), ProofsConclude,
         IsFiniteSet(ActionSteps), Cardinality(ActionSteps) < MaxSteps
  PROVE  Spec => []ProofIsReported
<1>1. Init => ProofIsReported
  BY DEF Init, ProofIsReported
<1>2. /\ TypeOK /\ IInv /\ OnlyLastProves /\ EndsInVerdict'
      /\ ProofIsReported /\ [Next]_vars
      => ProofIsReported'
  <2> SUFFICES ASSUME TypeOK, IInv, OnlyLastProves, EndsInVerdict', ProofIsReported,
                      [Next]_vars, pc' = "returned",
                      NEW n \in 1..Len(executed'), executed'[n].diagnosis # NoDiagnosis
               PROVE  executed'[n].diagnosis = diagnosis'
    BY DEF ProofIsReported
  <2> USE DEF LastStep
  <2>1. CASE ReachTerminal
    <3>1. /\ diagnosis' = TerminalDiagnosis[current] /\ pc = "loop"
          /\ UNCHANGED executed
      BY <2>1 DEF ReachTerminal
    <3>2. n = Len(executed) /\ executed # << >>
      BY <3>1, EmptySeq DEF OnlyLastProves
    <3> QED
      BY <3>1, <3>2 DEF OnlyLastProves
  <2>2. CASE DeadEnd
    <3>1. EvaluateAndRecord /\ diagnosis' = Evaluation.diagnosis
      BY <2>2 DEF DeadEnd
    <3> QED
      BY <3>1, AppendKeepsLast
  <2>3. CASE StepLimit
    <3>1. status' = "step_limit"
      BY <2>3 DEF StepLimit, IInv, WalkInv, Running
    <3> QED
      BY <3>1 DEF EndsInVerdict
  <2>4. CASE UNCHANGED vars
    BY <2>4 DEF vars, ProofIsReported
  <2> QED
    BY <2>1, <2>2, <2>3, <2>4
       DEF Next, EngineStep, Begin, CallTool, ToolAnswers, ToolReturns, ToolRaises,
           EvaluationRaises, Advance
<1> QED
  BY <1>1, <1>2, TypeAndCount, Walk, LastProves, VerdictReached, PTL DEF Spec

-----------------------------------------------------------------------------
(* The refinement.                                                         *)

\* The evidence in hand, as Investigation reads it.
LEMMA EvidenceInHand ==
  ASSUME TypeOK
  PROVE  /\ Promise!Used = Done
         /\ Promise!Proved = {executed[n].diagnosis : n \in 1..Len(executed)} \ {NoDiagnosis}
<1>1. DOMAIN Evidence = 1..Len(executed)
  BY DEF Evidence
<1>2. \A n \in 1..Len(executed) :
        Evidence[n].step = executed[n].step /\ Evidence[n].proves = executed[n].diagnosis
  BY DEF Evidence
<1>3. Promise!Used = Done
  BY <1>1, <1>2 DEF Promise!Used, Promise!Range, Done
<1>4. Promise!Proved = {executed[n].diagnosis : n \in 1..Len(executed)} \ {NoDiagnosis}
  BY <1>1, <1>2 DEF Promise!Proved, Promise!Range
<1> QED
  BY <1>3, <1>4

\* A run starts without evidence.
LEMMA NoEvidence ==
  ASSUME NEW steps, steps = << >>, NEW pieces, pieces \in [1..Len(steps) -> {}]
  PROVE  pieces = << >>
<1>1. Len(steps) = 0
  BY EmptySeq
<1>2. << >> \in [1..0 -> {}]
  OBVIOUS
<1> QED
  BY <1>1, <1>2

\* What a recorded execution adds to the evidence is a new piece of it.
LEMMA RecordedIsCollected ==
  ASSUME TypeOK, IInv, EvaluateAndRecord, ProofsConclude,
         NEW piece, piece = [step |-> current, proves |-> Evaluation.diagnosis]
  PROVE  /\ piece \in Promise!Pieces
         /\ piece.step \notin Promise!Used
         /\ Evidence' = Append(Evidence, piece)
<1>1. /\ current \in ActionSteps
      /\ Evaluation.diagnosis \in Diagnoses \cup {NoDiagnosis}
  BY ExecutedStepType DEF EvaluateAndRecord, TypeOK
<1>2. piece \in Promise!Pieces
  BY <1>1, EvaluationConcludes DEF Promise!Pieces, Claims, Silent
<1>3. current \notin Done
  BY DEF EvaluateAndRecord, IInv, WalkInv, Pending
<1>4. piece.step \notin Promise!Used
  BY <1>3, EvidenceInHand
<1>5. Evidence' = Append(Evidence, piece)
  <2> DEFINE P == [step : ActionSteps, proves : Diagnoses \cup {NoDiagnosis}]
  <2>1. Evidence \in Seq(P) /\ Len(Evidence) = Len(executed)
    <3>1. Len(executed) \in Nat
      BY LenProperties DEF TypeOK
    <3>2. \A n \in 1..Len(executed) : executed[n] \in ExecutedSteps
      BY ElementOfSeq DEF TypeOK
    <3>3. \A n \in 1..Len(executed) : Evidence[n] \in P
      BY <3>2 DEF Evidence, ExecutedSteps
    <3> QED
      BY <3>1, <3>3 DEF Evidence
  <2>2. piece \in P
    BY <1>1
  <2>3. Append(Evidence, piece) =
          [n \in 1..Len(executed) + 1 |->
             IF n = Len(executed) + 1 THEN piece ELSE Evidence[n]]
    BY <2>1, <2>2
  <2>4. /\ Len(executed') = Len(executed) + 1
        /\ Len(executed) \in Nat
        /\ executed'[Len(executed) + 1] = ExecutedStep
        /\ ExecutedStep.step = current
        /\ ExecutedStep.diagnosis = Evaluation.diagnosis
        /\ \A n \in 1..Len(executed) : executed'[n] = executed[n]
    BY Appended
  <2>5. Evidence' = [n \in 1..Len(executed) + 1 |->
                       [step |-> executed'[n].step, proves |-> executed'[n].diagnosis]]
    BY <2>4 DEF Evidence
  <2>6. ASSUME NEW n \in 1..Len(executed) + 1
        PROVE  [step |-> executed'[n].step, proves |-> executed'[n].diagnosis]
                 = IF n = Len(executed) + 1 THEN piece ELSE Evidence[n]
    <3>1. CASE n = Len(executed) + 1
      BY <3>1, <2>4
    <3>2. CASE n # Len(executed) + 1
      <4>1. n \in 1..Len(executed)
        BY <3>2, <2>4
      <4> QED
        BY <3>2, <4>1, <2>4 DEF Evidence
    <3> QED
      BY <3>1, <3>2
  <2> QED
    BY <2>3, <2>5, <2>6
<1> QED
  BY <1>2, <1>4, <1>5

\* A terminal step names the fault in hand, and claims none without one.
LEMMA TerminalConcludes ==
  ASSUME TypeOK, OnlyLastProves, ClaimIsProven, ReachTerminal
  PROVE  /\ TerminalDiagnosis[current] \in (Diagnoses \ Silent) \cup Silent
         /\ IF Promise!Proved = {} THEN TerminalDiagnosis[current] \in Silent
                                   ELSE TerminalDiagnosis[current] \in Promise!Proved
<1> USE DEF LastStep
<1>1. /\ pc = "loop" /\ current \in TerminalSteps
      /\ TerminalDiagnosis[current] \in Diagnoses
      /\ TerminalDiagnosis[current] # NoDiagnosis
  BY StepsAssumption DEF ReachTerminal
<1>2. Len(executed) \in Nat /\ (executed # << >> => Len(executed) \in 1..Len(executed))
  BY LenProperties, EmptySeq DEF TypeOK
<1>3. Promise!Proved = {executed[n].diagnosis : n \in 1..Len(executed)} \ {NoDiagnosis}
  BY EvidenceInHand
<1>4. CASE Promise!Proved = {}
  <2>1. TerminalDiagnosis[current] \notin Silent => FALSE
    <3>1. SUFFICES ASSUME TerminalDiagnosis[current] \notin Silent PROVE FALSE
      OBVIOUS
    <3>2. executed # << >> /\ executed[Len(executed)].diagnosis = TerminalDiagnosis[current]
      BY <1>1, <3>1 DEF ClaimIsProven, Claims, Silent
    <3> QED
      BY <1>1, <1>2, <1>3, <1>4, <3>2
  <2> QED
    BY <1>1, <1>4, <2>1
<1>5. CASE Promise!Proved # {}
  <2>1. PICK n \in 1..Len(executed) : executed[n].diagnosis # NoDiagnosis
    BY <1>3, <1>5
  <2>2. n = Len(executed) /\ executed # << >>
    BY <2>1, EmptySeq DEF OnlyLastProves
  <2>3. TerminalDiagnosis[current] = executed[n].diagnosis
    BY <1>1, <2>1, <2>2 DEF OnlyLastProves
  <2> QED
    BY <1>1, <1>3, <1>5, <2>1, <2>3
<1> QED
  BY <1>4, <1>5

\* The engine keeps what Investigation promises, for every procedure whose
\* terminal steps match its evaluator and whose proofs conclude: no diagnostic
\* twice, no fault without a proof of this run, no verdict against one.
THEOREM EngineImplements ==
  ASSUME TerminalsMatchEvidence, ProofsConclude
  PROVE  Spec => ImplementsInvestigation
<1>1. Init => Promise!Init
  <2> SUFFICES ASSUME Init PROVE Promise!Init
    OBVIOUS
  <2>1. executed = << >> /\ Len(executed) = 0
    BY EmptySeq DEF Init
  <2>2. Evidence \in [1..Len(executed) -> {}]
    BY <2>1 DEF Evidence
  <2>3. Evidence = << >>
    BY <2>1, <2>2, NoEvidence
  <2> QED
    BY <2>3 DEF Init, Promise!Init
<1>2. TypeOK /\ IInv /\ OnlyLastProves /\ ProofInv /\ [Next]_vars
      => [Promise!Next]_(Promise!vars)
  <2> SUFFICES ASSUME TypeOK, IInv, OnlyLastProves, ProofInv, [Next]_vars
               PROVE  Promise!Next \/ UNCHANGED Promise!vars
    OBVIOUS
  <2> USE DEF locals
  <2>1. ASSUME NEW i \in Incidents, NEW p \in Policies, Begin(i, p)
        PROVE  Promise!Open
    <3>1. executed' = << >> /\ diagnosis' = NoDiagnosis
          /\ pc \in {"idle", "returned", "raised"} /\ pc' = "loop"
      BY <2>1 DEF Begin
    <3>2. Len(executed') = 0
      BY <3>1, EmptySeq
    <3>3. Evidence' \in [1..Len(executed') -> {}]
      BY <3>2 DEF Evidence
    <3>4. Evidence' = << >>
      BY <3>1, <3>3, NoEvidence
    <3> QED
      BY <3>1, <3>4 DEF Promise!Open
  <2>2. CASE StepLimit \/ ToolRaises \/ EvaluationRaises
    <3>1. /\ pc \in {"loop", "calling", "answered"} /\ pc' \in {"returned", "raised"}
          /\ UNCHANGED <<executed, diagnosis>>
      BY <2>2 DEF StepLimit, ToolRaises, EvaluationRaises
    <3>2. Evidence' = Evidence
      BY <3>1 DEF Evidence
    <3> QED
      BY <3>1, <3>2 DEF Promise!Abandon, Promise!Next
  <2>3. CASE ReachTerminal
    <3>1. Promise!Conclude(TerminalDiagnosis[current])
      BY <2>3, TerminalConcludes DEF ProofInv, ReachTerminal, Promise!Conclude, Evidence
    <3> QED
      BY <2>3, <3>1, TerminalConcludes DEF ProofInv, Promise!Next
  <2>4. CASE CallTool \/ ToolAnswers
    BY <2>4 DEF CallTool, ToolAnswers, ToolReturns, Promise!vars, Evidence
  <2>5. CASE Advance
    <3>1. EvaluateAndRecord /\ pc = "answered" /\ pc' = "loop" /\ UNCHANGED diagnosis
      BY <2>5 DEF Advance, EvaluateAndRecord
    <3> DEFINE piece == [step |-> current, proves |-> Evaluation.diagnosis]
    <3>2. Promise!Collect(piece)
      BY <3>1, RecordedIsCollected DEF Promise!Collect
    <3> QED
      BY <3>1, <3>2, RecordedIsCollected DEF Promise!Next
  <2>6. CASE DeadEnd
    <3>1. /\ EvaluateAndRecord /\ pc = "answered" /\ pc' = "returned"
          /\ diagnosis' = Evaluation.diagnosis
      BY <2>6 DEF DeadEnd, EvaluateAndRecord
    <3> DEFINE piece == [step |-> current, proves |-> Evaluation.diagnosis]
    <3>2. Promise!CollectAndConclude(piece)
      BY <3>1, RecordedIsCollected DEF Promise!CollectAndConclude
    <3> QED
      BY <3>1, <3>2, RecordedIsCollected DEF Promise!Next
  <2>7. CASE UNCHANGED vars
    BY <2>7 DEF vars, Promise!vars, Evidence
  <2> QED
    BY <2>1, <2>2, <2>3, <2>4, <2>5, <2>6, <2>7 DEF Next, EngineStep, Promise!Next
<1> QED
  BY <1>1, <1>2, TypeAndCount, Walk, LastProves, ProofsAreRecorded, PTL
     DEF Spec, ImplementsInvestigation, Promise!Spec
=============================================================================
