------------------------ MODULE ProcedureEngineProofs ------------------------
(***************************************************************************)
(* Theorems about ProcedureEngine for every procedure, evaluator, history  *)
(* and bound that its assumptions admit.                                   *)
(***************************************************************************)
EXTENDS ProcedureEngine, ExperienceGraphProofs, SequenceTheorems,
        FiniteSetTheorems

-----------------------------------------------------------------------------
(* Operators.                                                              *)

\* What a navigator prefers is among the edges it was offered.
LEMMA PreferredIsOffered ==
  ASSUME NEW p, NEW edges, NEW g, NEW context
  PROVE  Preferred(p, edges, g, context) \subseteq edges
BY DEF Preferred, FixedPreferred, ExperiencePreferred

LEMMA CandidateIsTransition ==
  ASSUME NEW s, NEW o, NEW seen, NEW e \in Candidates(s, o, seen)
  PROVE  /\ e \in Transitions
         /\ e.source = s /\ e.outcome = o
         /\ e.target \in Steps /\ e.target \notin seen
BY ValidateAssumption DEF Candidates

\* The step an evaluation appends is well formed.
LEMMA ExecutedStepType ==
  ASSUME TypeOK, pc = "answered", Evaluates(incident, current, result)
  PROVE  /\ ExecutedStep \in ExecutedSteps
         /\ ExecutedStep.step = current
         /\ ExecutedStep.outcome = Evaluation.outcome
         /\ ExecutedStep.diagnosis = Evaluation.diagnosis
         /\ Evaluation.outcome \in Outcomes
         /\ Evaluation.diagnosis \in Diagnoses \cup {NoDiagnosis}
<1>1. current \in ActionSteps /\ result \in Results(current) /\ incident \in Incidents
  BY DEF TypeOK
<1>2. Evaluation \in [outcome : Outcomes, diagnosis : Diagnoses \cup {NoDiagnosis}]
  BY <1>1, EvaluateAssumption DEF Evaluation
<1>3. result.latency_ms \in Nat
  BY <1>1, ResultsAssumption
<1>4. QED
  BY <1>1, <1>2, <1>3 DEF ExecutedStep, ExecutedSteps

-----------------------------------------------------------------------------
(* Type correctness.                                                       *)

\* The loop counter stays in range because an execution is only begun below
\* the limit.
CountInv == pc \in {"calling", "answered"} => Len(executed) < MaxSteps

\* No step of the engine disturbs the types.
LEMMA TypeStep ==
  ASSUME TypeOK, CountInv, [Next]_vars
  PROVE  TypeOK' /\ CountInv'
<1> USE StepsAssumption, BoundsAssumption
<1>1. ASSUME NEW i \in Incidents, NEW p \in Policies, Begin(i, p)
      PROVE  TypeOK' /\ CountInv'
  <2>1. executed' \in Seq(ExecutedSteps) /\ Len(executed') = 0
    BY <1>1, EmptySeq DEF Begin
  <2> QED
    BY <1>1, <2>1 DEF Begin, TypeOK, CountInv, Statuses, Steps
<1>2. CASE StepLimit
  BY <1>2 DEF StepLimit, TypeOK, CountInv, locals
<1>3. CASE ReachTerminal
  <2>1. TerminalDiagnosis[current] \in Diagnoses
    BY <1>3 DEF ReachTerminal
  <2> QED
    BY <1>3, <2>1 DEF ReachTerminal, TypeOK, CountInv, locals, Statuses
<1>4. CASE CallTool
  BY <1>4 DEF CallTool, TypeOK, CountInv, locals
<1>5. ASSUME NEW r \in Results(current), pc = "calling", ToolReturns(r)
      PROVE  TypeOK' /\ CountInv'
  BY <1>5 DEF ToolReturns, TypeOK, CountInv, locals
<1>6. CASE ToolRaises
  BY <1>6 DEF ToolRaises, TypeOK, CountInv, locals
<1>7. CASE EvaluationRaises
  BY <1>7 DEF EvaluationRaises, TypeOK, CountInv, locals
<1>8. ASSUME EvaluateAndRecord
      PROVE  /\ executed' \in Seq(ExecutedSteps)
             /\ Len(executed') <= MaxSteps
  BY <1>8, ExecutedStepType DEF EvaluateAndRecord, TypeOK, CountInv
<1>9. CASE Advance
  <2>1. current' \in Steps
    BY <1>9, PreferredIsOffered, CandidateIsTransition DEF Advance
  <2> QED
    BY <1>8, <1>9, <2>1 DEF Advance, TypeOK, CountInv, locals
<1>10. CASE DeadEnd
  <2>1. diagnosis' \in Diagnoses \cup {NoDiagnosis}
    BY <1>10, ExecutedStepType DEF DeadEnd, EvaluateAndRecord
  <2> QED
    BY <1>8, <1>10, <2>1 DEF DeadEnd, TypeOK, CountInv, locals, Statuses
<1>11. CASE UNCHANGED vars
  BY <1>11 DEF vars, locals, TypeOK, CountInv
<1> QED
  BY <1>1, <1>2, <1>3, <1>4, <1>5, <1>6, <1>7, <1>9, <1>10, <1>11
     DEF Next, EngineStep, ToolAnswers

LEMMA TypeStart ==
  ASSUME Init
  PROVE  TypeOK /\ CountInv
<1>1. executed \in Seq(ExecutedSteps) /\ Len(executed) = 0
  BY EmptySeq DEF Init
<1> QED
  BY <1>1, StepsAssumption, BoundsAssumption DEF Init, TypeOK, CountInv, Statuses

\* Types hold in every reachable state of the engine, together with the bound
\* on the loop counter that the append needs.
LEMMA TypeAndCount == Spec => [](TypeOK /\ CountInv)
<1>1. Init => TypeOK /\ CountInv
  BY TypeStart
<1>2. TypeOK /\ CountInv /\ [Next]_vars => TypeOK' /\ CountInv'
  BY TypeStep
<1> QED
  BY <1>1, <1>2, PTL DEF Spec

\* Every variable of the engine keeps its type, whatever the procedure, the
\* evaluator, the tools' answers and the loaded history.
THEOREM TypeCorrect == Spec => []TypeOK
BY TypeAndCount, PTL

-----------------------------------------------------------------------------
(* The walk.  NoRepeatedStep is not inductive: what keeps a step from      *)
(* coming back is that visited holds exactly the executed steps and the    *)
(* one in the adapter, and that the loop never stands at a visited step.   *)

Pending == pc \in {"calling", "answered", "raised"}
Running == pc \in {"loop", "calling", "answered"}
Done == {executed[n].step : n \in 1..Len(executed)}

WalkInv ==
  /\ visited = Done \cup (IF Pending THEN {current} ELSE {})
  /\ Pending => current \notin Done
  /\ pc = "loop" => current \notin visited
  /\ executed = << >> => current = StartStep
  /\ Running => status = "step_limit" /\ diagnosis = NoDiagnosis

IInv == WalkInv /\ NoRepeatedStep /\ PathFollowsGraph

\* What an append leaves and adds.
LEMMA Appended ==
  ASSUME TypeOK, EvaluateAndRecord
  PROVE  /\ Len(executed') = Len(executed) + 1
         /\ Len(executed) \in Nat
         /\ executed' # << >>
         /\ executed'[Len(executed) + 1] = ExecutedStep
         /\ ExecutedStep.step = current
         /\ ExecutedStep.outcome = Evaluation.outcome
         /\ ExecutedStep.diagnosis = Evaluation.diagnosis
         /\ \A n \in 1..Len(executed) : executed'[n] = executed[n]
<1>1. executed \in Seq(ExecutedSteps) /\ ExecutedStep \in ExecutedSteps
  BY ExecutedStepType DEF EvaluateAndRecord, TypeOK
<1>2. executed' = Append(executed, ExecutedStep)
  BY DEF EvaluateAndRecord
<1>3. QED
  BY <1>1, <1>2, ExecutedStepType DEF EvaluateAndRecord

\* An append keeps the executed steps distinct and the path authored.
LEMMA AppendKeepsWalk ==
  ASSUME TypeOK, IInv, EvaluateAndRecord
  PROVE  /\ Done' = Done \cup {current}
         /\ visited = Done'
         /\ NoRepeatedStep'
         /\ executed'[1].step = StartStep
         /\ \A n \in 1..Len(executed') - 1 :
              Authored(executed'[n], executed'[n + 1].step)
<1> DEFINE k == Len(executed)
<1>1. /\ pc = "answered" /\ Pending /\ status = "step_limit"
      /\ visited = Done \cup {current} /\ current \notin Done
  BY DEF EvaluateAndRecord, IInv, WalkInv, Pending, Running
<1>2. /\ k \in Nat /\ Len(executed') = k + 1
      /\ executed'[k + 1].step = current
      /\ \A n \in 1..k : executed'[n] = executed[n]
  BY Appended
<1>3. Done' = Done \cup {current}
  BY <1>2 DEF Done
<1>4. NoRepeatedStep'
  <2> SUFFICES ASSUME NEW m \in 1..(k + 1), NEW n \in 1..(k + 1),
                      executed'[m].step = executed'[n].step
               PROVE  m = n
    BY <1>2 DEF NoRepeatedStep
  <2>1. CASE m \in 1..k /\ n \in 1..k
    BY <1>2, <2>1 DEF IInv, NoRepeatedStep
  <2>2. CASE m = k + 1 /\ n \in 1..k
    BY <1>1, <1>2, <2>2 DEF Done
  <2>3. CASE m \in 1..k /\ n = k + 1
    BY <1>1, <1>2, <2>3 DEF Done
  <2> QED
    BY <1>2, <2>1, <2>2, <2>3
<1>5. executed'[1].step = StartStep
  <2>1. CASE k = 0
    <3>1. executed = << >>
      BY <2>1, EmptySeq DEF TypeOK
    <3> QED
      BY <1>2, <2>1, <3>1 DEF IInv, WalkInv
  <2>2. CASE k # 0
    <3>1. executed # << >> /\ 1 \in 1..k
      BY <1>2, <2>2
    <3> QED
      BY <1>2, <3>1 DEF IInv, PathFollowsGraph
  <2> QED
    BY <2>1, <2>2
<1>6. \A n \in 1..Len(executed') - 1 : Authored(executed'[n], executed'[n + 1].step)
  <2> SUFFICES ASSUME NEW n \in 1..k
               PROVE  Authored(executed'[n], executed'[n + 1].step)
    BY <1>2
  <2>1. CASE n < k
    <3>1. n \in 1..Len(executed) - 1 /\ n + 1 \in 1..k
      BY <1>2, <2>1
    <3> QED
      BY <1>2, <3>1 DEF IInv, PathFollowsGraph
  <2>2. CASE n = k
    <3>1. executed # << >>
      BY <1>2, <2>2
    <3> QED
      BY <1>1, <1>2, <2>2, <3>1 DEF IInv, PathFollowsGraph
  <2> QED
    BY <1>2, <2>1, <2>2
<1> QED
  BY <1>1, <1>3, <1>4, <1>5, <1>6

\* A step that leaves the path and the place alone keeps what is said of them.
LEMMA SamePath ==
  ASSUME IInv, UNCHANGED <<executed, current>>,
         status = "no_transition" => status' = "no_transition"
  PROVE  NoRepeatedStep' /\ PathFollowsGraph' /\ Done' = Done
BY DEF IInv, NoRepeatedStep, PathFollowsGraph, Authored, Done

LEMMA Walk == Spec => []IInv
<1>1. Init => IInv
  <2> SUFFICES ASSUME Init PROVE IInv
    OBVIOUS
  <2>1. executed = << >> /\ Len(executed) = 0
    BY EmptySeq DEF Init
  <2>2. Done = {}
    BY <2>1 DEF Done
  <2> QED
    BY <2>1, <2>2 DEF Init, IInv, WalkInv, Pending, Running, NoRepeatedStep,
                      PathFollowsGraph
<1>2. TypeOK /\ IInv /\ [Next]_vars => IInv'
  <2> SUFFICES ASSUME TypeOK, IInv, [Next]_vars PROVE IInv'
    OBVIOUS
  <2> USE DEF Pending, Running
  <2>1. ASSUME NEW i \in Incidents, NEW p \in Policies, Begin(i, p) PROVE IInv'
    <3>1. executed' = << >> /\ Len(executed') = 0
      BY <2>1, EmptySeq DEF Begin
    <3>2. Done' = {}
      BY <3>1 DEF Done
    <3> QED
      BY <2>1, <3>1, <3>2 DEF Begin, IInv, WalkInv, NoRepeatedStep, PathFollowsGraph
  <2>2. CASE StepLimit
    <3>1. NoRepeatedStep' /\ PathFollowsGraph' /\ Done' = Done
      BY <2>2, SamePath DEF StepLimit
    <3> QED
      BY <2>2, <3>1 DEF StepLimit, IInv, WalkInv
  <2>3. CASE ReachTerminal
    <3>1. NoRepeatedStep' /\ PathFollowsGraph' /\ Done' = Done
      BY <2>3, SamePath DEF ReachTerminal, IInv, WalkInv
    <3> QED
      BY <2>3, <3>1 DEF ReachTerminal, IInv, WalkInv
  <2>4. CASE CallTool
    <3>1. NoRepeatedStep' /\ PathFollowsGraph' /\ Done' = Done
      BY <2>4, SamePath DEF CallTool
    <3> QED
      BY <2>4, <3>1 DEF CallTool, IInv, WalkInv
  <2>5. ASSUME NEW r \in Results(current), pc = "calling", ToolReturns(r) PROVE IInv'
    <3>1. NoRepeatedStep' /\ PathFollowsGraph' /\ Done' = Done
      BY <2>5, SamePath DEF ToolReturns
    <3> QED
      BY <2>5, <3>1 DEF ToolReturns, IInv, WalkInv
  <2>6. CASE ToolRaises
    <3>1. NoRepeatedStep' /\ PathFollowsGraph' /\ Done' = Done
      BY <2>6, SamePath DEF ToolRaises
    <3> QED
      BY <2>6, <3>1 DEF ToolRaises, IInv, WalkInv
  <2>7. CASE EvaluationRaises
    <3>1. NoRepeatedStep' /\ PathFollowsGraph' /\ Done' = Done
      BY <2>7, SamePath DEF EvaluationRaises
    <3> QED
      BY <2>7, <3>1 DEF EvaluationRaises, IInv, WalkInv
  <2>8. CASE Advance
    <3>1. PICK e \in Candidates(current, Evaluation.outcome, visited) : current' = e.target
      BY <2>8, PreferredIsOffered DEF Advance
    <3>2. e \in Transitions /\ e.source = current /\ e.outcome = Evaluation.outcome
          /\ e.target \notin visited
      BY <3>1, CandidateIsTransition
    <3>3. EvaluateAndRecord
      BY <2>8 DEF Advance
    <3>4. PathFollowsGraph'
      <4>1. Authored(executed'[Len(executed')], current')
        BY <3>1, <3>2, <3>3, Appended DEF Authored
      <4> QED
        BY <3>3, <4>1, AppendKeepsWalk DEF PathFollowsGraph, Authored
    <3> QED
      BY <2>8, <3>1, <3>2, <3>3, <3>4, Appended, AppendKeepsWalk
         DEF Advance, EvaluateAndRecord, IInv, WalkInv
  <2>9. CASE DeadEnd
    <3>1. EvaluateAndRecord /\ status' = "no_transition" /\ pc' = "returned"
          /\ UNCHANGED <<visited, current>>
      BY <2>9 DEF DeadEnd
    <3>2. PathFollowsGraph'
      BY <3>1, AppendKeepsWalk DEF PathFollowsGraph, Authored
    <3> QED
      BY <3>1, <3>2, Appended, AppendKeepsWalk DEF IInv, WalkInv
  <2>10. CASE UNCHANGED vars
    <3>1. NoRepeatedStep' /\ PathFollowsGraph' /\ Done' = Done
      BY <2>10, SamePath DEF vars
    <3> QED
      BY <2>10, <3>1 DEF vars, IInv, WalkInv
  <2> QED
    BY <2>1, <2>2, <2>3, <2>4, <2>5, <2>6, <2>7, <2>8, <2>9, <2>10
       DEF Next, EngineStep, ToolAnswers
<1> QED
  BY <1>1, <1>2, TypeAndCount, PTL DEF Spec

\* No diagnostic is executed twice in an investigation.
THEOREM NoRepetition == Spec => []NoRepeatedStep
<1>1. IInv => NoRepeatedStep
  BY DEF IInv
<1> QED
  BY <1>1, Walk, PTL

\* The navigator never leaves the approved graph.
THEOREM PathIsAuthored == Spec => []PathFollowsGraph
<1>1. IInv => PathFollowsGraph
  BY DEF IInv
<1> QED
  BY <1>1, Walk, PTL

-----------------------------------------------------------------------------
(* The history.                                                            *)

\* What recording the step in hand does to the experience graph.
LEMMA RecordedExtends ==
  ASSUME TypeOK, EvaluateAndRecord, WellFormed(experience)
  PROVE  /\ WellFormed(experience')
         /\ Extends(experience', experience)
         /\ experience'.sequence = experience.sequence + 1
         /\ LET new == ExecutionId(incident, experience.sequence + 1)
            IN  /\ new \notin Executions(experience)
                /\ Executions(experience') = Executions(experience) \cup {new}
         /\ Evaluation.diagnosis # NoDiagnosis =>
              Edge(EvidenceId(incident, experience'.sequence), "SUPPORTS",
                   DiagnosisId(Evaluation.diagnosis)) \in experience'.edges
<1> DEFINE last == executed'[Len(executed')]
           x == [incident   |-> incident,
                 version    |-> Version,
                 step       |-> last.step,
                 device     |-> Device[last.step],
                 tool       |-> Tool[last.step],
                 context    |-> ContextBefore(executed'),
                 outcome    |-> last.outcome,
                 latency_ms |-> last.latency_ms,
                 cost       |-> Cost[last.step],
                 diagnosis  |-> last.diagnosis]
<1>1. experience' = RecordExecution(experience, x)
  BY DEF EvaluateAndRecord, Recorded
<1>2. x.incident = incident /\ x.diagnosis = Evaluation.diagnosis
  BY Appended
<1> HIDE DEF x
<1>3. /\ WellFormed(experience')
      /\ Extends(experience', experience)
      /\ experience'.sequence = experience.sequence + 1
      /\ ExecutionId(incident, NextSequence(experience)) \notin Executions(experience)
      /\ Executions(experience') =
           Executions(experience) \cup {ExecutionId(incident, NextSequence(experience))}
      /\ RecordedEdges(x, NextSequence(experience)) \subseteq experience'.edges
  BY <1>1, <1>2, RecordExtends
<1>4. Evaluation.diagnosis # NoDiagnosis =>
        Edge(EvidenceId(incident, NextSequence(experience)), "SUPPORTS",
             DiagnosisId(Evaluation.diagnosis)) \in RecordedEdges(x, NextSequence(experience))
  BY <1>2 DEF RecordedEdges
<1> QED
  BY <1>3, <1>4 DEF NextSequence

\* Every other step leaves the history, and the length of the run, alone or
\* shorter.
LEMMA OnlyRecordingTouchesHistory ==
  ASSUME TypeOK, [Next]_vars
  PROVE  \/ EvaluateAndRecord
         \/ UNCHANGED experience /\ Len(executed') # Len(executed) + 1
<1>1. Len(executed) \in Nat
  BY LenProperties DEF TypeOK
<1>2. ASSUME NEW i \in Incidents, NEW p \in Policies, Begin(i, p)
      PROVE  UNCHANGED experience /\ Len(executed') # Len(executed) + 1
  <2>1. executed' = << >> /\ Len(executed') = 0
    BY <1>2, EmptySeq DEF Begin
  <2> QED
    BY <1>1, <1>2, <2>1 DEF Begin
<1>3. ASSUME \/ StepLimit \/ ReachTerminal \/ CallTool \/ ToolRaises
             \/ EvaluationRaises \/ ToolAnswers \/ UNCHANGED vars
      PROVE  UNCHANGED experience /\ Len(executed') # Len(executed) + 1
  BY <1>1, <1>3 DEF StepLimit, ReachTerminal, CallTool, ToolRaises,
                    EvaluationRaises, ToolAnswers, ToolReturns, vars
<1> QED
  BY <1>2, <1>3 DEF Next, EngineStep, Advance, DeadEnd

\* A loaded history is well formed and every run leaves it so.
LEMMA HistoryWellFormed == Spec => []WellFormed(experience)
<1>1. Init => WellFormed(experience)
  BY HistoryAssumption DEF Init
<1>2. TypeOK /\ WellFormed(experience) /\ [Next]_vars => WellFormed(experience)'
  BY OnlyRecordingTouchesHistory, RecordedExtends
<1> QED
  BY <1>1, <1>2, TypeAndCount, PTL DEF Spec

\* Over any number of investigations, whatever they observe and however they
\* end, the experience graph is never rewritten: it grows by one execution
\* under a free id exactly when a run has executed a step.  This is also why
\* the "conflicting experience vertex" error of _upsert is never raised.
THEOREM HistoryGrows == Spec => HistoryOnlyGrows
<1>1. TypeOK /\ WellFormed(experience) /\ [Next]_vars => [GrowsByOneExecution]_vars
  <2> SUFFICES ASSUME TypeOK, WellFormed(experience), [Next]_vars
               PROVE  GrowsByOneExecution
    OBVIOUS
  <2>1. CASE EvaluateAndRecord
    <3>1. experience' # experience
      <4>1. experience.sequence \in Nat /\ experience'.sequence = experience.sequence + 1
        BY <2>1, RecordedExtends DEF WellFormed
      <4> QED
        BY <4>1
    <3> QED
      BY <2>1, <3>1, RecordedExtends, Appended DEF GrowsByOneExecution
  <2>2. CASE UNCHANGED experience /\ Len(executed') # Len(executed) + 1
    BY <2>2 DEF GrowsByOneExecution, Extends, WellFormed
  <2> QED
    BY <2>1, <2>2, OnlyRecordingTouchesHistory
<1> QED
  BY <1>1, TypeAndCount, HistoryWellFormed, PTL DEF Spec, HistoryOnlyGrows

-----------------------------------------------------------------------------
(* The experience graph stays a history one can navigate by, and says of   *)
(* each run what happened in it.                                           *)

\* What a process may have loaded: a history that can be navigated, every
\* execution of it tied.
HistoriesAreSound ==
  \A g \in InitialExperiences : EdgesJoinVertices(g) /\ Provenance(g)

\* What the engine passes to record_execution.
Arguments(i, steps) ==
  LET x == steps[Len(steps)]
  IN  [incident   |-> i,
       version    |-> Version,
       step       |-> x.step,
       device     |-> Device[x.step],
       tool       |-> Tool[x.step],
       context    |-> ContextBefore(steps),
       outcome    |-> x.outcome,
       latency_ms |-> x.latency_ms,
       cost       |-> Cost[x.step],
       diagnosis  |-> x.diagnosis]

LEMMA RecordedArguments ==
  ASSUME NEW g, NEW i, NEW steps
  PROVE  Recorded(g, i, steps) = RecordExecution(g, Arguments(i, steps))
BY DEF Recorded, Arguments

\* Whatever the runs of a process observe, and however they end, no edge of
\* the experience graph dangles, no id in use is given again, and every
\* execution is tied to one incident, step, device and piece of evidence,
\* which supports the diagnosis it proved and no other.
THEOREM HistoryStaysSound ==
  ASSUME HistoriesAreSound
  PROVE  Spec => []HistoryIsSound
<1>1. Init => HistoryIsSound
  BY HistoryAssumption DEF Init, HistoriesAreSound, HistoryIsSound, WellFormed
<1>2. /\ TypeOK /\ WellFormed(experience) /\ WellFormed(experience)'
      /\ HistoryIsSound /\ [Next]_vars
      => HistoryIsSound'
  <2> SUFFICES ASSUME TypeOK, WellFormed(experience), WellFormed(experience'),
                      HistoryIsSound, [Next]_vars
               PROVE  HistoryIsSound'
    OBVIOUS
  <2>1. CASE EvaluateAndRecord
    <3>1. experience' = RecordExecution(experience, Arguments(incident, executed'))
      BY <2>1, RecordedArguments DEF EvaluateAndRecord
    <3>2. EdgesJoinVertices(experience') /\ Provenance(experience')
      BY <3>1, RecordKeepsProvenance DEF HistoryIsSound
    <3> QED
      BY <3>2 DEF HistoryIsSound, WellFormed
  <2>2. CASE UNCHANGED experience
    BY <2>2 DEF HistoryIsSound
  <2> QED
    BY <2>1, <2>2, OnlyRecordingTouchesHistory
<1> QED
  BY <1>1, <1>2, TypeAndCount, HistoryWellFormed, PTL DEF Spec

\* The n-th step of steps, recorded as the k-th execution of g.
Matches(g, i, steps, n, k) ==
  /\ ExecutionId(i, k) \in DOMAIN g.vertices
  /\ EvidenceId(i, k) \in DOMAIN g.vertices
  /\ g.vertices[ExecutionId(i, k)].context_key = ContextKey(SubSeq(steps, 1, n - 1))
  /\ g.vertices[EvidenceId(i, k)].outcome = steps[n].outcome
  /\ Edge(ExecutionId(i, k), "USED_STEP", StepId(Version, steps[n].step)) \in g.edges

\* RecordMatchesRun is not inductive without the evidence being there, as
\* only what is there is kept.
MatchInv ==
  \A n \in 1..Len(executed) :
    Matches(experience, incident, executed, n, experience.sequence - Len(executed) + n)

\* The execution just recorded is the last step, under the context before it.
LEMMA LastMatches ==
  ASSUME TypeOK, WellFormed(experience), EvaluateAndRecord
  PROVE  Matches(experience', incident, executed', Len(executed'),
                 experience.sequence + 1)
<1> DEFINE x  == Arguments(incident, executed')
           n  == NextSequence(experience)
           ex == ExecutionId(incident, n)
           ev == EvidenceId(incident, n)
           V  == experience'.vertices
<1>1. experience' = RecordExecution(experience, x)
  BY RecordedArguments DEF EvaluateAndRecord
<1>2. /\ x.incident = incident /\ x.version = Version
      /\ x.step = executed'[Len(executed')].step
      /\ x.outcome = executed'[Len(executed')].outcome
      /\ x.context = ContextBefore(executed')
  BY DEF Arguments
<1> HIDE DEF x
<1>3. /\ ex \in DOMAIN V /\ V[ex] = ExecutionEntity(x)
      /\ ev \in DOMAIN V /\ V[ev].outcome = x.outcome
      /\ RecordedEdges(x, n) \subseteq experience'.edges
  BY <1>1, <1>2, RecordExtends
<1>4. Edge(ex, "USED_STEP", StepId(Version, x.step)) \in RecordedEdges(x, n)
  BY <1>2, NewEdges
<1>5. V[ex].context_key = ContextBefore(executed')
  BY <1>2, <1>3 DEF ExecutionEntity
<1> QED
  BY <1>2, <1>3, <1>4, <1>5 DEF Matches, NextSequence, ContextBefore

\* The executions of the steps before it still match.
LEMMA EarlierMatch ==
  ASSUME TypeOK, WellFormed(experience), EvaluateAndRecord,
         NEW n \in 1..Len(executed), NEW k,
         Matches(experience, incident, executed, n, k)
  PROVE  Matches(experience', incident, executed', n, k)
<1>1. Extends(experience', experience)
  BY RecordedExtends
<1>2. executed'[n] = executed[n] /\ Len(executed') = Len(executed) + 1
      /\ Len(executed) \in Nat
  BY Appended
<1>3. SubSeq(executed', 1, n - 1) = SubSeq(executed, 1, n - 1)
  <2>1. \A m \in 1..Len(executed) : executed'[m] = executed[m]
    BY Appended
  <2>2. SubSeq(executed, 1, n - 1) = [m \in 1..(n - 1) |-> executed[m]]
    BY DEF TypeOK
  <2>3. executed' \in Seq(ExecutedSteps)
    BY ExecutedStepType DEF EvaluateAndRecord, TypeOK
  <2>4. SubSeq(executed', 1, n - 1) = [m \in 1..(n - 1) |-> executed'[m]]
    BY <2>3
  <2>5. \A m \in 1..(n - 1) : executed'[m] = executed[m]
    BY <1>2, <2>1
  <2> QED
    BY <2>2, <2>4, <2>5
<1> QED
  BY <1>1, <1>2, <1>3 DEF Matches, Extends

\* What the experience graph says of the run at hand is what happened in it:
\* its last executions are the executed steps, in order, each under the
\* context known before it and with its own outcome.
THEOREM RecordsMatch == Spec => []RecordMatchesRun
<1>1. Init => MatchInv
  <2> SUFFICES ASSUME Init PROVE MatchInv
    OBVIOUS
  <2>1. Len(executed) = 0
    BY EmptySeq DEF Init
  <2> QED
    BY <2>1 DEF MatchInv
<1>2. TypeOK /\ WellFormed(experience) /\ MatchInv /\ [Next]_vars => MatchInv'
  <2> SUFFICES ASSUME TypeOK, WellFormed(experience), MatchInv, [Next]_vars
               PROVE  MatchInv'
    OBVIOUS
  <2>1. ASSUME NEW i \in Incidents, NEW p \in Policies, Begin(i, p) PROVE MatchInv'
    <3>1. Len(executed') = 0
      BY <2>1, EmptySeq DEF Begin
    <3> QED
      BY <3>1 DEF MatchInv
  <2>2. CASE Advance \/ DeadEnd
    <3>1. EvaluateAndRecord /\ UNCHANGED incident
      BY <2>2 DEF Advance, DeadEnd, locals
    <3>2. /\ Len(executed) \in Nat /\ Len(executed') = Len(executed) + 1
          /\ experience.sequence \in Nat
          /\ experience'.sequence = experience.sequence + 1
      BY <3>1, Appended, RecordedExtends DEF WellFormed
    <3>3. ASSUME NEW n \in 1..Len(executed')
          PROVE  Matches(experience', incident, executed', n,
                         experience'.sequence - Len(executed') + n)
      <4>1. CASE n = Len(executed')
        <5>1. experience'.sequence - Len(executed') + n = experience.sequence + 1
          BY <3>2, <4>1
        <5> QED
          BY <3>1, <4>1, <5>1, LastMatches
      <4>2. CASE n # Len(executed')
        <5>1. /\ n \in 1..Len(executed)
              /\ experience'.sequence - Len(executed') + n
                   = experience.sequence - Len(executed) + n
          BY <3>2, <4>2
        <5>2. Matches(experience, incident, executed, n,
                      experience.sequence - Len(executed) + n)
          BY <5>1 DEF MatchInv
        <5> QED
          BY <3>1, <5>1, <5>2, EarlierMatch
      <4> QED
        BY <4>1, <4>2
    <3> QED
      BY <3>1, <3>3 DEF MatchInv
  <2>3. CASE StepLimit \/ ReachTerminal \/ CallTool \/ ToolAnswers \/ ToolRaises
             \/ EvaluationRaises \/ UNCHANGED vars
    BY <2>3 DEF StepLimit, ReachTerminal, CallTool, ToolAnswers, ToolReturns,
                ToolRaises, EvaluationRaises, MatchInv, vars, locals
  <2> QED
    BY <2>1, <2>2, <2>3 DEF Next, EngineStep
<1>3. MatchInv => RecordMatchesRun
  BY DEF MatchInv, Matches, RecordMatchesRun
<1> QED
  BY <1>1, <1>2, <1>3, TypeAndCount, HistoryWellFormed, PTL DEF Spec
=============================================================================
