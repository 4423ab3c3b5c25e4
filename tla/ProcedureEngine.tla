--------------------------- MODULE ProcedureEngine ---------------------------
(***************************************************************************)
(* BGPProcedureEngine.run (src/src/dreamnet/bgp_procedure.py) over an      *)
(* arbitrary procedural graph, evidence evaluator and experience graph:    *)
(* one process that investigates incidents one after the other, each a     *)
(* walk through the procedure that calls a tool at every diagnostic step,  *)
(* evaluates what the tool returned, records the execution and lets the    *)
(* navigation policy choose the next step.                                 *)
(*                                                                         *)
(* The procedure is a CONSTANT (any graph that ProceduralGraph.validate    *)
(* accepts); BGPProcedure gives the one the program ships.                 *)
(***************************************************************************)
EXTENDS ExperienceGraph, Sequences

CONSTANTS
  ActionSteps,          \* steps with a tool
  TerminalSteps,        \* steps with a terminal_diagnosis
  StartStep,
  TerminalDiagnosis,    \* [TerminalSteps -> Diagnoses]
  Transitions,          \* set of [source, outcome, target, priority],
                        \*   priority in hundredths
  Tool, Device, Cost,   \* functions on ActionSteps: what _resolve_action
                        \*   and estimated_cost give
  Version,              \* version of the procedure
  Outcomes, Diagnoses,
  Results(_),           \* what the tool of a step may return: a set of
                        \*   [returncode, stdout, latency_ms]
  Evaluates(_, _, _),   \* (incident, step, result): the evaluator returns
                        \*   (it raises when FALSE)
  Evaluate(_, _, _),    \* (incident, step, result): [outcome, diagnosis]
  Incidents,
  Policies,             \* subset of {"fixed", "experience"}
  InitialExperiences,   \* graphs the process may have loaded
  NoResult,
  MaxSteps,             \* max_steps of run()
  MaxRuns               \* bound on the number of investigations

Steps == ActionSteps \cup TerminalSteps

ASSUME StepsAssumption ==
  /\ ActionSteps \cap TerminalSteps = {}
  /\ StartStep \in Steps
  /\ TerminalDiagnosis \in [TerminalSteps -> Diagnoses]
  /\ NoDiagnosis \notin Diagnoses

\* ProceduralGraph.validate.
ASSUME ValidateAssumption ==
  Transitions \subseteq
    [source : Steps, outcome : Outcomes, target : Steps, priority : Nat]

ASSUME EvaluateAssumption ==
  \A i \in Incidents, s \in ActionSteps : \A r \in Results(s) :
    Evaluates(i, s, r) =>
      Evaluate(i, s, r) \in [outcome : Outcomes,
                             diagnosis : Diagnoses \cup {NoDiagnosis}]

ASSUME ResultsAssumption ==
  \A s \in ActionSteps : \A r \in Results(s) : r.latency_ms \in Nat

ASSUME BoundsAssumption ==
  /\ MaxSteps \in Nat
  /\ MaxRuns \in Nat
  /\ NoResult \notin UNION {Results(s) : s \in ActionSteps}

\* What save wrote, and what an engine starts from.
ASSUME HistoryAssumption == \A g \in InitialExperiences : WellFormed(g)

VARIABLES
  pc,          \* "idle", "loop" (top of the for), "calling" (in the
               \*   adapter), "answered" (result in hand), "returned", "raised"
  incident, policy,
  current,     \* step the loop is at
  visited,
  executed,    \* sequence of [step, outcome, diagnosis, latency_ms]
  result,      \* last ToolResult
  diagnosis, status,
  experience,  \* the ExperienceGraph shared by all runs of the process
  runs         \* investigations begun (bounded by MaxRuns)

locals == <<incident, policy>>
vars == <<pc, incident, policy, current, visited, executed, result,
          diagnosis, status, experience, runs>>

-----------------------------------------------------------------------------
(* Navigation.                                                             *)

\* Mutant: edges are matched on the source step alone.
CandidatesAnyOutcome(step, outcome, seen) ==
  {e \in Transitions : e.source = step /\ e.target \notin seen}

\* Mutant: steps already visited stay eligible.
CandidatesRevisit(step, outcome, seen) ==
  {e \in Transitions : e.source = step /\ e.outcome = outcome}

\* ProceduralGraph.candidates, less the edges to visited steps.
Candidates(step, outcome, seen) ==
  {e \in Transitions : /\ e.source = step
                       /\ e.outcome = outcome
                       /\ e.target \notin seen}

\* FixedNavigationPolicy.choose.  Edges of equal priority keep their authored
\* order in the code; here any of them may be chosen.
FixedPreferred(edges) ==
  {e \in edges : \A f \in edges : f.priority <= e.priority}

\* ExperienceNavigationPolicy.score, times 10^4, as the fraction num / den:
\* with n executions, 1.5 * rate - 0.05 * cost - 0.0001 * latency is gain / n,
\* weighted by min(1, n / 5) it is gain / Max(5, n).  A terminal step has no
\* executions and keeps its authored priority.
Score(edge, g, context) ==
  LET stats == StepStatistics(g, edge.target, context)
      gain  == 15000 * stats.resolved - 500 * stats.cost - stats.latency
      den   == IF stats.count < 5 THEN 5 ELSE stats.count
  IN  [num |-> edge.priority * 100 * den + gain, den |-> den,
       priority |-> edge.priority]

Better(a, b) ==
  LET left  == a.num * b.den
      right == b.num * a.den
  IN  \/ left > right
      \/ left = right /\ a.priority > b.priority

\* Mutant: min instead of max.
ExperiencePreferredWorst(edges, g, context) ==
  {e \in edges : \A f \in edges :
     ~Better(Score(e, g, context), Score(f, g, context))}

ExperiencePreferred(edges, g, context) ==
  {e \in edges : \A f \in edges :
     ~Better(Score(f, g, context), Score(e, g, context))}

Preferred(p, edges, g, context) ==
  IF p = "fixed" THEN FixedPreferred(edges)
                  ELSE ExperiencePreferred(edges, g, context)

\* _context_key: the string joins "step=outcome" pairs with "|", and no step
\* or outcome name holds either sign, so the pairs themselves stand for it.
ContextKey(steps) == [n \in 1..Len(steps) |-> <<steps[n].step, steps[n].outcome>>]

\* Mutant: the key is taken after the outcome was appended.
ContextBeforeLate(steps) == ContextKey(steps)

\* _context_key(outcomes[:-1]): what was known before the last step.
ContextBefore(steps) == ContextKey(SubSeq(steps, 1, Len(steps) - 1))

-----------------------------------------------------------------------------
Init ==
  /\ pc = "idle"
  /\ incident \in Incidents
  /\ policy \in Policies
  /\ current = StartStep
  /\ visited = {}
  /\ executed = << >>
  /\ result = NoResult
  /\ diagnosis = NoDiagnosis
  /\ status = "step_limit"
  /\ experience \in InitialExperiences
  /\ runs = 0

\* A call of run(): the locals are fresh, the experience graph is the
\* engine's and survives from call to call, also after one that raised.
Begin(i, p) ==
  /\ pc \in {"idle", "returned", "raised"}
  /\ runs < MaxRuns
  /\ runs' = runs + 1
  /\ incident' = i
  /\ policy' = p
  /\ current' = StartStep
  /\ visited' = {}
  /\ executed' = << >>
  /\ result' = NoResult
  /\ diagnosis' = NoDiagnosis
  /\ status' = "step_limit"
  /\ pc' = "loop"
  /\ UNCHANGED experience

\* range(max_steps) is used up.  Every pass of the loop that does not end it
\* appends one executed step, so Len(executed) is the loop counter.
StepLimit ==
  /\ pc = "loop"
  /\ Len(executed) >= MaxSteps
  /\ pc' = "returned"
  /\ UNCHANGED <<locals, current, visited, executed, result, diagnosis,
                 status, experience, runs>>

\* Mutant: the terminal step sets the verdict but the loop goes on.
ReachTerminalNoBreak ==
  /\ pc = "loop"
  /\ Len(executed) < MaxSteps
  /\ current \in TerminalSteps
  /\ diagnosis' = TerminalDiagnosis[current]
  /\ status' = IF diagnosis' = "escalate" THEN "escalated" ELSE "diagnosed"
  /\ UNCHANGED <<pc, locals, current, visited, executed, result, experience, runs>>

\* Mutant: an escalation is reported as a diagnosis.
ReachTerminalNoEscalation ==
  /\ pc = "loop"
  /\ Len(executed) < MaxSteps
  /\ current \in TerminalSteps
  /\ diagnosis' = TerminalDiagnosis[current]
  /\ status' = "diagnosed"
  /\ pc' = "returned"
  /\ UNCHANGED <<locals, current, visited, executed, result, experience, runs>>

ReachTerminal ==
  /\ pc = "loop"
  /\ Len(executed) < MaxSteps
  /\ current \in TerminalSteps
  /\ diagnosis' = TerminalDiagnosis[current]
  /\ status' = IF diagnosis' = "escalate" THEN "escalated" ELSE "diagnosed"
  /\ pc' = "returned"
  /\ UNCHANGED <<locals, current, visited, executed, result, experience, runs>>

\* Mutant: the step is not added to visited.
CallToolUnmarked ==
  /\ pc = "loop"
  /\ Len(executed) < MaxSteps
  /\ current \in ActionSteps
  /\ pc' = "calling"
  /\ UNCHANGED <<locals, current, visited, executed, result, diagnosis, status,
                 experience, runs>>

\* Mutant: the terminal check of the loop is missing.
CallToolNoTerminalCheck ==
  /\ pc = "loop"
  /\ Len(executed) < MaxSteps
  /\ visited' = visited \cup {current}
  /\ pc' = "calling"
  /\ UNCHANGED <<locals, current, executed, result, diagnosis, status,
                 experience, runs>>

\* visited.add, _resolve_action and the call of adapter.execute.
CallTool ==
  /\ pc = "loop"
  /\ Len(executed) < MaxSteps
  /\ current \in ActionSteps
  /\ visited' = visited \cup {current}
  /\ pc' = "calling"
  /\ UNCHANGED <<locals, current, executed, result, diagnosis, status,
                 experience, runs>>

\* adapter.execute returns a ToolResult.
ToolReturns(r) ==
  /\ pc = "calling"
  /\ result' = r
  /\ pc' = "answered"
  /\ UNCHANGED <<locals, current, visited, executed, diagnosis, status,
                 experience, runs>>

\* An exception leaves run(): unknown session (_resolve_action), missing
\* fixture, refused tool or parameter, subprocess.TimeoutExpired.
ToolRaises ==
  /\ pc = "calling"
  /\ pc' = "raised"
  /\ UNCHANGED <<locals, current, visited, executed, result, diagnosis, status,
                 experience, runs>>

\* An exception of the evaluator leaves run(); nothing was recorded.
EvaluationRaises ==
  /\ pc = "answered"
  /\ ~Evaluates(incident, current, result)
  /\ pc' = "raised"
  /\ UNCHANGED <<locals, current, visited, executed, result, diagnosis, status,
                 experience, runs>>

Evaluation == Evaluate(incident, current, result)

\* The ExecutedStep that this pass of the loop appends.
ExecutedStep ==
  [step       |-> current,
   outcome    |-> Evaluation.outcome,
   diagnosis  |-> Evaluation.diagnosis,
   latency_ms |-> result.latency_ms]

\* record_execution with what the engine passes it after the last of steps.
Recorded(g, i, steps) ==
  LET x == steps[Len(steps)]
  IN  RecordExecution(g, [incident   |-> i,
                          version    |-> Version,
                          step       |-> x.step,
                          device     |-> Device[x.step],
                          tool       |-> Tool[x.step],
                          context    |-> ContextBefore(steps),
                          outcome    |-> x.outcome,
                          latency_ms |-> x.latency_ms,
                          cost       |-> Cost[x.step],
                          diagnosis  |-> x.diagnosis])

\* evaluate, outcomes.append, record_execution, executed.append.
EvaluateAndRecord ==
  /\ pc = "answered"
  /\ Evaluates(incident, current, result)
  /\ executed' = Append(executed, ExecutedStep)
  /\ experience' = Recorded(experience, incident, executed')

\* Mutant: the navigator sees every authored transition of the graph.
AdvanceAnywhere ==
  /\ EvaluateAndRecord
  /\ \E e \in Preferred(policy, {f \in Transitions : f.target \notin visited},
                      experience', ContextKey(executed')) :
       current' = e.target
  /\ pc' = "loop"
  /\ UNCHANGED <<locals, visited, result, diagnosis, status, runs>>

\* The navigator chooses among the eligible transitions, from the experience
\* graph that already holds this execution.
Advance ==
  /\ EvaluateAndRecord
  /\ \E e \in Preferred(policy, Candidates(current, Evaluation.outcome, visited),
                      experience', ContextKey(executed')) :
       current' = e.target
  /\ pc' = "loop"
  /\ UNCHANGED <<locals, visited, result, diagnosis, status, runs>>

\* No transition is eligible: the run ends with what this step proved.
DeadEnd ==
  /\ EvaluateAndRecord
  /\ Candidates(current, Evaluation.outcome, visited) = {}
  /\ status' = "no_transition"
  /\ diagnosis' = Evaluation.diagnosis
  /\ pc' = "returned"
  /\ UNCHANGED <<locals, current, visited, result, runs>>

\* One step of run(), the tool's answer excepted.
EngineStep ==
  \/ StepLimit
  \/ ReachTerminal
  \/ CallTool
  \/ ToolRaises
  \/ EvaluationRaises
  \/ Advance
  \/ DeadEnd

ToolAnswers == pc = "calling" /\ \E r \in Results(current) : ToolReturns(r)

Next ==
  \/ \E i \in Incidents, p \in Policies : Begin(i, p)
  \/ ToolAnswers
  \/ EngineStep

Spec == Init /\ [][Next]_vars

\* The loop runs in one thread without blocking, and adapter.execute returns
\* or raises: a fixture is read from disk, a live command is killed after
\* timeout_seconds.  Nothing says that another investigation is asked for.
FairSpec == Spec /\ WF_vars(EngineStep \/ ToolAnswers)
-----------------------------------------------------------------------------
(* Types.                                                                  *)

Statuses == {"step_limit", "diagnosed", "escalated", "no_transition"}

ExecutedSteps ==
  [step : ActionSteps, outcome : Outcomes,
   diagnosis : Diagnoses \cup {NoDiagnosis}, latency_ms : Nat]

\* Every variable of run() keeps its type; a result in hand is one of the
\* tool that the current step calls, and the loop counter stays in range.
TypeOK ==
  /\ pc \in {"idle", "loop", "calling", "answered", "returned", "raised"}
  /\ incident \in Incidents
  /\ policy \in Policies
  /\ current \in Steps
  /\ visited \subseteq ActionSteps
  /\ executed \in Seq(ExecutedSteps)
  /\ Len(executed) <= MaxSteps
  /\ pc \in {"calling", "answered"} => current \in ActionSteps
  /\ pc = "answered" => result \in Results(current)
  /\ diagnosis \in Diagnoses \cup {NoDiagnosis}
  /\ status \in Statuses
  /\ runs \in 0..MaxRuns

(***************************************************************************)
(* Safety.                                                                 *)
(***************************************************************************)

\* A diagnostic is run at most once in an investigation, so the number of
\* commands sent to a device is bounded by the procedure, whatever the
\* outcomes and whatever the navigator prefers.
NoRepeatedStep ==
  \A m, n \in 1..Len(executed) :
    executed[m].step = executed[n].step => m = n

\* The way from one executed step to the next, and to the step the loop is
\* at, is an authored transition for the outcome that was observed there
\* (docs/graph-model.md: the navigator "cannot create a step, command or
\* transition that is absent from the approved graph").
Authored(x, target) ==
  \E e \in Transitions :
    e.source = x.step /\ e.outcome = x.outcome /\ e.target = target

PathFollowsGraph ==
  /\ executed # << >> => executed[1].step = StartStep
  /\ \A n \in 1..Len(executed) - 1 : Authored(executed[n], executed[n + 1].step)
  /\ (status # "no_transition" /\ executed # << >>) =>
        Authored(executed[Len(executed)], current)

\* The last executed step, and whether a diagnosis needs a proof: reaching
\* the escalation or the all-clear claims no fault.
LastStep == executed[Len(executed)]
Claims(d) == d \in Diagnoses \ {"escalate", "no_fault_detected"}

\* A run that claims a fault ends on evidence of this very run whose own
\* evaluation proved that fault, and the experience graph says so: the
\* terminal step's label (authored in the graph) and the evaluator's
\* diagnosis (authored in the evaluator) never disagree.
DiagnosisHasEvidence ==
  (pc = "returned" /\ Claims(diagnosis)) =>
    /\ executed # << >>
    /\ LastStep.diagnosis = diagnosis
    /\ Edge(EvidenceId(incident, experience.sequence), "SUPPORTS",
            DiagnosisId(diagnosis)) \in experience.edges

\* Proven evidence is never dropped: when an executed step proved a fault the
\* run returns that fault (it does not escalate, declare health or run out of
\* steps with the proof in its hands).
ProofIsReported ==
  pc = "returned" =>
    \A n \in 1..Len(executed) :
      executed[n].diagnosis # NoDiagnosis => executed[n].diagnosis = diagnosis

(***************************************************************************)
(* Conditions on a procedure and its evaluator under which a run always    *)
(* ends in an honest verdict.  validate() asks for neither.                *)
(***************************************************************************)

WayOut(rank) ==
  /\ \A e \in Transitions :
       {e.source, e.target} \subseteq ActionSteps => rank[e.source] <= rank[e.target]
  /\ \A i \in Incidents, s \in ActionSteps : \A r \in Results(s) :
       Evaluates(i, s, r) =>
         \E e \in Transitions :
           /\ e.source = s
           /\ e.outcome = Evaluate(i, s, r).outcome
           /\ e.target \in ActionSteps => rank[s] < rank[e.target]

TerminalsMatchEvidence ==
  StartStep \in ActionSteps /\
  \A i \in Incidents, s \in ActionSteps : \A r \in Results(s) :
    Evaluates(i, s, r) =>
      \A e \in Transitions :
        (/\ e.source = s
         /\ e.outcome = Evaluate(i, s, r).outcome
         /\ e.target \in TerminalSteps
         /\ Claims(TerminalDiagnosis[e.target]))
          => Evaluate(i, s, r).diagnosis = TerminalDiagnosis[e.target]

\* A proof settles the matter: after it the procedure leads nowhere but to the
\* terminal step for the fault, and inconclusive evidence proves nothing.
ProofsConclude ==
  \A i \in Incidents, s \in ActionSteps : \A r \in Results(s) :
    (Evaluates(i, s, r) /\ Evaluate(i, s, r).diagnosis # NoDiagnosis) =>
      /\ Claims(Evaluate(i, s, r).diagnosis)
      /\ \A e \in Transitions :
           (e.source = s /\ e.outcome = Evaluate(i, s, r).outcome) =>
             /\ e.target \in TerminalSteps
             /\ TerminalDiagnosis[e.target] = Evaluate(i, s, r).diagnosis

\* A diagnostic goes before an escalation for the same outcome.
EscalatesLast ==
  \A e, f \in Transitions :
    (/\ e.source = f.source /\ e.outcome = f.outcome
     /\ e.target \in TerminalSteps /\ TerminalDiagnosis[e.target] = "escalate"
     /\ f.target \in ActionSteps)
      => e.priority < f.priority

\* It does by far: by more than what latencies and costs up to these bounds
\* can take off a score.
EscalatesFarBelow(latency, cost) ==
  \A e, f \in Transitions :
    (/\ e.source = f.source /\ e.outcome = f.outcome
     /\ e.target \in TerminalSteps /\ TerminalDiagnosis[e.target] = "escalate"
     /\ f.target \in ActionSteps)
      => 100 * e.priority + 500 * cost + latency < 100 * f.priority

\* A history within these bounds, of diagnostics only.
QuickHistory(g, latency, cost) ==
  /\ StepsAreNamed(g) /\ Within(g, latency, cost)
  /\ \A e \in g.edges : e.relation = "USED_STEP" => e.target[3] \notin TerminalSteps

\* Commands stay within the bounds, those remembered included.
Quick(latency, cost) ==
  /\ \A s \in ActionSteps : /\ Cost[s] \in 0..cost
                            /\ \A r \in Results(s) : r.latency_ms \in 0..latency
  /\ \A g \in InitialExperiences : QuickHistory(g, latency, cost)

\* A completed run gives a verdict: neither the step limit nor a dead end of
\* the procedure stops it (README: "When evidence is insufficient, the graph
\* ends in escalation rather than manufacturing a diagnosis").
EndsInVerdict ==
  pc = "returned" => /\ status \in {"diagnosed", "escalated"}
                     /\ status = "escalated" <=> diagnosis = "escalate"

\* The walk escalates only when every diagnostic that the procedure still
\* allowed at that point has been tried: experience changes which one comes
\* first, not whether it is run.
EscalationExhausts ==
  (pc = "returned" /\ status = "escalated" /\ executed # << >>) =>
    \A e \in Candidates(LastStep.step, LastStep.outcome, visited) :
      e.target \in TerminalSteps

\* What the experience graph says of this run is what happened: the last
\* Len(executed) executions are this run's, in order, each under the context
\* known before it and with its own outcome (docs/graph-model.md: "context
\* signature representing evidence already known before the action").
RecordMatchesRun ==
  \A n \in 1..Len(executed) :
    LET k == experience.sequence - Len(executed) + n
        V == experience.vertices
    IN  /\ ExecutionId(incident, k) \in DOMAIN V
        /\ V[ExecutionId(incident, k)].context_key =
              ContextKey(SubSeq(executed, 1, n - 1))
        /\ V[EvidenceId(incident, k)].outcome = executed[n].outcome
        /\ Edge(ExecutionId(incident, k), "USED_STEP",
                StepId(Version, executed[n].step)) \in experience.edges

\* The experience graph stays a history the navigator can read: no dangling
\* edge, no id in use that a later execution would be given, and every
\* execution tied to one incident, step, device and piece of evidence.
HistoryIsSound ==
  /\ EdgesJoinVertices(experience)
  /\ SequenceIsFresh(experience)
  /\ Provenance(experience)

(***************************************************************************)
(* Action properties.                                                      *)
(***************************************************************************)

\* No step of any run rewrites or forgets what was recorded; the history grows
\* exactly when the run has executed one more step, by one execution under an
\* id that was free (docs/graph-model.md: "It is append-oriented").
GrowsByOneExecution ==
  LET new == ExecutionId(incident, experience.sequence + 1)
  IN  /\ Extends(experience', experience)
      /\ experience' # experience <=> Len(executed') = Len(executed) + 1
      /\ experience' # experience =>
           /\ new \notin Executions(experience)
           /\ Executions(experience') = Executions(experience) \cup {new}

HistoryOnlyGrows == [][GrowsByOneExecution]_vars

(***************************************************************************)
(* Liveness.                                                               *)
(***************************************************************************)

\* An investigation that has begun returns or raises.
InvestigationEnds == (pc = "loop") ~> (pc \in {"returned", "raised"})
=============================================================================
