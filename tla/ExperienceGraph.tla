--------------------------- MODULE ExperienceGraph ---------------------------
(***************************************************************************)
(* The experience graph (src/src/dreamnet/graphs.py, class                 *)
(* ExperienceGraph): a property graph of the diagnostic actions that were  *)
(* really executed.  A graph is a value                                    *)
(*                                                                         *)
(*   [vertices |-> function from vertex ids to entities,                   *)
(*    edges    |-> set of [source, relation, target],                      *)
(*    sequence |-> number of executions recorded so far]                   *)
(*                                                                         *)
(* and every operation is an operator from graphs to graphs, so that the   *)
(* engine, a process that loads a file, and the proofs share it.           *)
(*                                                                         *)
(* The code keeps edges in a list that _link keeps free of duplicates; the *)
(* order of that list is never observed, so a set stands for it.  Ids are  *)
(* formatted strings in the code and tuples of the formatted parts here.   *)
(* Evidence text, confidence, digest and timestamp are left out: nothing   *)
(* in the program reads them back.                                         *)
(***************************************************************************)
EXTENDS Integers, FiniteSets, FiniteSetsExt

CONSTANT NoDiagnosis      \* the None of the code's "diagnosis: str | None"

EmptyExperience ==
  [vertices |-> [id \in {} |-> 0], edges |-> {}, sequence |-> 0]

-----------------------------------------------------------------------------
(* Vertex ids. *)

IncidentId(incident)      == <<"incident", incident>>
StepId(version, step)     == <<"procedure-step", version, step>>
DeviceId(device)          == <<"device", device>>
DiagnosisId(diagnosis)    == <<"diagnosis", diagnosis>>
EvidenceId(incident, n)   == <<"evidence", incident, n>>
ExecutionId(incident, n)  == <<"execution", incident, n>>

-----------------------------------------------------------------------------
(* The two primitives.  A second entity for the id of an incident, step,   *)
(* device or diagnosis is ignored.  For an execution or evidence id the    *)
(* code raises when the entities differ; HistoryOnlyGrows, checked on      *)
(* every module that records, is what makes that branch unreachable, and   *)
(* so it has no action of its own.                                         *)

SoftKinds == {"incident", "procedure_step", "device", "diagnosis"}

Upsert(V, id, entity) ==
  IF id \in DOMAIN V /\ V[id].kind \in SoftKinds
    THEN V
    ELSE [v \in DOMAIN V \cup {id} |-> IF v = id THEN entity ELSE V[v]]

Edge(source, relation, target) ==
  [source |-> source, relation |-> relation, target |-> target]

-----------------------------------------------------------------------------
(* record_execution.  x names the keyword arguments: incident, version,    *)
(* step, device, tool, context, outcome, latency_ms, cost, diagnosis.      *)

\* Mutant: the counter that makes execution ids unique is not advanced.
NextSequenceStuck(g) == IF g.sequence = 0 THEN 1 ELSE g.sequence

NextSequence(g) == g.sequence + 1

ExecutionEntity(x) ==
  [kind        |-> "execution",
   tool        |-> x.tool,
   context_key |-> x.context,
   latency_ms  |-> x.latency_ms,
   cost        |-> x.cost,
   diagnosis   |-> x.diagnosis,
   resolved    |-> x.diagnosis # NoDiagnosis]

RecordedVertices(V, x, n) ==
  LET V1 == Upsert(V,  IncidentId(x.incident),
                       [kind |-> "incident", incident_id |-> x.incident])
      V2 == Upsert(V1, StepId(x.version, x.step),
                       [kind |-> "procedure_step", step_id |-> x.step])
      V3 == Upsert(V2, DeviceId(x.device),
                       [kind |-> "device", name |-> x.device])
      V4 == Upsert(V3, EvidenceId(x.incident, n),
                       [kind |-> "evidence", outcome |-> x.outcome])
      V5 == Upsert(V4, ExecutionId(x.incident, n), ExecutionEntity(x))
  IN  IF x.diagnosis = NoDiagnosis
        THEN V5
        ELSE Upsert(V5, DiagnosisId(x.diagnosis),
                        [kind |-> "diagnosis", name |-> x.diagnosis])

\* Mutant: the evidence of every execution is linked to a diagnosis.
RecordedEdgesUnconditional(x, n) ==
  LET execution == ExecutionId(x.incident, n)
      evidence  == EvidenceId(x.incident, n)
  IN  {Edge(IncidentId(x.incident), "HAS_EXECUTION", execution),
       Edge(execution, "USED_STEP", StepId(x.version, x.step)),
       Edge(execution, "TARGETED", DeviceId(x.device)),
       Edge(execution, "PRODUCED", evidence),
       Edge(evidence, "SUPPORTS", DiagnosisId(x.diagnosis))}

RecordedEdges(x, n) ==
  LET execution == ExecutionId(x.incident, n)
      evidence  == EvidenceId(x.incident, n)
  IN  {Edge(IncidentId(x.incident), "HAS_EXECUTION", execution),
       Edge(execution, "USED_STEP", StepId(x.version, x.step)),
       Edge(execution, "TARGETED", DeviceId(x.device)),
       Edge(execution, "PRODUCED", evidence)}
      \cup {Edge(evidence, "SUPPORTS", DiagnosisId(d)) :
              d \in {x.diagnosis} \ {NoDiagnosis}}

RecordExecution(g, x) ==
  LET n == NextSequence(g)
  IN  [vertices |-> RecordedVertices(g.vertices, x, n),
       edges    |-> g.edges \cup RecordedEdges(x, n),
       sequence |-> n]

-----------------------------------------------------------------------------
(* step_statistics.  The executions of a step are those whose context is   *)
(* the given one, or, when there is none, all of them; the version of the  *)
(* procedure the step belonged to is not looked at.  Sums are returned     *)
(* where the code returns means, so that scores stay exact (see            *)
(* ProcedureEngine).                                                       *)

Executions(g) == {id \in DOMAIN g.vertices : g.vertices[id].kind = "execution"}

ExecutionsOf(g, step) ==
  {e.source : e \in {f \in g.edges :
                       /\ f.relation = "USED_STEP"
                       /\ g.vertices[f.target].step_id = step}}

\* Mutant: no fallback to the executions of other contexts.
SampleInContextOnly(g, step, context) ==
  {id \in ExecutionsOf(g, step) : g.vertices[id].context_key = context}

Sample(g, step, context) ==
  LET inContext == {id \in ExecutionsOf(g, step) :
                      g.vertices[id].context_key = context}
  IN  IF inContext # {} THEN inContext ELSE ExecutionsOf(g, step)

StepStatistics(g, step, context) ==
  LET sample        == Sample(g, step, context)
      LatencyOf(id) == g.vertices[id].latency_ms
      CostOf(id)    == g.vertices[id].cost
  IN  [count    |-> Cardinality(sample),
       resolved |-> Cardinality({id \in sample : g.vertices[id].resolved}),
       latency  |-> MapThenSumSet(LatencyOf, sample),
       cost     |-> MapThenSumSet(CostOf, sample)]

-----------------------------------------------------------------------------
(* What a graph must satisfy to be a history one can navigate by.          *)

\* Every edge joins two vertices of the graph (step_statistics indexes
\* self.vertices with both ends of a USED_STEP edge, without a guard).
EdgesJoinVertices(g) ==
  \A e \in g.edges : {e.source, e.target} \subseteq DOMAIN g.vertices

\* Ids that the next record_execution will use are still free.
SequenceIsFresh(g) ==
  \A id \in DOMAIN g.vertices :
    id[1] \in {"execution", "evidence"} => id[3] \in 1..g.sequence

\* What makes the freshness of ids inductive: vertices that a record may meet
\* again are of the kinds that are kept as they are.
WellFormed(g) ==
  /\ g.sequence \in Nat
  /\ SequenceIsFresh(g)
  /\ \A id \in DOMAIN g.vertices :
       id[1] \notin {"execution", "evidence"} => g.vertices[id].kind \in SoftKinds

\* Each execution is tied to one incident, one step, one device and one
\* piece of evidence, and that evidence supports the diagnosis the execution
\* proved and no other.
Provenance(g) ==
  \A id \in Executions(g) :
    LET From(relation) == {e.target : e \in {f \in g.edges :
                             f.source = id /\ f.relation = relation}}
        supported == {e.target : e \in {f \in g.edges :
                        f.relation = "SUPPORTS" /\ f.source \in From("PRODUCED")}}
    IN  /\ {e.source : e \in {f \in g.edges :
               f.target = id /\ f.relation = "HAS_EXECUTION"}} = {IncidentId(id[2])}
        /\ \A relation \in {"USED_STEP", "TARGETED", "PRODUCED"} :
             Cardinality(From(relation)) = 1
        /\ supported = {DiagnosisId(d) :
                          d \in {g.vertices[id].diagnosis} \ {NoDiagnosis}}

\* The vertex of a step carries the step's name, and executions are of steps.
StepsAreNamed(g) ==
  /\ \A id \in DOMAIN g.vertices :
       id[1] = "procedure-step" => g.vertices[id].step_id = id[3]
  /\ \A e \in g.edges :
       e.relation = "USED_STEP" =>
         /\ e.source \in Executions(g)
         /\ e.target \in DOMAIN g.vertices /\ e.target[1] = "procedure-step"

\* Finitely many executions, none of which took longer or cost more.
Within(g, latency, cost) ==
  /\ IsFiniteSet(Executions(g))
  /\ \A id \in Executions(g) : /\ g.vertices[id].latency_ms \in 0..latency
                               /\ g.vertices[id].cost \in 0..cost

\* h extends g: no vertex changed, none and no edge disappeared.
Extends(h, g) ==
  /\ DOMAIN g.vertices \subseteq DOMAIN h.vertices
  /\ \A id \in DOMAIN g.vertices : h.vertices[id] = g.vertices[id]
  /\ g.edges \subseteq h.edges
  /\ g.sequence <= h.sequence
=============================================================================
