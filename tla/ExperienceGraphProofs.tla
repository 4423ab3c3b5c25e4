------------------------ MODULE ExperienceGraphProofs ------------------------
(***************************************************************************)
(* record_execution only adds: the facts about ExperienceGraph that the    *)
(* proofs of the engine and of the store cite.                             *)
(***************************************************************************)
EXTENDS ExperienceGraph, FiniteSetTheorems, WellFoundedInduction, TLAPS

\* An upsert of a free id, or of one whose entity is kept, changes nothing
\* that was there.
LEMMA UpsertAdds ==
  ASSUME NEW V, NEW id, NEW entity,
         id \in DOMAIN V => V[id].kind \in SoftKinds
  PROVE  /\ DOMAIN Upsert(V, id, entity) = DOMAIN V \cup {id}
         /\ \A v \in DOMAIN V : Upsert(V, id, entity)[v] = V[v]
         /\ id \notin DOMAIN V => Upsert(V, id, entity)[id] = entity
BY DEF Upsert

\* Ids of different kinds differ, and only executions and evidence are
\* numbered.
LEMMA IdKinds ==
  ASSUME NEW a, NEW b, NEW n
  PROVE  /\ IncidentId(a)[1] = "incident"
         /\ StepId(a, b)[1] = "procedure-step" /\ StepId(a, b)[3] = b
         /\ DeviceId(a)[1] = "device"
         /\ DiagnosisId(a)[1] = "diagnosis"
         /\ EvidenceId(a, n)[1] = "evidence" /\ EvidenceId(a, n)[3] = n
         /\ ExecutionId(a, n)[1] = "execution" /\ ExecutionId(a, n)[3] = n
BY DEF IncidentId, StepId, DeviceId, DiagnosisId, EvidenceId, ExecutionId

\* What the vertices of a well-formed graph have in common: everything but
\* executions and evidence is of a kind that an upsert keeps.
SoftVertices(V) ==
  \A id \in DOMAIN V : id[1] \notin {"execution", "evidence"} => V[id].kind \in SoftKinds

\* V grew into W by the ids of a set, each with its kind.
Grew(V, W, ids) ==
  /\ DOMAIN W = DOMAIN V \cup ids
  /\ \A v \in DOMAIN V : W[v] = V[v]

\* One upsert of an incident, step, device or diagnosis.
LEMMA SoftUpsert ==
  ASSUME NEW V, NEW id, NEW entity, SoftVertices(V),
         id[1] \notin {"execution", "evidence"}, entity.kind \in SoftKinds
  PROVE  /\ Grew(V, Upsert(V, id, entity), {id})
         /\ SoftVertices(Upsert(V, id, entity))
         /\ Upsert(V, id, entity)[id].kind \in SoftKinds
         /\ id \notin DOMAIN V => Upsert(V, id, entity)[id] = entity
<1> DEFINE U == Upsert(V, id, entity)
<1>1. id \in DOMAIN V => V[id].kind \in SoftKinds
  BY DEF SoftVertices
<1>2. /\ DOMAIN U = DOMAIN V \cup {id}
      /\ \A v \in DOMAIN V : U[v] = V[v]
      /\ id \notin DOMAIN V => U[id] = entity
  BY <1>1, UpsertAdds
<1> HIDE DEF U
<1>3. U[id].kind \in SoftKinds
  BY <1>1, <1>2
<1>4. Grew(V, U, {id}) /\ SoftVertices(U)
  BY <1>2, <1>3 DEF SoftVertices, Grew
<1> QED
  BY <1>2, <1>3, <1>4 DEF U

\* One upsert of a fresh execution or of fresh evidence.
LEMMA HardUpsert ==
  ASSUME NEW V, NEW id, NEW entity, SoftVertices(V),
         id[1] \in {"execution", "evidence"}, id \notin DOMAIN V
  PROVE  /\ Grew(V, Upsert(V, id, entity), {id})
         /\ SoftVertices(Upsert(V, id, entity))
         /\ Upsert(V, id, entity)[id] = entity
<1> DEFINE U == Upsert(V, id, entity)
<1>1. /\ DOMAIN U = DOMAIN V \cup {id}
      /\ \A v \in DOMAIN V : U[v] = V[v]
      /\ id \notin DOMAIN V => U[id] = entity
  BY UpsertAdds
<1> HIDE DEF U
<1>2. Grew(V, U, {id}) /\ SoftVertices(U)
  BY <1>1 DEF SoftVertices, Grew
<1> QED
  BY <1>1, <1>2 DEF U

\* The vertices that one record_execution leaves: the old ones unchanged, the
\* execution, its evidence, and ids that are neither.
LEMMA RecordedVerticesGrow ==
  ASSUME NEW V, NEW x, NEW n, SoftVertices(V),
         EvidenceId(x.incident, n) \notin DOMAIN V,
         ExecutionId(x.incident, n) \notin DOMAIN V
  PROVE  LET W == RecordedVertices(V, x, n)
         IN  /\ SoftVertices(W)
             /\ DOMAIN V \subseteq DOMAIN W
             /\ \A v \in DOMAIN V : W[v] = V[v]
             /\ \A w \in DOMAIN W \ DOMAIN V :
                  \/ w = ExecutionId(x.incident, n) /\ W[w] = ExecutionEntity(x)
                  \/ w = EvidenceId(x.incident, n) /\ W[w].kind = "evidence"
                  \/ w[1] \notin {"execution", "evidence"} /\ W[w].kind \in SoftKinds
             /\ \A w \in DOMAIN W \ DOMAIN V :
                  w[1] = "procedure-step" => w[3] = x.step /\ W[w].step_id = x.step
             /\ {ExecutionId(x.incident, n), EvidenceId(x.incident, n),
                 IncidentId(x.incident), StepId(x.version, x.step), DeviceId(x.device)}
                  \subseteq DOMAIN W
             /\ W[EvidenceId(x.incident, n)].outcome = x.outcome
             /\ x.diagnosis # NoDiagnosis => DiagnosisId(x.diagnosis) \in DOMAIN W
<1> DEFINE i  == IncidentId(x.incident)
           s  == StepId(x.version, x.step)
           d  == DeviceId(x.device)
           ev == EvidenceId(x.incident, n)
           ex == ExecutionId(x.incident, n)
           g  == DiagnosisId(x.diagnosis)
           E1 == [kind |-> "incident", incident_id |-> x.incident]
           E2 == [kind |-> "procedure_step", step_id |-> x.step]
           E3 == [kind |-> "device", name |-> x.device]
           E4 == [kind |-> "evidence", outcome |-> x.outcome]
           E5 == ExecutionEntity(x)
           E6 == [kind |-> "diagnosis", name |-> x.diagnosis]
           V1 == Upsert(V, i, E1)
           V2 == Upsert(V1, s, E2)
           V3 == Upsert(V2, d, E3)
           V4 == Upsert(V3, ev, E4)
           V5 == Upsert(V4, ex, E5)
           V6 == Upsert(V5, g, E6)
           W  == RecordedVertices(V, x, n)
<1>0. W = IF x.diagnosis = NoDiagnosis THEN V5 ELSE V6
  BY DEF RecordedVertices
<1>a. /\ i[1] = "incident" /\ s[1] = "procedure-step" /\ d[1] = "device"
      /\ g[1] = "diagnosis" /\ ev[1] = "evidence" /\ ex[1] = "execution"
      /\ s[3] = x.step /\ E2.step_id = x.step
  BY IdKinds
<1>b. /\ E1.kind = "incident" /\ E2.kind = "procedure_step" /\ E3.kind = "device"
      /\ E4.kind = "evidence" /\ E6.kind = "diagnosis"
  OBVIOUS
<1>c. {E1.kind, E2.kind, E3.kind, E6.kind} \subseteq SoftKinds
  BY <1>b DEF SoftKinds
<1> HIDE DEF i, s, d, ev, ex, g, E1, E2, E3, E4, E5, E6, V1, V2, V3, V4, V5, V6, W
<1>1. Grew(V, V1, {i}) /\ SoftVertices(V1) /\ V1[i].kind \in SoftKinds
  BY <1>a, <1>c, SoftUpsert DEF V1
<1>2. Grew(V1, V2, {s}) /\ SoftVertices(V2) /\ V2[s].kind \in SoftKinds
      /\ (s \notin DOMAIN V1 => V2[s] = E2)
  BY <1>1, <1>a, <1>c, SoftUpsert DEF V2
<1>3. Grew(V2, V3, {d}) /\ SoftVertices(V3) /\ V3[d].kind \in SoftKinds
  BY <1>2, <1>a, <1>c, SoftUpsert DEF V3
<1>4. Grew(V3, V4, {ev}) /\ SoftVertices(V4) /\ V4[ev] = E4
  <2>1. ev \notin DOMAIN V3
    BY <1>1, <1>2, <1>3, <1>a DEF Grew, ev
  <2> QED
    BY <2>1, <1>3, <1>a, HardUpsert DEF V4
<1>5. Grew(V4, V5, {ex}) /\ SoftVertices(V5) /\ V5[ex] = E5
  <2>1. ex \notin DOMAIN V4
    BY <1>1, <1>2, <1>3, <1>4, <1>a DEF Grew, ex
  <2> QED
    BY <2>1, <1>4, <1>a, HardUpsert DEF V5
<1>6. Grew(V5, V6, {g}) /\ SoftVertices(V6) /\ V6[g].kind \in SoftKinds
  BY <1>5, <1>a, <1>c, SoftUpsert DEF V6
<1>7. /\ SoftVertices(W)
      /\ \A v \in DOMAIN V5 : v \in DOMAIN W /\ W[v] = V5[v]
      /\ \A w \in DOMAIN W \ DOMAIN V5 : w = g /\ W[w].kind \in SoftKinds
  BY <1>0, <1>5, <1>6 DEF Grew
<1>8. /\ \A v \in DOMAIN V : v \in DOMAIN V5 /\ V5[v] = V[v]
      /\ DOMAIN V5 = DOMAIN V \cup {i, s, d, ev, ex}
      /\ V5[ex] = E5 /\ V5[ev] = E4
      /\ {V5[i].kind, V5[s].kind, V5[d].kind} \subseteq SoftKinds
  BY <1>1, <1>2, <1>3, <1>4, <1>5 DEF Grew
<1>9. \A w \in DOMAIN W \ DOMAIN V :
        \/ w = ex /\ W[w] = E5
        \/ w = ev /\ W[w].kind = "evidence"
        \/ w[1] \notin {"execution", "evidence"} /\ W[w].kind \in SoftKinds
  BY <1>7, <1>8, <1>a, <1>b
<1>10. /\ {ex, ev, i, s, d} \subseteq DOMAIN W
       /\ W[ev].outcome = x.outcome
       /\ x.diagnosis # NoDiagnosis => g \in DOMAIN W
  <2>1. E4.outcome = x.outcome
    BY DEF E4
  <2> QED
    BY <2>1, <1>0, <1>6, <1>7, <1>8 DEF Grew
<1>11. \A w \in DOMAIN W \ DOMAIN V :
         w[1] = "procedure-step" => w[3] = x.step /\ W[w].step_id = x.step
  <2> SUFFICES ASSUME NEW w \in DOMAIN W \ DOMAIN V, w[1] = "procedure-step"
               PROVE  w[3] = x.step /\ W[w].step_id = x.step
    OBVIOUS
  <2>1. w = s
    BY <1>7, <1>8, <1>a
  <2>2. s \notin DOMAIN V1 /\ W[s] = V2[s]
    BY <1>1, <1>2, <1>3, <1>4, <1>5, <1>7, <1>a, <2>1 DEF Grew
  <2> QED
    BY <1>2, <1>a, <2>1, <2>2
<1> QED
  BY <1>7, <1>8, <1>9, <1>10, <1>11 DEF W, ex, ev, i, s, d, g, E5

\* record_execution on a well-formed history extends it by exactly one
\* execution, under an id that was free, and leaves it well formed.
THEOREM RecordExtends ==
  ASSUME NEW g, NEW x, WellFormed(g)
  PROVE  LET h == RecordExecution(g, x)
             new == ExecutionId(x.incident, NextSequence(g))
         IN  /\ WellFormed(h)
             /\ Extends(h, g)
             /\ new \notin Executions(g)
             /\ Executions(h) = Executions(g) \cup {new}
             /\ h.sequence = g.sequence + 1
             /\ new \in DOMAIN h.vertices /\ h.vertices[new] = ExecutionEntity(x)
             /\ h.edges = g.edges \cup RecordedEdges(x, NextSequence(g))
             /\ {IncidentId(x.incident), StepId(x.version, x.step), DeviceId(x.device),
                 EvidenceId(x.incident, NextSequence(g))} \subseteq DOMAIN h.vertices
             /\ h.vertices[EvidenceId(x.incident, NextSequence(g))].outcome = x.outcome
             /\ x.diagnosis # NoDiagnosis => DiagnosisId(x.diagnosis) \in DOMAIN h.vertices
             /\ {new, EvidenceId(x.incident, NextSequence(g))} \cap DOMAIN g.vertices = {}
             /\ \A w \in DOMAIN h.vertices \ DOMAIN g.vertices :
                  w[1] = "procedure-step" => w[3] = x.step /\ h.vertices[w].step_id = x.step
<1> DEFINE n  == NextSequence(g)
           h  == RecordExecution(g, x)
           V  == g.vertices
           W  == RecordedVertices(V, x, n)
           ex == ExecutionId(x.incident, n)
           ev == EvidenceId(x.incident, n)
<1>1. /\ h.vertices = W /\ h.sequence = n
      /\ h.edges = g.edges \cup RecordedEdges(x, n)
      /\ n = g.sequence + 1 /\ n \in Nat /\ g.sequence \in Nat /\ g.sequence < n
  BY DEF RecordExecution, NextSequence, WellFormed
<1>2. /\ ex[1] = "execution" /\ ex[3] = n /\ ev[1] = "evidence" /\ ev[3] = n
  BY IdKinds
<1>3. ex \notin DOMAIN V /\ ev \notin DOMAIN V
  BY <1>1, <1>2 DEF WellFormed, SequenceIsFresh
<1>4. SoftVertices(V)
  BY DEF WellFormed, SoftVertices
<1>5. /\ SoftVertices(W)
      /\ DOMAIN V \subseteq DOMAIN W
      /\ \A v \in DOMAIN V : W[v] = V[v]
      /\ \A w \in DOMAIN W \ DOMAIN V :
           \/ w = ex /\ W[w] = ExecutionEntity(x)
           \/ w = ev /\ W[w].kind = "evidence"
           \/ w[1] \notin {"execution", "evidence"} /\ W[w].kind \in SoftKinds
      /\ \A w \in DOMAIN W \ DOMAIN V :
           w[1] = "procedure-step" => w[3] = x.step /\ W[w].step_id = x.step
      /\ {ex, ev, IncidentId(x.incident), StepId(x.version, x.step),
          DeviceId(x.device)} \subseteq DOMAIN W
      /\ W[ev].outcome = x.outcome
      /\ x.diagnosis # NoDiagnosis => DiagnosisId(x.diagnosis) \in DOMAIN W
  BY <1>3, <1>4, RecordedVerticesGrow
<1>6. ExecutionEntity(x).kind = "execution"
  BY DEF ExecutionEntity
<1> HIDE DEF n, h, V, W, ex, ev
<1>7. WellFormed(h)
  <2>1. ASSUME NEW id \in DOMAIN W, id[1] \in {"execution", "evidence"}
        PROVE  id[3] \in 1..n
    <3>1. CASE id \in DOMAIN V
      <4>1. id[3] \in 1..g.sequence
        BY <2>1, <3>1 DEF WellFormed, SequenceIsFresh, V
      <4> QED
        BY <1>1, <4>1
    <3>2. CASE id \notin DOMAIN V
      <4>1. id[3] = n
        BY <1>2, <1>5, <2>1, <3>2
      <4> QED
        BY <1>1, <4>1
    <3> QED
      BY <3>1, <3>2
  <2> QED
    BY <1>1, <1>5, <2>1 DEF WellFormed, SequenceIsFresh, SoftVertices
<1>8. Extends(h, g)
  BY <1>1, <1>5 DEF Extends, V
<1>9. ex \notin Executions(g)
  BY <1>3 DEF Executions, V
<1>10. Executions(h) = Executions(g) \cup {ex}
  <2>1. W[ex].kind = "execution"
    BY <1>2, <1>3, <1>5, <1>6
  <2>2. ASSUME NEW w \in DOMAIN W \ DOMAIN V, W[w].kind = "execution" PROVE w = ex
    BY <1>5, <2>2 DEF SoftKinds
  <2> QED
    BY <1>1, <1>5, <2>1, <2>2 DEF Executions, V
<1>11. W[ex] = ExecutionEntity(x)
  BY <1>2, <1>3, <1>5
<1> QED
  BY <1>1, <1>3, <1>5, <1>7, <1>8, <1>9, <1>10, <1>11 DEF n, h, V, W, ex, ev

-----------------------------------------------------------------------------
(* Provenance.                                                             *)

\* Provenance is a matter of each execution for itself.
Ends(g, id, relation) ==
  {e.target : e \in {f \in g.edges : f.source = id /\ f.relation = relation}}

Tied(g, id) ==
  /\ {e.source : e \in {f \in g.edges :
        f.target = id /\ f.relation = "HAS_EXECUTION"}} = {IncidentId(id[2])}
  /\ \A relation \in {"USED_STEP", "TARGETED", "PRODUCED"} :
       Cardinality(Ends(g, id, relation)) = 1
  /\ {e.target : e \in {f \in g.edges :
        f.relation = "SUPPORTS" /\ f.source \in Ends(g, id, "PRODUCED")}}
       = {DiagnosisId(d) : d \in {g.vertices[id].diagnosis} \ {NoDiagnosis}}

LEMMA ProvenanceIsTied ==
  ASSUME NEW g
  PROVE  Provenance(g) <=> \A id \in Executions(g) : Tied(g, id)
BY DEF Provenance, Tied, Ends

\* The edges that an execution adds.
LEMMA NewEdges ==
  ASSUME NEW x, NEW n
  PROVE  LET new == RecordedEdges(x, n)
             ex  == ExecutionId(x.incident, n)
             ev  == EvidenceId(x.incident, n)
         IN  /\ \A e \in new :
                  \/ /\ e.source = IncidentId(x.incident)
                     /\ e.relation = "HAS_EXECUTION" /\ e.target = ex
                  \/ /\ e.source = ex /\ e.relation = "USED_STEP"
                     /\ e.target = StepId(x.version, x.step)
                  \/ /\ e.source = ex /\ e.relation = "TARGETED"
                     /\ e.target = DeviceId(x.device)
                  \/ e.source = ex /\ e.relation = "PRODUCED" /\ e.target = ev
                  \/ /\ e.source = ev /\ e.relation = "SUPPORTS"
                     /\ e.target = DiagnosisId(x.diagnosis)
                     /\ x.diagnosis # NoDiagnosis
             /\ {Edge(IncidentId(x.incident), "HAS_EXECUTION", ex),
                 Edge(ex, "USED_STEP", StepId(x.version, x.step)),
                 Edge(ex, "TARGETED", DeviceId(x.device)),
                 Edge(ex, "PRODUCED", ev)} \subseteq new
             /\ x.diagnosis # NoDiagnosis =>
                  Edge(ev, "SUPPORTS", DiagnosisId(x.diagnosis)) \in new
BY DEF RecordedEdges, Edge

\* A recorded execution is tied as it should be, and no other is disturbed.
LEMMA RecordKeepsProvenance ==
  ASSUME NEW g, NEW x,
         WellFormed(g), EdgesJoinVertices(g), Provenance(g)
  PROVE  /\ EdgesJoinVertices(RecordExecution(g, x))
         /\ Provenance(RecordExecution(g, x))
<1> DEFINE n   == NextSequence(g)
           h   == RecordExecution(g, x)
           inc == IncidentId(x.incident)
           st  == StepId(x.version, x.step)
           dev == DeviceId(x.device)
           dia == DiagnosisId(x.diagnosis)
           ev  == EvidenceId(x.incident, n)
           ex  == ExecutionId(x.incident, n)
           New == RecordedEdges(x, n)
<1>1. /\ Extends(h, g)
      /\ Executions(h) = Executions(g) \cup {ex}
      /\ ex \in DOMAIN h.vertices /\ h.vertices[ex] = ExecutionEntity(x)
      /\ h.edges = g.edges \cup New
      /\ {inc, st, dev, ev} \subseteq DOMAIN h.vertices
      /\ x.diagnosis # NoDiagnosis => dia \in DOMAIN h.vertices
      /\ ex \notin DOMAIN g.vertices /\ ev \notin DOMAIN g.vertices
  BY RecordExtends
<1>2. \A e \in New :
        \/ e.source = inc /\ e.relation = "HAS_EXECUTION" /\ e.target = ex
        \/ e.source = ex /\ e.relation = "USED_STEP" /\ e.target = st
        \/ e.source = ex /\ e.relation = "TARGETED" /\ e.target = dev
        \/ e.source = ex /\ e.relation = "PRODUCED" /\ e.target = ev
        \/ /\ e.source = ev /\ e.relation = "SUPPORTS" /\ e.target = dia
           /\ x.diagnosis # NoDiagnosis
  BY NewEdges
<1>3. /\ {Edge(inc, "HAS_EXECUTION", ex), Edge(ex, "USED_STEP", st),
          Edge(ex, "TARGETED", dev), Edge(ex, "PRODUCED", ev)} \subseteq New
      /\ x.diagnosis # NoDiagnosis => Edge(ev, "SUPPORTS", dia) \in New
  BY NewEdges
<1>4. /\ inc[1] = "incident" /\ ex[1] = "execution" /\ ev[1] = "evidence"
      /\ inc = IncidentId(ex[2])
  BY IdKinds DEF IncidentId, ExecutionId
<1>5. \A e \in g.edges : {e.source, e.target} \subseteq DOMAIN g.vertices
  BY DEF EdgesJoinVertices
<1>6. ExecutionEntity(x).diagnosis = x.diagnosis
  BY DEF ExecutionEntity
<1>7. \A a, r, b : /\ Edge(a, r, b).source = a
                   /\ Edge(a, r, b).relation = r
                   /\ Edge(a, r, b).target = b
  BY DEF Edge
<1>8. \A id \in Executions(g) :
        /\ id \in DOMAIN g.vertices /\ id # inc
        /\ g.vertices[id].diagnosis = h.vertices[id].diagnosis
  <2> SUFFICES ASSUME NEW id \in Executions(g)
               PROVE  /\ id \in DOMAIN g.vertices /\ id # inc
                      /\ g.vertices[id].diagnosis = h.vertices[id].diagnosis
    OBVIOUS
  <2>1. id \in DOMAIN g.vertices /\ g.vertices[id].kind = "execution"
    BY DEF Executions
  <2>2. id[1] \in {"execution", "evidence"}
    BY <2>1 DEF WellFormed, SoftKinds
  <2> QED
    BY <1>1, <1>4, <2>1, <2>2 DEF Extends
<1> HIDE DEF n, h, inc, st, dev, dia, ev, ex, New
<1>9. EdgesJoinVertices(h)
  <2> SUFFICES ASSUME NEW e \in h.edges
               PROVE  {e.source, e.target} \subseteq DOMAIN h.vertices
    BY DEF EdgesJoinVertices
  <2>1. CASE e \in g.edges
    BY <1>1, <1>5, <2>1 DEF Extends
  <2>2. CASE e \in New
    BY <1>1, <1>2, <2>2
  <2> QED
    BY <1>1, <2>1, <2>2
<1>10. ASSUME NEW id \in Executions(g) PROVE Tied(h, id)
  <2>1. Tied(g, id)
    BY ProvenanceIsTied
  <2>2. id # ex /\ id # ev /\ id # inc
    BY <1>1, <1>8
  <2>3. {f \in h.edges : f.target = id /\ f.relation = "HAS_EXECUTION"}
          = {f \in g.edges : f.target = id /\ f.relation = "HAS_EXECUTION"}
    BY <1>1, <1>2, <2>2
  <2>4. \A relation : Ends(h, id, relation) = Ends(g, id, relation)
    <3>1. \A f \in New : f.source # id
      BY <1>2, <2>2
    <3> QED
      BY <1>1, <3>1 DEF Ends
  <2>5. {f \in h.edges : f.relation = "SUPPORTS" /\ f.source \in Ends(h, id, "PRODUCED")}
          = {f \in g.edges : f.relation = "SUPPORTS" /\ f.source \in Ends(g, id, "PRODUCED")}
    <3>1. ev \notin Ends(g, id, "PRODUCED")
      BY <1>1, <1>5 DEF Ends
    <3>2. \A f \in New : f.relation = "SUPPORTS" => f.source = ev
      BY <1>2
    <3> QED
      BY <1>1, <2>4, <3>1, <3>2
  <2> QED
    BY <1>8, <2>1, <2>3, <2>4, <2>5 DEF Tied
<1>11. Tied(h, ex)
  <2>1. \A f \in g.edges : f.source \notin {ex, ev} /\ f.target \notin {ex, ev}
    BY <1>1, <1>5
  <2>2. {e.source : e \in {f \in h.edges :
           f.target = ex /\ f.relation = "HAS_EXECUTION"}} = {inc}
    BY <1>1, <1>2, <1>3, <1>7, <2>1
  <2>3. /\ Ends(h, ex, "USED_STEP") = {st}
        /\ Ends(h, ex, "TARGETED") = {dev}
        /\ Ends(h, ex, "PRODUCED") = {ev}
    <3>1. ex # inc /\ ex # ev
      BY <1>4
    <3> QED
      BY <1>1, <1>2, <1>3, <1>7, <2>1, <3>1 DEF Ends
  <2>4. {e.target : e \in {f \in h.edges :
           f.relation = "SUPPORTS" /\ f.source \in {ev}}}
          = {DiagnosisId(d) : d \in {x.diagnosis} \ {NoDiagnosis}}
    <3>1. CASE x.diagnosis = NoDiagnosis
      <4>1. {f \in h.edges : f.relation = "SUPPORTS" /\ f.source \in {ev}} = {}
        BY <1>1, <1>2, <2>1, <3>1
      <4> QED
        BY <3>1, <4>1
    <3>2. CASE x.diagnosis # NoDiagnosis
      <4>1. {e.target : e \in {f \in h.edges :
               f.relation = "SUPPORTS" /\ f.source \in {ev}}} = {dia}
        BY <1>1, <1>2, <1>3, <1>7, <2>1, <3>2
      <4> QED
        BY <3>2, <4>1 DEF dia
    <3> QED
      BY <3>1, <3>2
  <2>5. \A a : Cardinality({a}) = 1
    BY FS_Singleton
  <2>6. {e.source : e \in {f \in h.edges :
           f.target = ex /\ f.relation = "HAS_EXECUTION"}} = {IncidentId(ex[2])}
    BY <1>4, <2>2
  <2>7. \A relation \in {"USED_STEP", "TARGETED", "PRODUCED"} :
          Cardinality(Ends(h, ex, relation)) = 1
    BY <2>3, <2>5
  <2>8. {e.target : e \in {f \in h.edges :
           f.relation = "SUPPORTS" /\ f.source \in Ends(h, ex, "PRODUCED")}}
          = {DiagnosisId(d) : d \in {h.vertices[ex].diagnosis} \ {NoDiagnosis}}
    <3>1. h.vertices[ex].diagnosis = x.diagnosis
      BY <1>1, <1>6
    <3> QED
      BY <2>3, <2>4, <3>1
  <2> QED
    BY <2>6, <2>7, <2>8 DEF Tied
<1>12. Provenance(h)
  BY <1>1, <1>10, <1>11, ProvenanceIsTied
<1> QED
  BY <1>9, <1>12 DEF h

\* A graph with a history to start from.
LEMMA EmptyIsSound ==
  /\ WellFormed(EmptyExperience)
  /\ EdgesJoinVertices(EmptyExperience)
  /\ Provenance(EmptyExperience)
  /\ Executions(EmptyExperience) = {}
<1>1. /\ DOMAIN EmptyExperience.vertices = {} /\ EmptyExperience.edges = {}
      /\ EmptyExperience.sequence = 0
  BY DEF EmptyExperience
<1>2. Executions(EmptyExperience) = {}
  BY <1>1 DEF Executions
<1>3. Provenance(EmptyExperience)
  BY <1>2, ProvenanceIsTied
<1> QED
  BY <1>1, <1>2, <1>3 DEF WellFormed, SequenceIsFresh, EdgesJoinVertices

-----------------------------------------------------------------------------
(* What step_statistics returns.                                           *)

\* Induction over numbers, for a set of them.
LEMMA AllNumbers ==
  ASSUME NEW P \in SUBSET Nat, 0 \in P, \A n \in P : n + 1 \in P
  PROVE  P = Nat
<1> DEFINE R == StrictSubsetOrdering(Nat)
           T == {0..n : n \in Nat \ P}
<1>1. T \subseteq FiniteSubsetsOf(Nat)
  <2>1. ASSUME NEW n \in Nat PROVE 0..n \in FiniteSubsetsOf(Nat)
    BY FS_Interval DEF FiniteSubsetsOf
  <2> QED BY <2>1
<1>2. IsWellFoundedOn(R, FiniteSubsetsOf(Nat))
  BY FS_StrictSubsetOrderingWellFounded
<1>3. ASSUME P # Nat PROVE FALSE
  <2>1. T # {}
    BY <1>3
  <2>2. PICK X \in T : \A Y \in T : ~ (<<Y, X>> \in R)
    <3> HIDE DEF T, R
    <3> QED BY <1>1, <1>2, <2>1, WFMin
  <2>3. PICK n \in Nat \ P : X = 0..n
    OBVIOUS
  <2>4. n # 0 /\ n - 1 \in Nat /\ n - 1 \notin P
    BY <2>3
  <2>5. (0..n - 1) \in T
    BY <2>4
  <2>6. 0..n - 1 \subseteq 0..n /\ n \in 0..n /\ n \notin 0..n - 1 /\ 0..n \in SUBSET Nat
    BY <2>4
  <2>7. <<0..n - 1, X>> \in R
    BY <2>3, <2>6 DEF StrictSubsetOrdering
  <2> QED BY <2>2, <2>5, <2>7
<1> QED BY <1>3

\* A sum as MapThenSumSet computes it, element by element.
PickedFrom(s) == CHOOSE x \in s : TRUE

SumUp(h, iter, s) ==
  IF s = {} THEN 0 ELSE h[PickedFrom(s)] + iter[s \ {PickedFrom(s)}]

SumsUp(S, h, iter) == iter = [s \in SUBSET S |-> SumUp(h, iter, s)]

\* What is left of a finite set when an element is taken.
LEMMA OneTaken ==
  ASSUME NEW S, IsFiniteSet(S), NEW s \in SUBSET S, s # {}
  PROVE  /\ PickedFrom(s) \in S /\ s \ {PickedFrom(s)} \in SUBSET S
         /\ IsFiniteSet(s) /\ Cardinality(s) \in Nat /\ Cardinality(s) # 0
         /\ Cardinality(s \ {PickedFrom(s)}) = Cardinality(s) - 1
<1>1. IsFiniteSet(s) /\ PickedFrom(s) \in s
  BY FS_Subset DEF PickedFrom
<1>2. Cardinality(s) \in Nat /\ Cardinality(s) # 0
  BY <1>1, FS_CardinalityType, FS_EmptySet
<1> QED
  BY <1>1, <1>2, FS_RemoveElement

LEMMA SumExists ==
  ASSUME NEW S, IsFiniteSet(S), NEW h
  PROVE  \E iter : SumsUp(S, h, iter)
<1> DEFINE Good(g, n) == \A s \in SUBSET S : Cardinality(s) <= n => g[s] = SumUp(h, g, s)
           P == {n \in Nat : \E g : Good(g, n)}
<1>0. /\ \A s \in SUBSET S : Cardinality(s) \in Nat
      /\ \A s \in SUBSET S : Cardinality(s) = 0 => s = {}
  BY FS_Subset, FS_CardinalityType, FS_EmptySet
<1>1. 0 \in P
  <2> DEFINE g == [s \in SUBSET S |-> 0]
  <2>1. ASSUME NEW s \in SUBSET S, Cardinality(s) <= 0 PROVE g[s] = SumUp(h, g, s)
    <3>1. s = {}
      BY <1>0, <2>1
    <3> QED BY <3>1 DEF SumUp
  <2>2. Good(g, 0)
    BY <2>1
  <2> HIDE DEF Good, g
  <2> QED BY <2>2
<1>2. ASSUME NEW n \in P PROVE n + 1 \in P
  <2>1. PICK g : Good(g, n)
    OBVIOUS
  <2> DEFINE f == [s \in SUBSET S |-> SumUp(h, g, s)]
  <2>2. n \in Nat
    OBVIOUS
  <2>3. ASSUME NEW s \in SUBSET S, Cardinality(s) <= n PROVE f[s] = g[s]
    BY <2>1, <2>3
  <2>4. ASSUME NEW s \in SUBSET S, Cardinality(s) <= n + 1 PROVE f[s] = SumUp(h, f, s)
    <3>1. CASE s = {}
      BY <3>1 DEF SumUp
    <3>2. CASE s # {}
      <4> DEFINE t == s \ {PickedFrom(s)}
      <4>1. t \in SUBSET S /\ Cardinality(t) = Cardinality(s) - 1 /\ Cardinality(s) \in Nat
        BY <3>2, OneTaken
      <4>2. Cardinality(t) <= n
        BY <2>2, <2>4, <4>1
      <4>3. f[t] = g[t]
        BY <2>3, <4>1, <4>2
      <4>4. f[s] = h[PickedFrom(s)] + g[t]
        BY <3>2 DEF SumUp
      <4> QED BY <3>2, <4>3, <4>4 DEF SumUp
    <3> QED BY <3>1, <3>2
  <2>5. Good(f, n + 1)
    BY <2>4
  <2> HIDE DEF Good, f
  <2> QED BY <2>2, <2>5
<1>3. P = Nat
  <2> HIDE DEF P
  <2>1. P \in SUBSET Nat
    BY DEF P
  <2> QED BY <1>1, <1>2, <2>1, AllNumbers
<1>4. PICK g : Good(g, Cardinality(S))
  BY <1>0, <1>3
<1>5. ASSUME NEW s \in SUBSET S PROVE g[s] = SumUp(h, g, s)
  <2>1. Cardinality(s) <= Cardinality(S)
    BY FS_Subset
  <2> QED BY <1>4, <2>1
<1> DEFINE iter == [s \in SUBSET S |-> g[s]]
<1>6. ASSUME NEW s \in SUBSET S PROVE iter[s] = SumUp(h, iter, s)
  <2>1. CASE s = {}
    BY <1>5, <2>1 DEF SumUp
  <2>2. CASE s # {}
    <3>1. s \ {PickedFrom(s)} \in SUBSET S
      OBVIOUS
    <3> QED BY <1>5, <2>2, <3>1 DEF SumUp
  <2> QED BY <2>1, <2>2
<1>7. iter = [s \in SUBSET S |-> SumUp(h, iter, s)]
  <2>1. DOMAIN iter = SUBSET S
    OBVIOUS
  <2>2. iter = [s \in SUBSET S |-> iter[s]]
    OBVIOUS
  <2> HIDE DEF iter
  <2> QED BY <1>6, <2>2
<1> HIDE DEF iter
<1> QED BY <1>7 DEF SumsUp

\* Each element adds no more than most.
LEMMA SumBound ==
  ASSUME NEW S, IsFiniteSet(S), NEW most \in Nat, NEW h, \A x \in S : h[x] \in 0..most,
         NEW iter, SumsUp(S, h, iter)
  PROVE  iter[S] \in 0..most * Cardinality(S)
<1> DEFINE P == {n \in Nat : \A s \in SUBSET S : Cardinality(s) = n => iter[s] \in 0..most * n}
<1>0. /\ \A s \in SUBSET S : iter[s] = SumUp(h, iter, s)
      /\ \A s \in SUBSET S : Cardinality(s) \in Nat
      /\ \A s \in SUBSET S : Cardinality(s) = 0 => s = {}
  BY FS_Subset, FS_CardinalityType, FS_EmptySet DEF SumsUp
<1>1. 0 \in P
  <2>1. ASSUME NEW s \in SUBSET S, Cardinality(s) = 0 PROVE iter[s] \in 0..most * 0
    <3>1. iter[s] = 0
      BY <1>0, <2>1 DEF SumUp
    <3> QED BY <3>1
  <2> QED BY <2>1
<1>2. ASSUME NEW n \in P PROVE n + 1 \in P
  <2>1. n \in Nat /\ \A s \in SUBSET S : Cardinality(s) = n => iter[s] \in 0..most * n
    OBVIOUS
  <2>2. ASSUME NEW s \in SUBSET S, Cardinality(s) = n + 1 PROVE iter[s] \in 0..most * (n + 1)
    <3>1. s # {}
      <4>1. Cardinality({}) = 0 /\ n + 1 # 0
        BY <2>1, FS_EmptySet
      <4> QED BY <2>2, <4>1
    <3> DEFINE t == s \ {PickedFrom(s)}
    <3>2. PickedFrom(s) \in S /\ t \in SUBSET S /\ Cardinality(t) = n
      BY <2>1, <2>2, <3>1, OneTaken
    <3>3. h[PickedFrom(s)] \in 0..most /\ iter[t] \in 0..most * n
      BY <2>1, <3>2
    <3>4. iter[s] = h[PickedFrom(s)] + iter[t]
      BY <1>0, <3>1 DEF SumUp
    <3>5. most * (n + 1) = most * n + most /\ most * n \in Nat
      BY <2>1
    <3> HIDE DEF t
    <3> QED BY <3>3, <3>4, <3>5
  <2>3. n + 1 \in Nat
    BY <2>1
  <2> QED BY <2>2, <2>3
<1>3. P = Nat
  <2> HIDE DEF P
  <2>1. P \in SUBSET Nat
    BY DEF P
  <2> QED BY <1>1, <1>2, <2>1, AllNumbers
<1>4. S \in SUBSET S /\ Cardinality(S) \in Nat
  BY <1>0
<1> QED BY <1>3, <1>4

\* Statistics over a history of executions that took at most latency and cost
\* at most cost: sums grow with their number.
LEMMA StatisticsBound ==
  ASSUME NEW g, NEW step, NEW context, NEW latency \in Nat, NEW cost \in Nat,
         StepsAreNamed(g), Within(g, latency, cost)
  PROVE  LET stats == StepStatistics(g, step, context)
         IN  /\ stats.count \in Nat /\ stats.resolved \in 0..stats.count
             /\ stats.latency \in 0..latency * stats.count
             /\ stats.cost \in 0..cost * stats.count
             /\ stats.count = Cardinality(Sample(g, step, context))
             /\ stats.resolved = Cardinality({id \in Sample(g, step, context) :
                                              g.vertices[id].resolved})
             /\ IsFiniteSet(Sample(g, step, context))
<1> DEFINE V == g.vertices
           S == Sample(g, step, context)
           LatencyOf == [id \in S |-> V[id].latency_ms]
           CostOf    == [id \in S |-> V[id].cost]
           R == {id \in S : V[id].resolved}
           stats == StepStatistics(g, step, context)
<1>1. S \subseteq Executions(g)
  <2>1. S \subseteq ExecutionsOf(g, step)
    BY DEF Sample
  <2>2. ExecutionsOf(g, step) \subseteq Executions(g)
    BY DEF ExecutionsOf, StepsAreNamed
  <2> QED
    BY <2>1, <2>2
<1>2. /\ IsFiniteSet(S) /\ Cardinality(S) \in Nat
      /\ IsFiniteSet(R) /\ Cardinality(R) \in Nat /\ Cardinality(R) <= Cardinality(S)
  <2>1. IsFiniteSet(S)
    BY <1>1, FS_Subset DEF Within
  <2>2. R \subseteq S
    OBVIOUS
  <2> HIDE DEF S, R
  <2> QED
    BY <2>1, <2>2, FS_Subset, FS_CardinalityType
<1>3. /\ \A id \in S : LatencyOf[id] \in 0..latency
      /\ \A id \in S : CostOf[id] \in 0..cost
  BY <1>1 DEF Within
<1>4. stats.latency \in 0..latency * Cardinality(S)
  <2> DEFINE Step(iter) == [s \in SUBSET S |->
                             IF s = {} THEN 0
                             ELSE V[CHOOSE x \in s : TRUE].latency_ms
                                    + iter[s \ {CHOOSE x \in s : TRUE}]]
             sum == CHOOSE iter : iter = Step(iter)
  <2>1. stats.latency = sum[S]
    BY DEF StepStatistics, MapThenSumSet, MapThenFoldSet
  <2>2. ASSUME NEW iter PROVE iter = Step(iter) <=> SumsUp(S, LatencyOf, iter)
    <3>1. ASSUME NEW s \in SUBSET S, s # {} PROVE PickedFrom(s) \in S
      BY <1>2, <3>1, OneTaken
    <3>2. ASSUME NEW s \in SUBSET S, s # {}
          PROVE  V[PickedFrom(s)].latency_ms = LatencyOf[PickedFrom(s)]
      BY <3>1, <3>2
    <3>3. ASSUME NEW s \in SUBSET S PROVE Step(iter)[s] = SumUp(LatencyOf, iter, s)
      BY <3>2 DEF SumUp, PickedFrom
    <3>4. Step(iter) = [s \in SUBSET S |-> Step(iter)[s]]
      OBVIOUS
    <3> HIDE DEF Step
    <3> QED
      BY <3>3, <3>4 DEF SumsUp
  <2> HIDE DEF Step
  <2>3. \E iter : iter = Step(iter)
    <3>1. PICK iter : SumsUp(S, LatencyOf, iter)
      <4> HIDE DEF S, LatencyOf
      <4> QED
        BY <1>2, SumExists
    <3>2. iter = Step(iter)
      BY <2>2, <3>1
    <3> QED
      BY <3>2
  <2>4. sum = Step(sum)
    BY <2>3
  <2> HIDE DEF sum, LatencyOf, S
  <2> QED
    BY <1>2, <1>3, <2>1, <2>2, <2>4, SumBound
<1>5. stats.cost \in 0..cost * Cardinality(S)
  <2> DEFINE Step(iter) == [s \in SUBSET S |->
                             IF s = {} THEN 0
                             ELSE V[CHOOSE x \in s : TRUE].cost
                                    + iter[s \ {CHOOSE x \in s : TRUE}]]
             sum == CHOOSE iter : iter = Step(iter)
  <2>1. stats.cost = sum[S]
    BY DEF StepStatistics, MapThenSumSet, MapThenFoldSet
  <2>2. ASSUME NEW iter PROVE iter = Step(iter) <=> SumsUp(S, CostOf, iter)
    <3>1. ASSUME NEW s \in SUBSET S, s # {} PROVE PickedFrom(s) \in S
      BY <1>2, <3>1, OneTaken
    <3>2. ASSUME NEW s \in SUBSET S, s # {}
          PROVE  V[PickedFrom(s)].cost = CostOf[PickedFrom(s)]
      BY <3>1, <3>2
    <3>3. ASSUME NEW s \in SUBSET S PROVE Step(iter)[s] = SumUp(CostOf, iter, s)
      BY <3>2 DEF SumUp, PickedFrom
    <3>4. Step(iter) = [s \in SUBSET S |-> Step(iter)[s]]
      OBVIOUS
    <3> HIDE DEF Step
    <3> QED
      BY <3>3, <3>4 DEF SumsUp
  <2> HIDE DEF Step
  <2>3. \E iter : iter = Step(iter)
    <3>1. PICK iter : SumsUp(S, CostOf, iter)
      <4> HIDE DEF S, CostOf
      <4> QED
        BY <1>2, SumExists
    <3>2. iter = Step(iter)
      BY <2>2, <3>1
    <3> QED
      BY <3>2
  <2>4. sum = Step(sum)
    BY <2>3
  <2> HIDE DEF sum, CostOf, S
  <2> QED
    BY <1>2, <1>3, <2>1, <2>2, <2>4, SumBound
<1>6. stats.count = Cardinality(S) /\ stats.resolved = Cardinality(R)
  BY DEF StepStatistics
<1> QED
  BY <1>2, <1>4, <1>5, <1>6

\* A recorded execution within the bounds leaves the history within them.
LEMMA RecordStaysWithin ==
  ASSUME NEW g, NEW x, NEW latency \in Nat, NEW cost \in Nat,
         WellFormed(g), StepsAreNamed(g), Within(g, latency, cost),
         x.latency_ms \in 0..latency, x.cost \in 0..cost
  PROVE  LET h == RecordExecution(g, x)
         IN  /\ StepsAreNamed(h) /\ Within(h, latency, cost)
             /\ \A e \in h.edges :
                  e.relation = "USED_STEP" => e \in g.edges \/ e.target[3] = x.step
<1> DEFINE n  == NextSequence(g)
           h  == RecordExecution(g, x)
           ex == ExecutionId(x.incident, n)
           st == StepId(x.version, x.step)
<1>1. /\ Extends(h, g)
      /\ Executions(h) = Executions(g) \cup {ex}
      /\ h.vertices[ex] = ExecutionEntity(x)
      /\ h.edges = g.edges \cup RecordedEdges(x, n)
      /\ st \in DOMAIN h.vertices
      /\ \A w \in DOMAIN h.vertices \ DOMAIN g.vertices :
           w[1] = "procedure-step" => w[3] = x.step /\ h.vertices[w].step_id = x.step
  BY RecordExtends
<1>2. st[1] = "procedure-step" /\ st[3] = x.step
  BY IdKinds
<1>3. \A e \in RecordedEdges(x, n) :
        e.relation = "USED_STEP" => e.source = ex /\ e.target = st
  BY NewEdges
<1>4. /\ ExecutionEntity(x).latency_ms = x.latency_ms
      /\ ExecutionEntity(x).cost = x.cost
  BY DEF ExecutionEntity
<1> HIDE DEF n, h, ex, st
<1>5. StepsAreNamed(h)
  <2>1. ASSUME NEW id \in DOMAIN h.vertices, id[1] = "procedure-step"
        PROVE  h.vertices[id].step_id = id[3]
    BY <1>1, <2>1 DEF StepsAreNamed, Extends
  <2>2. ASSUME NEW e \in h.edges, e.relation = "USED_STEP"
        PROVE  /\ e.source \in Executions(h)
               /\ e.target \in DOMAIN h.vertices /\ e.target[1] = "procedure-step"
    BY <1>1, <1>2, <1>3, <2>2 DEF StepsAreNamed, Extends
  <2> QED
    BY <2>1, <2>2 DEF StepsAreNamed
<1>6. Within(h, latency, cost)
  <2>1. IsFiniteSet(Executions(h))
    BY <1>1, FS_AddElement DEF Within
  <2>2. ASSUME NEW id \in Executions(h)
        PROVE  h.vertices[id].latency_ms \in 0..latency /\ h.vertices[id].cost \in 0..cost
    <3>1. CASE id = ex
      BY <1>1, <1>4, <3>1
    <3>2. CASE id \in Executions(g)
      <4>1. h.vertices[id] = g.vertices[id]
        BY <1>1, <3>2 DEF Extends, Executions
      <4> QED
        BY <3>2, <4>1 DEF Within
    <3> QED
      BY <1>1, <3>1, <3>2
  <2> QED
    BY <2>1, <2>2 DEF Within
<1>7. \A e \in h.edges :
        e.relation = "USED_STEP" => e \in g.edges \/ e.target[3] = x.step
  BY <1>1, <1>2, <1>3
<1> QED
  BY <1>5, <1>6, <1>7 DEF h

\* The executions of other steps are what they were.
LEMMA OtherExecutions ==
  ASSUME NEW g, NEW x, WellFormed(g), StepsAreNamed(g), NEW step, step # x.step
  PROVE  LET h == RecordExecution(g, x)
         IN  /\ ExecutionsOf(h, step) = ExecutionsOf(g, step)
             /\ \A id \in ExecutionsOf(g, step) : h.vertices[id] = g.vertices[id]
<1> DEFINE n  == NextSequence(g)
           h  == RecordExecution(g, x)
           ex == ExecutionId(x.incident, n)
           st == StepId(x.version, x.step)
<1>1. /\ Extends(h, g)
      /\ h.edges = g.edges \cup RecordedEdges(x, n)
      /\ st \in DOMAIN h.vertices
      /\ \A w \in DOMAIN h.vertices \ DOMAIN g.vertices :
           w[1] = "procedure-step" => w[3] = x.step /\ h.vertices[w].step_id = x.step
  BY RecordExtends
<1>2. st[1] = "procedure-step" /\ st[3] = x.step
  BY IdKinds
<1>3. \A e \in RecordedEdges(x, n) :
        e.relation = "USED_STEP" => e.source = ex /\ e.target = st
  BY NewEdges
<1> HIDE DEF n, h, ex, st
<1>4. h.vertices[st].step_id = x.step
  BY <1>1, <1>2 DEF StepsAreNamed, Extends
<1>5. \A e \in g.edges :
        e.relation = "USED_STEP" =>
          /\ h.vertices[e.target] = g.vertices[e.target]
          /\ h.vertices[e.source] = g.vertices[e.source]
  BY <1>1 DEF StepsAreNamed, Extends, Executions
<1>6. {e \in h.edges : e.relation = "USED_STEP" /\ h.vertices[e.target].step_id = step}
        = {e \in g.edges : e.relation = "USED_STEP" /\ g.vertices[e.target].step_id = step}
  BY <1>1, <1>3, <1>4, <1>5
<1> QED
  BY <1>5, <1>6 DEF ExecutionsOf, h

LEMMA EmptyIsWithin ==
  ASSUME NEW latency \in Nat, NEW cost \in Nat
  PROVE  StepsAreNamed(EmptyExperience) /\ Within(EmptyExperience, latency, cost)
<1>1. DOMAIN EmptyExperience.vertices = {} /\ EmptyExperience.edges = {}
  BY DEF EmptyExperience
<1>2. Executions(EmptyExperience) = {}
  BY <1>1 DEF Executions
<1> QED
  BY <1>1, <1>2, FS_EmptySet DEF StepsAreNamed, Within
=============================================================================
