------------------------------- MODULE MCCustom -------------------------------
(***************************************************************************)
(* The engine over a small procedure that validate() accepts and that has  *)
(* everything the shipped one lacks: a cycle, transitions of equal         *)
(* priority, outcomes without a transition, a diagnosis without a terminal *)
(* step, and a step limit that a run can reach before its verdict.         *)
(***************************************************************************)
EXTENDS EngineRefinement

MCActionSteps == {"a", "b", "c"}
MCTerminalDiagnosis == [found |-> "fault_x", escalate |-> "escalate"]
MCTerminalSteps == DOMAIN MCTerminalDiagnosis
MCOutcomes == {"more", "proved", "nothing"}
MCDiagnoses == {"fault_x", "fault_y", "escalate"}

Arc(source, outcome, target, priority) ==
  [source |-> source, outcome |-> outcome, target |-> target, priority |-> priority]

MCTransitions ==
  {Arc("a", "more", "b", 50), Arc("a", "more", "c", 50),
   Arc("a", "nothing", "escalate", 10), Arc("a", "nothing", "b", 5),
   Arc("b", "more", "c", 50), Arc("b", "more", "a", 60),
   Arc("b", "nothing", "a", 50),
   Arc("c", "more", "a", 50), Arc("c", "more", "b", 40),
   Arc("c", "proved", "found", 100)}

MCTool == [s \in MCActionSteps |-> "show"]
MCDevice == [s \in MCActionSteps |-> "r1"]
MCCost == [s \in MCActionSteps |-> 1]

MCResults(step) == [returncode : {0, 1}, stdout : MCOutcomes, latency_ms : {10}]
MCEvaluates(i, step, r) == r.returncode = 0
MCEvaluate(i, step, r) ==
  [outcome   |-> r.stdout,
   diagnosis |-> CASE r.stdout = "proved" /\ step = "c" -> "fault_x"
                   [] r.stdout = "proved" /\ step = "b" -> "fault_y"
                   [] OTHER -> NoDiagnosis]

MCIncidents == {"inc1", "inc2"}
MCPolicies == {"fixed", "experience"}
MCExperiences == {EmptyExperience}

\* What the refinement theorem asks of a procedure.
ASSUME TerminalsMatchEvidence /\ ProofsConclude
=============================================================================
