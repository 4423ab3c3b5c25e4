------------------------------- MODULE BGPEngine -------------------------------
(***************************************************************************)
(* The engine with the procedure, the tool boundary and the evaluator that *)
(* the program ships: ProcedureEngine with its CONSTANTS tied to the       *)
(* values of BGPProcedure.  The assumption is what the proofs know of      *)
(* them; a configuration that substitutes anything else fails it.          *)
(***************************************************************************)
EXTENDS BGPProcedure, ProcedureEngine

\* BGPProcedureEngine.__init__ and run() as the program calls them: nothing
\* passes another procedure, evaluator or max_steps.
ASSUME ShippedAssumption ==
  /\ ActionSteps = BgpActionSteps
  /\ TerminalSteps = BgpTerminalSteps
  /\ StartStep = BgpStartStep
  /\ TerminalDiagnosis = BgpTerminalDiagnosis
  /\ Transitions = BgpTransitions
  /\ Tool = BgpTool /\ Device = BgpDevice /\ Cost = BgpCost
  /\ NoDiagnosis = NoFault
  /\ \A s \in ActionSteps : Results(s) = BgpResults(s)
  /\ \A i \in Incidents, s \in ActionSteps : \A r \in Results(s) :
       /\ Evaluates(i, s, r) <=> BgpEvaluates(i, s, r)
       /\ Evaluates(i, s, r) => Evaluate(i, s, r) = BgpEvaluate(i, s, r)
  /\ MaxSteps = 12

\* Commands of less than six and a half seconds, those of the loaded history
\* included: what the proofs about navigators with experience ask for.
ShippedQuick ==
  /\ Latencies \subseteq 0..6499
  /\ \A g \in InitialExperiences : QuickHistory(g, 6499, 1)

-----------------------------------------------------------------------------
(* What a navigator with experience does with the shipped priorities.      *)

Resolved(g, step) ==
  {id \in ExecutionsOf(g, step) : g.vertices[id].resolved}

\* "If peer-configuration comparison repeatedly proves ASN mismatches while
\* firewall inspection repeatedly returns clear, the configuration step moves
\* earlier for similar future investigations" (docs/graph-model.md): with such
\* a history the step chosen after a reachable peer is peer_configuration.
MovesEarlier ==
  LET firewall == ExecutionsOf(experience, "firewall_policy")
      config   == ExecutionsOf(experience, "peer_configuration")
  IN  (/\ policy = "experience" /\ pc = "answered" /\ pc' = "loop"
       /\ current = "peer_reachability" /\ current' \in ActionSteps
       /\ firewall # {} /\ Resolved(experience, "firewall_policy") = {}
       /\ config # {} /\ Resolved(experience, "peer_configuration") = config)
      => current' = "peer_configuration"

ConfigMovesEarlier == [][MovesEarlier]_vars
================================================================================
